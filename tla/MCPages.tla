------------------------------- MODULE MCPages -------------------------------
(* The pages that share no state with each other: a search, the people of a  *)
(* booking, two admins who edit, and one who reads a list.  A behaviour is   *)
(* one of one of the four, which starts from its own initial states.         *)
EXTENDS FlightSearch, Passengers, AdminConsole, AdminLists

CONSTANTS x0, x1, x2, y1, y2, c1, t1, n1, open, done

VARIABLE part       \* which of the four it is

InitPages ==
    /\ Init /\ InitParty /\ InitEdits /\ InitLists
    /\ part \in {"search", "party", "edits", "lists"}
    /\ part # "party" => offer = <<"adult">> /\ ~ documents
    /\ part # "lists" => table = << >>

NextPages ==
    /\ UNCHANGED part
    /\ \/ part = "search" /\ Next /\ UNCHANGED <<partyVars, editVars, listVars>>
       \/ part = "party" /\ NextParty /\ UNCHANGED <<vars, editVars, listVars>>
       \/ part = "edits" /\ NextEdits /\ UNCHANGED <<vars, partyVars, listVars>>
       \/ part = "lists" /\ NextLists /\ UNCHANGED <<vars, partyVars, editVars>>

SpecPages == InitPages /\ [][NextPages]_<<vars, partyVars, editVars, listVars, part>>

\* The two forms of the search are also the two admins, and its two requests the
\* two markup rules: each part has one pair or the other to permute.
Same == Permutations({x1, x2}) \union Permutations({y1, y2})
=============================================================================
