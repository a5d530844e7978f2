----------------------------- MODULE Passengers -----------------------------
(***************************************************************************)
(* The people of one booking, from the offer that was picked in the search *)
(* to the order at Duffel.  createBooking tells the checkout page which    *)
(* types to ask for; savePassengers pairs what was submitted with Duffel's *)
(* passenger ids and links each infant to an adult; after the payment,     *)
(* fulfillOrder builds Duffel's list from the rows.  What does not fit is  *)
(* rejected by Duffel only then, when the customer has paid.               *)
(***************************************************************************)
EXTENDS Integers, Sequences, FiniteSets

CONSTANT MaxParty       \* bound: passengers of an offer, or of a request

ASSUME PassengersAssumption == MaxParty \in Nat \ {0}

VARIABLES
    stage,      \* "created", "refused", "saved" or "ordered"
    offer,      \* Duffel's type of each passenger; their ids are 1, 2, ...
    documents,  \* passenger_identity_documents_required
    rows,       \* the passengers table, by index in the request
    order,      \* passengers of the order sent to Duffel, by row
    ownForm     \* the request last refused was one the checkout page can make

partyVars == <<stage, offer, documents, rows, order, ownForm>>

PassengerType == {"adult", "child", "infant"}

\* normalizePassengerType: "none" is null, of a type Duffel gives by age.
Normalized(type) ==
    CASE type \in PassengerType -> type
      [] type = "infant_without_seat" -> "infant"
      [] OTHER -> "none"

\* mapOffer keeps Duffel's list, whatever was searched for.
InitParty ==
    /\ stage = "created"
    /\ offer \in UNION {[1 .. n -> {"adult", "child", "infant_without_seat", "by_age"}] :
                            n \in 1 .. MaxParty}
    /\ documents \in BOOLEAN
    /\ rows = << >>
    /\ order = << >>
    /\ ownForm = FALSE

-----------------------------------------------------------------------------
\* A request body the validation lets through: a document is complete or left out,
\* and the responsible adult, which is read for an infant, is any index or none (0).
Person == {p \in [type : PassengerType, adult : 0 .. MaxParty, document : BOOLEAN] :
              p.type # "infant" => p.adult = 0}

\* What the page sends: its fields are those of the requirements, all of them
\* required, and it lets an infant's adult be chosen among the adults.
PageMakes(form) ==
    /\ Len(form) = Len(offer)
    /\ \A i \in 1 .. Len(form) :
          /\ form[i].type = Normalized(offer[i])
          /\ form[i].document = documents
          /\ form[i].adult \in IF form[i].type = "infant"
                               THEN {j \in 1 .. Len(form) : form[j].type = "adult"}
                               ELSE {0}

\* Offer passengers of a type, and the n-th of some of them.
OfType(type) == {k \in 1 .. Len(offer) : Normalized(offer[k]) = type}
Nth(some, n) == CHOOSE k \in some : Cardinality({j \in some : j <= k}) = n

\* Position of input i among those of its own type.
Turn(form, i) == Cardinality({j \in 1 .. i : form[j].type = form[i].type})

\* Inputs that come when the ids of their own type are used up, and the position
\* of input i among them.
Left(form, i) == Turn(form, i) > Cardinality(OfType(form[i].type))
LeftTurn(form, i) == Cardinality({j \in 1 .. i : Left(form, j)})

\* Variant: passengers are paired by index.
SupplierId_ByIndex(form, i) == i

\* assignSupplierPassengerIds: the next id of the same type, else the next one of
\* no known type; 0 when there is none.
SupplierId(form, i) ==
    CASE ~ Left(form, i) -> Nth(OfType(form[i].type), Turn(form, i))
      [] Left(form, i) /\ LeftTurn(form, i) <= Cardinality(OfType("none")) ->
            Nth(OfType("none"), LeftTurn(form, i))
      [] OTHER -> 0

\* The responsible adult is an adult of the same request.
HasAdult(form, i) ==
    form[i].adult \in {j \in 1 .. Len(form) : form[j].type = "adult"}

Accepted(form) ==
    /\ Len(form) = Len(offer)
    /\ \A i \in 1 .. Len(form) :
          /\ SupplierId(form, i) # 0
          /\ documents => form[i].document
          /\ form[i].type = "infant" => HasAdult(form, i)

\* savePassengers: all rows in one transaction, or none.
SaveParty(form) ==
    /\ stage \in {"created", "refused"}
    /\ IF Accepted(form)
       THEN /\ stage' = "saved"
            /\ rows' = [i \in 1 .. Len(form) |->
                  [type |-> form[i].type, id |-> SupplierId(form, i),
                   adult |-> IF form[i].type = "infant" THEN form[i].adult ELSE 0,
                   document |-> form[i].document]]
            /\ UNCHANGED ownForm
       ELSE /\ stage' = "refused"
            /\ ownForm' = PageMakes(form)
            /\ UNCHANGED rows
    /\ UNCHANGED <<offer, documents, order>>

\* Infants whose row names the adult of row i.
InfantsOf(i) == {k \in 1 .. Len(rows) : rows[k].type = "infant" /\ rows[k].adult = i}

\* mapPassengersToDuffel: the adult carries the infant, the first that find()
\* meets in rows that were read without an order.
FulfillParty ==
    /\ stage = "saved"
    /\ stage' = "ordered"
    /\ \E first \in [1 .. Len(rows) -> 0 .. Len(rows)] :
          /\ \A i \in 1 .. Len(rows) :
                first[i] \in IF InfantsOf(i) = {} THEN {0} ELSE InfantsOf(i)
          /\ order' = [i \in 1 .. Len(rows) |->
                [id |-> rows[i].id, document |-> rows[i].document,
                 infant |-> IF first[i] = 0 THEN 0 ELSE rows[first[i]].id]]
    /\ UNCHANGED <<offer, documents, rows, ownForm>>

NextParty ==
    \/ \E n \in 1 .. MaxParty : \E form \in [1 .. n -> Person] : SaveParty(form)
    \/ FulfillParty

SpecParty == InitParty /\ [][NextParty]_partyVars

-----------------------------------------------------------------------------
\* What the customer paid for can be ordered.  Whatever was submitted, of the page
\* or not: the order names every passenger of the offer once, under a type Duffel
\* gave it or left open, with a document where one is required, and every infant
\* travels with the adult that answers for it, unless two infants were given to one
\* adult, whom Duffel can give only one.  And the page's own form is refused only
\* for an offer passenger whose type Duffel left open.
OrderFitsOffer ==
    /\ stage = "ordered" =>
          /\ Len(order) = Len(offer)
          /\ {order[i].id : i \in 1 .. Len(order)} = 1 .. Len(offer)
          /\ \A i \in 1 .. Len(order) :
                /\ Normalized(offer[order[i].id]) \in {rows[i].type, "none"}
                /\ documents => order[i].document
                /\ rows[i].type = "infant" =>
                      LET adult == rows[i].adult IN
                      /\ {j \in 1 .. Len(order) : order[j].infant = order[i].id} \subseteq {adult}
                      /\ order[adult].infant = order[i].id \/ InfantsOf(adult) # {i}
    /\ stage = "refused" /\ ownForm => \E k \in 1 .. Len(offer) : Normalized(offer[k]) = "none"
=============================================================================
