------------------------------- MODULE SignIn -------------------------------
(***************************************************************************)
(* Signing in, without a password: by a magic link that is mailed and      *)
(* opened once, or over Google.  Both resolve the verified email to one    *)
(* account, created by the first of them, and then start a session of      *)
(* module Sessions.  One email here; the rate limit of links is kept in    *)
(* Redis, read before a link is saved, incremented after, and the link     *)
(* mailed last, in four steps that a crash can part.  The per-IP limit,    *)
(* which only refuses more, is left out.                                   *)
(*                                                                         *)
(* External: the mail server, which may drop a mail, and Google, which     *)
(* vouches for the email or not.                                           *)
(***************************************************************************)
EXTENDS Sessions

CONSTANTS
    Links,       \* magic links that may come to exist
    NoLink,
    Askers,      \* sign-in forms that are submitted
    MaxPerEmail, \* MAX_PER_EMAIL (3)
    MaxMishaps   \* bound: requests for a link that die, and increments that are refused

ASSUME SignInAssumption ==
    /\ NoLink \notin Links
    /\ IsFiniteSet(Askers)
    /\ MaxPerEmail \in Nat \ {0}
    /\ MaxMishaps \in Nat

VARIABLES
    link,       \* magic_link_tokens: "none", "saved", "mailed" or "used"
    stale,      \* links whose expires_at has passed
    count,      \* magic_link:email:<email> in Redis
    uncounted,  \* increments Redis refused since the counter began
    mails,      \* external: links handed to the mail server since then
    mishaps,    \* requests that died, and increments refused, so far
    asker,      \* how far each request for a link is, and the link it saved
    entry,      \* what each sign-in is doing before its session starts
    oauth,      \* the oauth_google_state cookie: the tab that set it, or NoTab
    account,    \* the user's row: "none" or "present"
    identities, \* auth_identities of the user
    claims      \* times a link passed the single-use update

askVars == <<count, uncounted, mails, mishaps, asker>>
linkVars == <<link, stale, askVars, claims>>
accountVars == <<account, identities>>
signInVars == <<sessionVars, linkVars, entry, oauth, accountVars>>

NoTab == "none"
NoRequest == [pc |-> "idle", link |-> NoLink]
NoEntry == [pc |-> "none", link |-> NoLink]

InitSignIn ==
    /\ Init
    /\ link = [l \in Links |-> "none"]
    /\ stale = {}
    /\ count = 0 /\ uncounted = 0 /\ mails = 0 /\ mishaps = 0
    /\ asker = [a \in Askers |-> NoRequest]
    /\ entry = [c \in SignIns |-> NoEntry]
    /\ oauth = NoTab
    /\ account = "none"
    /\ identities = {}
    /\ claims = [l \in Links |-> 0]

-----------------------------------------------------------------------------
(* Asking for a link. *)

\* The process stops, or the database or Redis fails a call.
Mishap == mishaps < MaxMishaps /\ mishaps' = mishaps + 1

Checks(a) ==
    /\ asker[a] = NoRequest
    /\ asker' = [asker EXCEPT ![a].pc = "passed"]
    /\ UNCHANGED <<sessionVars, link, stale, count, uncounted, mails, mishaps, claims, entry, oauth,
                   accountVars>>

\* Variant: the limit is off by one.
CheckLimit_OneMore(a) == count <= MaxPerEmail /\ Checks(a)

\* checkRateLimits; over the limit, nothing happens and the answer is the same.
CheckLimit(a) == count < MaxPerEmail /\ Checks(a)

\* magicLinkRepo.save
SaveLink(a) ==
    /\ asker[a].pc = "passed"
    /\ \E l \in Links :
          /\ link[l] = "none"
          /\ link' = [link EXCEPT ![l] = "saved"]
          /\ asker' = [asker EXCEPT ![a] = [pc |-> "saved", link |-> l]]
    /\ UNCHANGED <<sessionVars, stale, count, uncounted, mails, mishaps, claims, entry, oauth, accountVars>>

\* incrementRateLimits, which pushes the counter's expiry out again.  The answers
\* of the pipeline are not looked at: one that Redis refuses goes unnoticed.
CountLink(a) ==
    /\ asker[a].pc = "saved"
    /\ \/ count' = count + 1 /\ UNCHANGED <<uncounted, mishaps>>
       \/ uncounted' = uncounted + 1 /\ Mishap /\ UNCHANGED count
    /\ asker' = [asker EXCEPT ![a].pc = "counted"]
    /\ UNCHANGED <<sessionVars, link, stale, mails, claims, entry, oauth, accountVars>>

\* sendMagicLink never throws.  A mail that does not arrive is one nobody opens, and
\* another link of the email may have used its link up.
MailLink(a) ==
    LET l == asker[a].link IN
    /\ asker[a].pc = "counted"
    /\ mails' = mails + 1
    /\ link' = [link EXCEPT ![l] = IF @ = "saved" THEN "mailed" ELSE @]
    /\ asker' = [asker EXCEPT ![a] = NoRequest]
    /\ UNCHANGED <<sessionVars, stale, count, uncounted, mishaps, claims, entry, oauth, accountVars>>

\* A request fails between two steps: what was done stays.
RequestDies(a) ==
    /\ asker[a].pc \in {"passed", "saved", "counted"}
    /\ Mishap
    /\ asker' = [asker EXCEPT ![a] = NoRequest]
    /\ UNCHANGED <<sessionVars, link, stale, count, uncounted, mails, claims, entry, oauth, accountVars>>

Asks(a) ==
    CheckLimit(a) \/ SaveLink(a) \/ CountLink(a) \/ MailLink(a) \/ RequestDies(a)

\* 15 minutes after the last request both the counter and the links are gone;
\* purgeExpiredTokens deletes the rows a day later, which nobody can tell apart.
WindowPasses ==
    /\ \A a \in Askers : asker[a] = NoRequest
    /\ Quiet
    /\ \E l \in Links \ stale : link[l] # "none"
    /\ count' = 0 /\ uncounted' = 0 /\ mails' = 0
    /\ stale' = {l \in Links : link[l] # "none"}
    /\ UNCHANGED <<sessionVars, link, asker, mishaps, claims, entry, oauth, accountVars>>

-----------------------------------------------------------------------------
(* Opening a link. *)

Enters(c, pc) == entry' = [entry EXCEPT ![c].pc = pc]
Leaves(c) == entry' = [entry EXCEPT ![c] = NoEntry]
Fails(c) == SignInFails(c) /\ Leaves(c)

\* The verify page is opened, in as many tabs as the user likes, and finds the
\* link; one that is unknown, expired or used is refused, all alike.
OpenLink(c, l) ==
    /\ SendSignIn(c)
    /\ link[l] = "mailed"
    /\ l \notin stale
    /\ entry' = [entry EXCEPT ![c] = [pc |-> "using", link |-> l]]
    /\ UNCHANGED <<linkVars, oauth, accountVars>>

\* Variant: the update does not ask for an unused link.
UseLink_Unconditional(c) ==
    LET l == entry[c].link IN
    /\ entry[c].pc = "using"
    /\ link' = [link EXCEPT ![l] = "used"]
    /\ claims' = [claims EXCEPT ![l] = @ + 1]
    /\ Enters(c, "invalidating")
    /\ UNCHANGED <<sessionVars, stale, askVars, oauth, accountVars>>

\* The single-use update: of two that found the link, one gets it.
UseLink(c) ==
    LET l == entry[c].link IN
    /\ entry[c].pc = "using"
    /\ IF link[l] # "used"
       THEN /\ link' = [link EXCEPT ![l] = "used"]
            /\ claims' = [claims EXCEPT ![l] = @ + 1]
            /\ Enters(c, "invalidating")
            /\ UNCHANGED sessionVars
       ELSE Fails(c) /\ UNCHANGED <<link, claims>>
    /\ UNCHANGED <<stale, askVars, oauth, accountVars>>

\* Every other outstanding link of the email is used up, mailed or not.
InvalidateOthers(c) ==
    /\ entry[c].pc = "invalidating"
    /\ link' = [l \in Links |-> IF link[l] = "none" THEN "none" ELSE "used"]
    /\ Enters(c, "resolving")
    /\ UNCHANGED <<sessionVars, stale, askVars, claims, oauth, accountVars>>

-----------------------------------------------------------------------------
(* Google. *)

\* One state cookie per browser: a second tab that starts overwrites the first's.
StartGoogle(c) ==
    /\ SendSignIn(c)
    /\ oauth' = c[1]
    /\ Enters(c, "consent")
    /\ UNCHANGED <<linkVars, accountVars>>

\* The callback clears the cookies, checks the state and exchanges the code;
\* whatever fails, the browser is sent back with an error.
GoogleCallback(c) ==
    /\ entry[c].pc = "consent"
    /\ oauth' = NoTab
    /\ \/ oauth = c[1] /\ Enters(c, "resolving") /\ UNCHANGED sessionVars
       \/ Fails(c)
    /\ UNCHANGED <<linkVars, accountVars>>

-----------------------------------------------------------------------------
(* AccountResolutionService.resolve, one transaction. *)

ProviderOf(c) == IF entry[c].link = NoLink THEN "google" ELSE "email_link"

\* The user's row is found and locked; identities are inserted or ignored.
ResolveKnown(c) ==
    /\ entry[c].pc = "resolving"
    /\ account = "present"
    /\ IF active
       THEN /\ SignedIn(c)
            /\ Leaves(c)
            /\ identities' = identities \union {ProviderOf(c)}
       ELSE Fails(c) /\ UNCHANGED identities
    /\ UNCHANGED <<linkVars, oauth, account>>

\* There is no row, so there is nothing to lock.
ResolveUnknown(c) ==
    /\ entry[c].pc = "resolving"
    /\ account = "none"
    /\ Enters(c, "inserting")
    /\ UNCHANGED <<sessionVars, linkVars, oauth, accountVars>>

\* The insert.  External: after a unique violation Postgres refuses every further
\* statement of the transaction (25P02), the catch block's second SELECT included.
InsertUser(c) ==
    /\ entry[c].pc = "inserting"
    /\ IF account = "none"
       THEN /\ SignedIn(c)
            /\ Leaves(c)
            /\ account' = "present"
            /\ identities' = {ProviderOf(c)}
       ELSE Fails(c) /\ UNCHANGED accountVars
    /\ UNCHANGED <<linkVars, oauth>>

\* The process stops, or the browser leaves: what was committed stays.
CallIsLost(c) ==
    /\ LoseAnswer(c)
    /\ entry' = IF c \in SignIns THEN [entry EXCEPT ![c] = NoEntry] ELSE entry
    /\ UNCHANGED <<linkVars, oauth, accountVars>>

-----------------------------------------------------------------------------
NextSignIn ==
    \/ /\ \/ SessionStep
          \/ UpdateUser /\ account = "present"
       /\ UNCHANGED <<linkVars, entry, oauth, accountVars>>
    \/ \E a \in Askers : Asks(a)
    \/ WindowPasses
    \/ \E c \in SignIns :
          \/ UseLink(c) \/ InvalidateOthers(c) \/ StartGoogle(c) \/ GoogleCallback(c)
          \/ ResolveKnown(c) \/ ResolveUnknown(c) \/ InsertUser(c)
          \/ \E l \in Links : OpenLink(c, l)
    \/ \E c \in Calls : CallIsLost(c)

SpecSignIn == InitSignIn /\ [][NextSignIn]_signInVars

-----------------------------------------------------------------------------
\* Types, checked with MailsBounded.
SignInOK ==
    /\ link \in [Links -> {"none", "saved", "mailed", "used"}]
    /\ stale \in SUBSET Links
    /\ count \in 0 .. MaxPerEmail + Cardinality(Askers) - 1
    /\ uncounted \in Nat /\ mails \in Nat /\ mishaps \in 0 .. MaxMishaps
    /\ asker \in [Askers -> [pc : {"idle", "passed", "saved", "counted"},
                             link : Links \union {NoLink}]]
    /\ entry \in [SignIns -> [pc : {"none", "using", "invalidating", "consent",
                                   "resolving", "inserting"},
                             link : Links \union {NoLink}]]
    /\ oauth \in Tabs \union {NoTab}
    /\ account \in {"none", "present"}
    /\ identities \in SUBSET {"google", "email_link"}
    /\ claims \in [Links -> Nat]

\* A link signs in once, in however many tabs it is opened at once
\* (auth_flow.md, section 3).
LinkOpensOnce == \A l \in Links : claims[l] <= 1

\* The limit is checked before a link is saved and counted before it is mailed, so
\* that requests which overlap pass it together, but no more than one each, and a
\* crash between the steps costs a mail and never gives one away: the mails of a
\* window are bounded by the limit, the requests that can be in flight and the
\* increments Redis refused.  The bound is above the 3 of auth_flow.md, section 3.
MailsBounded ==
    /\ SignInOK
    /\ mails <= MaxPerEmail + Cardinality(Askers) - 1 + uncounted
=============================================================================
