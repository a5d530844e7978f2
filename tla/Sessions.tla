------------------------------ MODULE Sessions ------------------------------
(***************************************************************************)
(* The session of one user in one browser.  A refresh token lives in an    *)
(* httpOnly cookie that all tabs share; every refresh claims the presented *)
(* token with a conditional update and inserts the next one of the same    *)
(* family in a second statement, outside any transaction.  A token that is *)
(* presented after it was claimed is taken for stolen, and its family is   *)
(* revoked.  An access token lives in the memory of a tab and is verified  *)
(* without the database until it expires.                                  *)
(*                                                                         *)
(* A tab sends four kinds of call: the refresh of AuthProvider when a page *)
(* loads, the refresh of apiFetch after a 401, of which a tab has one in   *)
(* flight, a logout and a sign-in.                                         *)
(***************************************************************************)
EXTENDS Naturals, FiniteSets

CONSTANTS
    Tabs,       \* tabs of the browser
    Kinds,      \* calls a tab makes: "mount" is the refresh of AuthProvider,
                \* "retry" that of apiFetch, and "logout"
    Tokens,     \* refresh tokens that may come to exist
    NoToken,
    MaxCalls,   \* bound: calls in flight at a time
    MaxFlips,   \* bound: activations and deactivations by an admin
    MaxLost     \* bound: responses that get lost and processes that stop

ASSUME SessionsAssumption ==
    /\ Kinds \subseteq {"mount", "retry", "logout"}
    /\ NoToken \notin Tokens
    /\ MaxCalls \in Nat
    /\ MaxFlips \in Nat
    /\ MaxLost \in Nat

VARIABLES
    row,        \* refresh_tokens: "none", "live" or "revoked"
    family,     \* family_id: the first token of the family
    expired,    \* tokens whose expires_at has passed
    active,     \* users.is_active
    settled,    \* a lifetime of access tokens has passed since a deactivation
    cookie,     \* the refresh_token cookie of the browser
    access,     \* the access token in a tab's memory: "none", "valid" or "stale"
    call,       \* what each call is doing
    flagged,    \* families the log says were reused
    flips, lost

tokenVars == <<row, family, expired, flagged>>
userVars == <<active, settled, flips>>
tabVars == <<cookie, access>>
sessionVars == <<tokenVars, userVars, tabVars, call, lost>>

Refreshes == Tabs \X (Kinds \ {"logout"})
Logouts == Tabs \X (Kinds \ {"mount", "retry"})
SignIns == Tabs \X {"signin"}
Calls == Refreshes \union Logouts \union SignIns

Idle == [pc |-> "idle", token |-> NoToken, new |-> NoToken, sawActive |-> FALSE]
Quiet == \A c \in Calls : call[c] = Idle
MayCall(c) == /\ call[c] = Idle
              /\ Cardinality({d \in Calls : call[d] # Idle}) < MaxCalls
FamilyLive(f) == {t \in Tokens : row[t] = "live" /\ family[t] = f}

Init ==
    /\ row = [t \in Tokens |-> "none"]
    /\ family = [t \in Tokens |-> NoToken]
    /\ expired = {}
    /\ active = TRUE
    /\ settled = FALSE
    /\ cookie = NoToken
    /\ access = [x \in Tabs |-> "none"]
    /\ call = [c \in Calls |-> Idle]
    /\ flagged = {}
    /\ flips = 0
    /\ lost = 0

-----------------------------------------------------------------------------
(* The browser. *)

Send(c) == call' = [call EXCEPT ![c] = [Idle EXCEPT !.pc = "sent", !.token = cookie]]
Becomes(c, pc) == call' = [call EXCEPT ![c].pc = pc]

\* A page is loaded: the access token is gone, AuthProvider refreshes.
Load(x) ==
    /\ "mount" \in Kinds
    /\ MayCall(<<x, "mount">>)
    /\ access' = [access EXCEPT ![x] = "none"]
    /\ Send(<<x, "mount">>)
    /\ UNCHANGED <<tokenVars, userVars, cookie, lost>>

\* An API call was answered 401: refreshSession, unless one is in flight.
Retry(x) ==
    /\ access[x] # "valid"
    /\ "retry" \in Kinds
    /\ MayCall(<<x, "retry">>)
    /\ Send(<<x, "retry">>)
    /\ UNCHANGED <<tokenVars, userVars, tabVars, lost>>

Logout(x) ==
    /\ "logout" \in Kinds
    /\ MayCall(<<x, "logout">>)
    /\ Send(<<x, "logout">>)
    /\ UNCHANGED <<tokenVars, userVars, tabVars, lost>>

\* Variant: the answer to a logout leaves the cookie alone.
CookieAfter_Kept(c) ==
    CASE call[c].pc = "issued"  -> call[c].new
      [] call[c].pc = "reused"  -> NoToken
      [] OTHER                  -> cookie

\* Set-Cookie of an answer.
CookieAfter(c) ==
    CASE call[c].pc = "issued"               -> call[c].new
      [] call[c].pc \in {"reused", "ended"}  -> NoToken
      [] OTHER                               -> cookie

\* The answer arrives, whatever else arrived in the meantime.  Google's callback
\* sets the cookie only, and a failed sign-in leaves the tab as it was.
Answer(c) ==
    /\ call[c].pc \in {"issued", "refused", "reused", "ended"}
    /\ cookie' = CookieAfter(c)
    /\ \/ access' = [access EXCEPT ![c[1]] = IF call[c].pc = "issued" THEN "valid" ELSE "none"]
       \/ c \in SignIns /\ UNCHANGED access
    /\ call' = [call EXCEPT ![c] = Idle]
    /\ UNCHANGED <<tokenVars, userVars, lost>>

\* The answer is lost, times out or finds its page gone; or the process stops
\* before it is sent.  The tab treats all of it as logged out.
LoseAnswer(c) ==
    /\ call[c] # Idle
    /\ lost < MaxLost
    /\ lost' = lost + 1
    /\ access' = [access EXCEPT ![c[1]] = "none"]
    /\ call' = [call EXCEPT ![c] = Idle]
    /\ UNCHANGED <<tokenVars, userVars, cookie>>

-----------------------------------------------------------------------------
(* TokenService. *)

\* rotateRefresh finds the token and, with it, the user as it is now.
Find(c) ==
    LET t == call[c].token IN
    /\ c \in Refreshes
    /\ call[c].pc = "sent"
    /\ IF t = NoToken \/ t \in expired
       THEN Becomes(c, "refused")
       ELSE call' = [call EXCEPT ![c].pc = "claiming", ![c].sawActive = active]
    /\ UNCHANGED <<tokenVars, userVars, tabVars, lost>>

\* Variant: the claim does not ask for a token that is not revoked.
Claim_Unconditional(c) ==
    LET t == call[c].token IN
    /\ call[c].pc = "claiming"
    /\ row' = [row EXCEPT ![t] = "revoked"]
    /\ Becomes(c, IF call[c].sawActive THEN "issuing" ELSE "refused")
    /\ UNCHANGED <<family, expired, flagged, userVars, tabVars, lost>>

\* Variant: a deactivated user is not turned away.
Claim_NoActiveCheck(c) ==
    LET t == call[c].token IN
    /\ call[c].pc = "claiming"
    /\ IF row[t] = "live"
       THEN /\ row' = [row EXCEPT ![t] = "revoked"]
            /\ Becomes(c, "issuing")
            /\ UNCHANGED flagged
       ELSE /\ flagged' = flagged \union {family[t]}
            /\ Becomes(c, "revoking")
            /\ UNCHANGED row
    /\ UNCHANGED <<family, expired, userVars, tabVars, lost>>

\* The conditional update: one caller gets the token, every other one takes it
\* for stolen.  Only then is the user looked at, as it was read before.
Claim(c) ==
    LET t == call[c].token IN
    /\ call[c].pc = "claiming"
    /\ IF row[t] = "live"
       THEN /\ row' = [row EXCEPT ![t] = "revoked"]
            /\ Becomes(c, IF call[c].sawActive THEN "issuing" ELSE "refused")
            /\ UNCHANGED flagged
       ELSE /\ flagged' = flagged \union {family[t]}
            /\ Becomes(c, "revoking")
            /\ UNCHANGED row
    /\ UNCHANGED <<family, expired, userVars, tabVars, lost>>

\* revokeFamilyTokens: those there are by now.
RevokeFamily(c) ==
    /\ call[c].pc = "revoking"
    /\ row' = [t \in Tokens |-> IF t \in FamilyLive(family[call[c].token])
                               THEN "revoked" ELSE row[t]]
    /\ Becomes(c, "reused")
    /\ UNCHANGED <<family, expired, flagged, userVars, tabVars, lost>>

\* issueRefreshToken: in the family of the claimed token, or in one of its own.
Issue(c) ==
    /\ call[c].pc = "issuing"
    /\ \E t \in Tokens :
          /\ row[t] = "none"
          /\ row' = [row EXCEPT ![t] = "live"]
          /\ family' = [family EXCEPT ![t] =
                IF call[c].token = NoToken THEN t ELSE family[call[c].token]]
          /\ call' = [call EXCEPT ![c].pc = "issued", ![c].new = t]
    /\ UNCHANGED <<expired, flagged, userVars, tabVars, lost>>

\* revokeRefresh, of whatever token the cookie held when the call was sent.
EndSession(c) ==
    LET t == call[c].token IN
    /\ c \in Logouts
    /\ call[c].pc = "sent"
    /\ IF t = NoToken
       THEN Becomes(c, "refused") /\ UNCHANGED row
       ELSE Becomes(c, "ended") /\ row' = [row EXCEPT ![t] = "revoked"]
    /\ UNCHANGED <<family, expired, flagged, userVars, tabVars, lost>>

\* A sign-in is under way ...
SendSignIn(c) ==
    /\ c \in SignIns
    /\ MayCall(c)
    /\ call' = [call EXCEPT ![c].pc = "sent"]
    /\ UNCHANGED <<tokenVars, userVars, tabVars, lost>>

\* ... and resolves an active account, createSession comes next; or fails.
SignedIn(c) ==
    /\ c \in SignIns
    /\ call[c].pc = "sent"
    /\ active
    /\ call' = [call EXCEPT ![c].pc = "issuing", ![c].sawActive = TRUE]
    /\ UNCHANGED <<tokenVars, userVars, tabVars, lost>>

SignInFails(c) ==
    /\ c \in SignIns
    /\ call[c].pc = "sent"
    /\ Becomes(c, "refused")
    /\ UNCHANGED <<tokenVars, userVars, tabVars, lost>>

\* updateUser of an admin: a deactivation revokes every token in its transaction.
UpdateUser ==
    /\ flips < MaxFlips
    /\ flips' = flips + 1
    /\ active' = ~ active
    /\ settled' = FALSE
    /\ row' = IF active
              THEN [t \in Tokens |-> IF row[t] = "live" THEN "revoked" ELSE row[t]]
              ELSE row
    /\ UNCHANGED <<family, expired, flagged, tabVars, call, lost>>

\* 15 minutes pass over a browser that is not talking to the server ...
AccessTokensExpire ==
    /\ Quiet
    /\ access' = [x \in Tabs |-> IF access[x] = "valid" THEN "stale" ELSE access[x]]
    /\ settled' = ~ active
    /\ UNCHANGED <<tokenVars, active, flips, cookie, call, lost>>

\* ... and 30 days.
RefreshTokensExpire ==
    /\ Quiet
    /\ expired' = {t \in Tokens : row[t] # "none"}
    /\ access' = [x \in Tabs |-> IF access[x] = "valid" THEN "stale" ELSE access[x]]
    /\ settled' = ~ active
    /\ UNCHANGED <<row, family, flagged, active, flips, cookie, call, lost>>

-----------------------------------------------------------------------------
\* Everything but what concerns a sign-in before its session, which module SignIn
\* refines.
SessionStep ==
    \/ \E x \in Tabs : Load(x) \/ Retry(x) \/ Logout(x)
    \/ \E c \in Calls : \/ Answer(c) \/ Find(c) \/ Claim(c) \/ RevokeFamily(c)
                       \/ Issue(c) \/ EndSession(c)
    \/ AccessTokensExpire \/ RefreshTokensExpire

Next ==
    \/ SessionStep
    \/ UpdateUser
    \/ \E c \in Calls : \/ LoseAnswer(c) \/ SendSignIn(c) \/ SignedIn(c) \/ SignInFails(c)

Spec == Init /\ [][Next]_sessionVars

-----------------------------------------------------------------------------
TypeOK ==
    /\ row \in [Tokens -> {"none", "live", "revoked"}]
    /\ family \in [Tokens -> Tokens \union {NoToken}]
    /\ expired \in SUBSET Tokens
    /\ active \in BOOLEAN
    /\ settled \in BOOLEAN
    /\ cookie \in Tokens \union {NoToken}
    /\ access \in [Tabs -> {"none", "valid", "stale"}]
    /\ call \in [Calls -> [pc : {"idle", "sent", "claiming", "revoking", "issuing",
                                "issued", "refused", "reused", "ended"},
                          token : Tokens \union {NoToken},
                          new : Tokens \union {NoToken},
                          sawActive : BOOLEAN]]
    /\ flagged \in SUBSET Tokens
    /\ flips \in 0 .. MaxFlips
    /\ lost \in 0 .. MaxLost

\* Calls about to insert the next token of family f.
Issuing(f) == {c \in Calls : /\ call[c].pc = "issuing"
                             /\ call[c].token # NoToken
                             /\ family[call[c].token] = f}

\* A family has one holder at a time, whichever tabs refresh at once: one live
\* token, or one call that claimed the last and has yet to insert the next.
OneHolderPerFamily ==
    \A f \in Tokens : /\ Cardinality(FamilyLive(f)) <= 1
                      /\ Cardinality(Issuing(f)) <= 1
                      /\ FamilyLive(f) = {} \/ Issuing(f) = {}

\* A deactivation takes effect within one lifetime of an access token
\* (auth_flow.md, section 4), even over a refresh that read the user before it
\* and inserted its token after it: that token opens nothing.
DeactivationTakesEffect ==
    settled => \A x \in Tabs : access[x] # "valid"

\* A browser at rest holds a cookie that works, or none; if not, two calls
\* competed for a token, an answer was lost, an admin intervened or a month passed.
CookieWorks ==
    Quiet => \/ cookie = NoToken
             \/ row[cookie] = "live"
             \/ flagged # {} \/ lost > 0 \/ flips > 0 \/ expired # {}
=============================================================================
