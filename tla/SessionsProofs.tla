--------------------------- MODULE SessionsProofs ---------------------------
(***************************************************************************)
(* For any number of tabs, tokens, calls and faults: a family of refresh   *)
(* tokens has one holder, a deactivation takes effect, and the cookie left *)
(* behind works.  For any number of links and forms: signing in keeps to   *)
(* the sessions, a link opens once, and mails are bounded.                 *)
(***************************************************************************)
EXTENDS SignIn, FiniteSetTheorems, TLAPS

CallPCs == {"idle", "sent", "claiming", "revoking", "issuing",
            "issued", "refused", "reused", "ended"}

CallRows == [pc : CallPCs, token : Tokens \union {NoToken},
             new : Tokens \union {NoToken}, sawActive : BOOLEAN]

\* A token that is presented was issued once.
Held(t) == t = NoToken \/ row[t] # "none"

\* What a call knows, by where it is.
CallTells(c, cr) ==
    /\ Held(cr.token) /\ Held(cr.new)
    /\ cr.pc \in {"claiming", "revoking"} => cr.token \in Tokens
    /\ c \in SignIns => cr.token = NoToken

TokensTell ==
    /\ \A t \in Tokens : row[t] # "none" => family[t] \in Tokens /\ row[family[t]] # "none"
    /\ Held(cookie)
    /\ \A c \in Calls : CallTells(c, call[c])

\* Call c is about to insert the next token of family f.
Issues(c, f) == call[c].pc = "issuing" /\ call[c].token # NoToken /\ family[call[c].token] = f

OneHolder ==
    \A f \in Tokens :
        /\ \A t, u \in FamilyLive(f) : t = u
        /\ \A c, d \in Calls : Issues(c, f) /\ Issues(d, f) => c = d
        /\ \A c \in Calls : Issues(c, f) => FamilyLive(f) = {}

\* Once the access tokens from before a deactivation are gone, no call can bring
\* another one.
Shut ==
    settled => /\ ~ active
               /\ \A x \in Tabs : access[x] # "valid"
               /\ \A c \in Calls : /\ call[c].pc \notin {"issuing", "issued"}
                                   /\ call[c].pc = "claiming" => ~ call[c].sawActive

SessionsInv == TypeOK /\ TokensTell /\ OneHolder /\ Shut

-----------------------------------------------------------------------------
LEMMA IdleIsRow == Idle \in CallRows /\ Idle.pc = "idle" /\ Idle.token = NoToken /\ Idle.new = NoToken
  BY DEF Idle, CallRows, CallPCs

LEMMA TypesOfSessions ==
  ASSUME TypeOK
  PROVE  /\ row \in [Tokens -> {"none", "live", "revoked"}]
         /\ family \in [Tokens -> Tokens \union {NoToken}]
         /\ cookie \in Tokens \union {NoToken}
         /\ call \in [Calls -> CallRows]
         /\ access \in [Tabs -> {"none", "valid", "stale"}]
  BY DEF TypeOK, CallRows, CallPCs

\* A call moves, the tokens stay: no family gets another holder unless the call
\* opens a family of its own.
LEMMA CallMoves ==
  ASSUME TypeOK, TokensTell, OneHolder, NEW c \in Calls, NEW cr \in CallRows,
         call' = [call EXCEPT ![c] = cr], CallTells(c, cr),
         cr.pc = "issuing" => cr.token = NoToken,
         UNCHANGED <<row, family>>, cookie' = cookie \/ cookie' = NoToken \/ cookie' = call[c].new
  PROVE  TokensTell' /\ OneHolder'
  <1>1. /\ call \in [Calls -> CallRows] /\ call'[c] = cr
        /\ \A d \in Calls : d # c => call'[d] = call[d]
    BY TypesOfSessions
  <1>2. Held(cookie)'
    BY DEF TokensTell, CallTells, Held
  <1>3. ASSUME NEW d \in Calls PROVE CallTells(d, call[d])'
    <2>1. CASE d = c
      BY <1>1, <2>1 DEF CallTells, Held
    <2>2. CASE d # c
      BY <1>1, <2>2 DEF CallTells, Held, TokensTell
    <2> QED
      BY <2>1, <2>2
  <1>4. TokensTell'
    BY <1>2, <1>3 DEF TokensTell
  <1>5. \A f \in Tokens : FamilyLive(f)' = FamilyLive(f)
    BY DEF FamilyLive
  <1>6. \A f \in Tokens, d \in Calls : Issues(d, f)' => Issues(d, f)
    BY <1>1 DEF Issues
  <1>7. OneHolder'
    BY <1>5, <1>6 DEF OneHolder
  <1> QED
    BY <1>4, <1>7

\* Revoking tokens takes holders away.
LEMMA TokensRevoked ==
  ASSUME TypeOK, TokensTell, OneHolder,
         row' \in [Tokens -> {"none", "live", "revoked"}],
         \A t \in Tokens : row'[t] = row[t] \/ (row[t] # "none" /\ row'[t] = "revoked"),
         UNCHANGED <<family, cookie>>,
         NEW c \in Calls, NEW cr \in CallRows, call' = [call EXCEPT ![c] = cr] \/ call' = call,
         CallTells(c, cr), cr.pc # "issuing"
  PROVE  TokensTell' /\ OneHolder'
  <1>1. /\ call \in [Calls -> CallRows]
        /\ \A d \in Calls : call'[d] = call[d] \/ (d = c /\ call'[d] = cr)
    BY TypesOfSessions
  <1>2. \A t \in Tokens : row[t] # "none" => row'[t] # "none"
    OBVIOUS
  <1>3. ASSUME NEW t \in Tokens \union {NoToken}, Held(t) PROVE Held(t)'
    BY <1>2, <1>3 DEF Held
  <1>4. Held(cookie)'
    BY <1>3, TypesOfSessions DEF TokensTell, Held
  <1>5. ASSUME NEW d \in Calls PROVE CallTells(d, call[d])'
    <2>1. PICK er \in CallRows : er = call'[d] /\ CallTells(d, er)
      BY <1>1 DEF TokensTell
    <2>2. Held(er.token)' /\ Held(er.new)'
      BY <1>3, <2>1 DEF CallTells, CallRows
    <2> QED
      BY <2>1, <2>2 DEF CallTells, Held
  <1>6. TokensTell'
    <2>1. ASSUME NEW t \in Tokens, row'[t] # "none"
          PROVE  family'[t] \in Tokens /\ row'[family'[t]] # "none"
      BY <1>2, <2>1 DEF TokensTell
    <2> QED
      BY <1>4, <1>5, <2>1 DEF TokensTell
  <1>7. \A f \in Tokens : FamilyLive(f)' \subseteq FamilyLive(f)
    BY DEF FamilyLive
  <1>8. \A f \in Tokens, d \in Calls : Issues(d, f)' => Issues(d, f)
    BY <1>1 DEF Issues
  <1>9. OneHolder'
    BY <1>7, <1>8 DEF OneHolder
  <1> QED
    BY <1>6, <1>9

-----------------------------------------------------------------------------
(* The two steps that hand a family over. *)

\* The claim: the live token of a family gives way to the call that took it.
LEMMA ClaimHandsOver ==
  ASSUME TypeOK, TokensTell, OneHolder, NEW c \in Calls, Claim(c)
  PROVE  TokensTell' /\ OneHolder'
  <1>1. PICK t \in Tokens : t = call[c].token
    BY DEF Claim, TokensTell, CallTells
  <1>2. /\ row \in [Tokens -> {"none", "live", "revoked"}] /\ call \in [Calls -> CallRows]
        /\ CallTells(c, call[c]) /\ call[c] \in CallRows
    BY TypesOfSessions DEF TokensTell
  <1>3. /\ UNCHANGED <<family, cookie>>
        /\ \/ row[t] = "live" /\ row' = [row EXCEPT ![t] = "revoked"] /\ Becomes(c, "issuing")
           \/ row[t] = "live" /\ row' = [row EXCEPT ![t] = "revoked"] /\ Becomes(c, "refused")
           \/ row' = row /\ Becomes(c, "revoking")
    BY <1>1 DEF Claim, tabVars
  <1>4. CASE Becomes(c, "refused") \/ Becomes(c, "revoking")
    <2>1. PICK cr : /\ cr \in {[call[c] EXCEPT !.pc = pc] : pc \in {"refused", "revoking"}}
                    /\ call' = [call EXCEPT ![c] = cr]
      BY <1>4 DEF Becomes
    <2>2. /\ cr \in CallRows /\ cr.pc \in {"refused", "revoking"}
          /\ cr.token = t /\ cr.new = call[c].new
      BY <1>1, <1>2, <2>1 DEF CallRows, CallPCs
    <2>3. CallTells(c, cr)
      BY <1>1, <1>2, <2>2 DEF CallTells
    <2>4. /\ row' \in [Tokens -> {"none", "live", "revoked"}]
          /\ \A u \in Tokens : row'[u] = row[u] \/ (row[u] # "none" /\ row'[u] = "revoked")
      BY <1>2, <1>3
    <2> QED
      BY <1>3, <2>1, <2>2, <2>3, <2>4, TokensRevoked
  <1>5. CASE row[t] = "live" /\ row' = [row EXCEPT ![t] = "revoked"] /\ Becomes(c, "issuing")
    <2>1. /\ row'[t] = "revoked" /\ \A u \in Tokens : u # t => row'[u] = row[u]
          /\ row' \in [Tokens -> {"none", "live", "revoked"}]
      BY <1>2, <1>5
    <2>2. /\ call'[c] = [call[c] EXCEPT !.pc = "issuing"]
          /\ \A d \in Calls : d # c => call'[d] = call[d]
      BY <1>2, <1>5 DEF Becomes
    <2>3. call'[c].pc = "issuing" /\ call'[c].token = t /\ call'[c].new = call[c].new
      BY <1>1, <1>2, <2>2 DEF CallRows
    <2>4. TokensTell'
      <3>1. \A u \in Tokens : row[u] # "none" => row'[u] # "none"
        BY <2>1
      <3>2. \A u \in Tokens : row'[u] # "none" => row[u] # "none"
        BY <1>5, <2>1
      <3>3. ASSUME NEW u \in Tokens \union {NoToken}, Held(u) PROVE Held(u)'
        BY <3>1, <3>3 DEF Held
      <3>4. Held(cookie)'
        BY <1>3, <3>3, TypesOfSessions DEF TokensTell, Held
      <3>5. ASSUME NEW d \in Calls PROVE CallTells(d, call[d])'
        <4>1. /\ call'[d].token = call[d].token /\ call'[d].new = call[d].new
              /\ call'[d].pc = "issuing" \/ call'[d].pc = call[d].pc
          BY <1>1, <2>2, <2>3
        <4>2. CallTells(d, call[d]) /\ call[d] \in CallRows
          BY <1>2 DEF TokensTell
        <4>3. PICK tok, new \in Tokens \union {NoToken} : tok = call[d].token /\ new = call[d].new
          BY <4>2 DEF CallRows
        <4>4. Held(tok)' /\ Held(new)'
          BY <3>3, <4>2, <4>3 DEF CallTells
        <4> QED
          BY <4>1, <4>2, <4>3, <4>4 DEF CallTells, Held
      <3>6. ASSUME NEW u \in Tokens, row'[u] # "none"
            PROVE  family'[u] \in Tokens /\ row'[family'[u]] # "none"
        BY <1>3, <3>1, <3>2, <3>6 DEF TokensTell
      <3> QED
        BY <3>4, <3>5, <3>6 DEF TokensTell
    <2>5. ASSUME NEW f \in Tokens
          PROVE  /\ \A u, v \in FamilyLive(f)' : u = v
                 /\ \A d, e \in Calls : Issues(d, f)' /\ Issues(e, f)' => d = e
                 /\ \A d \in Calls : Issues(d, f)' => FamilyLive(f)' = {}
      <3>1. /\ \A u, v \in FamilyLive(f) : u = v
            /\ \A d, e \in Calls : Issues(d, f) /\ Issues(e, f) => d = e
            /\ \A d \in Calls : Issues(d, f) => FamilyLive(f) = {}
        BY DEF OneHolder
      <3>2. FamilyLive(f)' = FamilyLive(f) \ {t}
        BY <1>3, <2>1 DEF FamilyLive
      <3>3. \A d \in Calls : d # c => (Issues(d, f)' <=> Issues(d, f))
        BY <1>3, <2>2 DEF Issues
      <3>4. Issues(c, f)' <=> family[t] = f
        BY <1>3, <2>3, SessionsAssumption DEF Issues
      <3>5. family[t] = f => t \in FamilyLive(f)
        BY <1>5 DEF FamilyLive
      <3> QED
        BY <3>1, <3>2, <3>3, <3>4, <3>5
    <2> QED
      BY <2>4, <2>5 DEF OneHolder
  <1> QED
    BY <1>3, <1>4, <1>5

\* The insert: the call that claimed gives way to the next token of the family.
LEMMA IssueHandsOver ==
  ASSUME TypeOK, TokensTell, OneHolder, NEW c \in Calls, Issue(c)
  PROVE  TokensTell' /\ OneHolder'
  <1>0. /\ row \in [Tokens -> {"none", "live", "revoked"}] /\ call \in [Calls -> CallRows]
        /\ family \in [Tokens -> Tokens \union {NoToken}]
        /\ CallTells(c, call[c]) /\ call[c] \in CallRows
    BY TypesOfSessions DEF TokensTell
  <1>1. PICK t \in Tokens :
           /\ row[t] = "none"
           /\ row' = [row EXCEPT ![t] = "live"]
           /\ family' = [family EXCEPT ![t] =
                 IF call[c].token = NoToken THEN t ELSE family[call[c].token]]
           /\ call' = [call EXCEPT ![c].pc = "issued", ![c].new = t]
    BY DEF Issue
  <1>2. PICK g : g = (IF call[c].token = NoToken THEN t ELSE family[call[c].token])
    OBVIOUS
  <1>3. /\ call[c].pc = "issuing" /\ cookie' = cookie
    BY DEF Issue, tabVars
  <1>4. /\ g \in Tokens /\ (g = t \/ row[g] # "none")
        /\ call[c].token # NoToken => /\ call[c].token \in Tokens /\ Issues(c, g) /\ g # t
                                      /\ row[g] # "none"
    BY <1>0, <1>1, <1>2, <1>3 DEF CallTells, CallRows, Held, TokensTell, Issues
  <1>5. /\ row'[t] = "live" /\ family'[t] = g
        /\ \A u \in Tokens : u # t => row'[u] = row[u] /\ family'[u] = family[u]
    BY <1>0, <1>1, <1>2
  <1>6. /\ call'[c].pc = "issued" /\ call'[c].new = t /\ call'[c].token = call[c].token
        /\ \A d \in Calls : d # c => call'[d] = call[d]
    BY <1>0, <1>1 DEF CallRows
  <1>7. TokensTell'
    <2>1. \A u \in Tokens : row[u] # "none" => row'[u] # "none"
      BY <1>5
    <2>2. ASSUME NEW u \in Tokens \union {NoToken}, Held(u) PROVE Held(u)'
      BY <2>1, <2>2 DEF Held
    <2>3. Held(cookie)'
      BY <1>3, <2>2, TypesOfSessions DEF TokensTell, Held
    <2>4. ASSUME NEW d \in Calls PROVE CallTells(d, call[d])'
      <3>1. CallTells(d, call[d]) /\ call[d] \in CallRows
        BY <1>0 DEF TokensTell
      <3>2. PICK tok, new \in Tokens \union {NoToken} : tok = call[d].token /\ new = call'[d].new
        BY <1>6, <3>1 DEF CallRows
      <3>3. Held(tok)' /\ Held(new)'
        BY <1>5, <1>6, <2>2, <3>1, <3>2 DEF CallTells, Held
      <3>4. /\ call'[d].token = tok
            /\ call'[d].pc = "issued" \/ call'[d].pc = call[d].pc
        BY <1>6, <3>2
      <3> QED
        BY <3>1, <3>2, <3>3, <3>4 DEF CallTells, Held
    <2>5. ASSUME NEW u \in Tokens, row'[u] # "none"
          PROVE  family'[u] \in Tokens /\ row'[family'[u]] # "none"
      <3>1. CASE u = t
        <4>1. family'[u] = g /\ (g = t \/ row'[g] # "none")
          BY <1>4, <1>5, <2>1, <3>1
        <4> QED
          BY <1>4, <1>5, <4>1
      <3>2. CASE u # t
        BY <1>5, <2>1, <2>5, <3>2 DEF TokensTell
      <3> QED
        BY <3>1, <3>2
    <2> QED
      BY <2>3, <2>4, <2>5 DEF TokensTell
  <1>8. ASSUME NEW f \in Tokens
        PROVE  /\ \A u, v \in FamilyLive(f)' : u = v
               /\ \A d, e \in Calls : Issues(d, f)' /\ Issues(e, f)' => d = e
               /\ \A d \in Calls : Issues(d, f)' => FamilyLive(f)' = {}
    <2>1. /\ \A u, v \in FamilyLive(f) : u = v
          /\ \A d, e \in Calls : Issues(d, f) /\ Issues(e, f) => d = e
          /\ \A d \in Calls : Issues(d, f) => FamilyLive(f) = {}
      BY DEF OneHolder
    <2>2. FamilyLive(f)' = FamilyLive(f) \union (IF g = f THEN {t} ELSE {})
      BY <1>1, <1>5 DEF FamilyLive
    <2>3. ASSUME NEW d \in Calls, Issues(d, f)' PROVE d # c /\ Issues(d, f)
      <3>1. d # c /\ call'[d] = call[d]
        BY <1>6, <2>3 DEF Issues
      <3>2. call[d].token \in Tokens /\ row[call[d].token] # "none"
        BY <1>0, <2>3, <3>1 DEF Issues, CallRows, TokensTell, CallTells, Held
      <3>3. family'[call[d].token] = family[call[d].token]
        BY <1>1, <1>5, <3>2
      <3> QED
        BY <2>3, <3>1, <3>3 DEF Issues
    <2>4. CASE g # f
      BY <2>1, <2>2, <2>3, <2>4
    <2>5. CASE g = f /\ call[c].token # NoToken
      BY <1>4, <2>1, <2>2, <2>3, <2>5
    <2>6. CASE g = f /\ call[c].token = NoToken
      <3>1. f = t /\ row[t] = "none"
        BY <1>1, <1>2, <2>6
      <3>2. FamilyLive(f) = {}
        BY <3>1 DEF FamilyLive, TokensTell
      <3>3. \A d \in Calls : ~ Issues(d, f)
        BY <1>0, <3>1 DEF Issues, CallRows, TokensTell, CallTells, Held
      <3> QED
        BY <2>2, <2>3, <3>2, <3>3
    <2> QED
      BY <2>4, <2>5, <2>6
  <1> QED
    BY <1>7, <1>8 DEF OneHolder

-----------------------------------------------------------------------------
(* Every step. *)

LEMMA CallsAre ==
  /\ \A x \in Tabs : "mount" \in Kinds => <<x, "mount">> \in Refreshes
  /\ \A x \in Tabs : "retry" \in Kinds => <<x, "retry">> \in Refreshes
  /\ \A x \in Tabs : "logout" \in Kinds => <<x, "logout">> \in Logouts
  /\ Refreshes \union Logouts \union SignIns = Calls
  /\ (Refreshes \union Logouts) \intersect SignIns = {}
  /\ \A c \in Calls : c[1] \in Tabs
  BY SessionsAssumption DEF Refreshes, Logouts, SignIns, Calls

\* What the steps that leave the tokens alone do to a call.
Moves(c, cr) ==
    /\ call' = [call EXCEPT ![c] = cr]
    /\ UNCHANGED <<row, family>>
    /\ cookie' = cookie \/ cookie' = NoToken \/ cookie' = call[c].new

LEMMA SendMoves ==
  ASSUME TypeOK, TokensTell, NEW c \in Refreshes \union Logouts, Send(c), UNCHANGED <<tokenVars, cookie>>
  PROVE  \E cr \in CallRows : Moves(c, cr) /\ CallTells(c, cr) /\ cr.pc = "sent"
  <1>1. PICK cr : cr = [Idle EXCEPT !.pc = "sent", !.token = cookie]
    OBVIOUS
  <1>2. /\ cr \in CallRows /\ cr.pc = "sent" /\ cr.token = cookie /\ cr.new = NoToken
    BY <1>1, TypesOfSessions DEF Idle, CallRows, CallPCs
  <1>3. CallTells(c, cr)
    BY <1>2, CallsAre DEF CallTells, TokensTell, Held
  <1>4. Moves(c, cr)
    BY <1>1 DEF Moves, Send, tokenVars
  <1> QED
    BY <1>2, <1>3, <1>4

LEMMA IdleMoves ==
  ASSUME NEW c \in Calls, call' = [call EXCEPT ![c] = Idle], UNCHANGED tokenVars,
         cookie' = cookie \/ cookie' = NoToken \/ cookie' = call[c].new
  PROVE  \E cr \in CallRows : Moves(c, cr) /\ CallTells(c, cr) /\ cr.pc = "idle"
  BY IdleIsRow DEF Moves, CallTells, Held, tokenVars

LEMMA BecomesMoves ==
  ASSUME TypeOK, TokensTell, NEW c \in Calls, NEW pc \in CallPCs, Becomes(c, pc),
         UNCHANGED <<tokenVars, cookie>>, pc \notin {"claiming", "revoking"}
  PROVE  \E cr \in CallRows : Moves(c, cr) /\ CallTells(c, cr) /\ cr.pc = pc
  <1>0. call[c] \in CallRows /\ CallTells(c, call[c])
    BY TypesOfSessions DEF TokensTell
  <1>1. PICK cr : cr = [call[c] EXCEPT !.pc = pc]
    OBVIOUS
  <1>2. /\ cr \in CallRows /\ cr.pc = pc /\ cr.token = call[c].token /\ cr.new = call[c].new
    BY <1>0, <1>1 DEF CallRows
  <1>3. Moves(c, cr) /\ CallTells(c, cr)
    BY <1>0, <1>1, <1>2 DEF Moves, Becomes, CallTells, tokenVars
  <1> QED
    BY <1>2, <1>3

\* A call that looked at the user remembers what it saw.
LEMMA LookMoves ==
  ASSUME TypeOK, TokensTell, NEW c \in Calls, NEW pc \in CallPCs, NEW saw, saw \in BOOLEAN,
         call' = [call EXCEPT ![c].pc = pc, ![c].sawActive = saw],
         UNCHANGED <<tokenVars, cookie>>,
         pc \in {"claiming", "revoking"} => call[c].token \in Tokens
  PROVE  \E cr \in CallRows : /\ Moves(c, cr) /\ CallTells(c, cr)
                              /\ cr.pc = pc /\ cr.token = call[c].token /\ cr.sawActive = saw
  <1>0. call[c] \in CallRows /\ CallTells(c, call[c])
    BY TypesOfSessions DEF TokensTell
  <1>1. PICK cr : cr = [call[c] EXCEPT !.pc = pc, !.sawActive = saw]
    OBVIOUS
  <1>2. /\ cr \in CallRows /\ cr.pc = pc /\ cr.token = call[c].token /\ cr.new = call[c].new
        /\ cr.sawActive = saw
    BY <1>0, <1>1 DEF CallRows
  <1>3. call' = [call EXCEPT ![c] = cr]
    BY <1>0, <1>1 DEF CallRows
  <1>4. Moves(c, cr) /\ CallTells(c, cr)
    BY <1>0, <1>2, <1>3 DEF Moves, CallTells, tokenVars
  <1> QED
    BY <1>2, <1>4

\* One of the steps above ...
CallStep(c, cr) ==
    /\ Moves(c, cr) /\ CallTells(c, cr)
    /\ cr.pc = "issuing" => cr.token = NoToken /\ active
    /\ cr.pc # "issued"
    /\ cr.pc = "claiming" => cr.sawActive = active

LEMMA StepOfCalls ==
  ASSUME TypeOK, TokensTell,
         \/ \E x \in Tabs : Load(x) \/ Retry(x) \/ Logout(x)
         \/ \E c \in Calls : \/ Answer(c) \/ LoseAnswer(c) \/ Find(c)
                             \/ SendSignIn(c) \/ SignedIn(c) \/ SignInFails(c)
  PROVE  \E c \in Calls, cr \in CallRows : CallStep(c, cr)
  <1> DEFINE Goal == \E c \in Calls, cr \in CallRows : CallStep(c, cr)
  <1>1. ASSUME NEW x \in Tabs, Load(x) \/ Retry(x) \/ Logout(x) PROVE Goal
    <2>1. \E c \in Refreshes \union Logouts : Send(c) /\ UNCHANGED <<tokenVars, cookie>>
      BY <1>1, CallsAre DEF Load, Retry, Logout, tabVars
    <2> QED
      BY <2>1, SendMoves, CallsAre DEF CallStep
  <1>2. ASSUME NEW c \in Calls, Answer(c) \/ LoseAnswer(c) PROVE Goal
    <2>1. /\ call' = [call EXCEPT ![c] = Idle] /\ UNCHANGED tokenVars
          /\ cookie' = cookie \/ cookie' = NoToken \/ cookie' = call[c].new
      BY <1>2 DEF Answer, LoseAnswer, CookieAfter
    <2> QED
      BY <2>1, IdleMoves DEF CallStep
  <1>3. ASSUME NEW c \in Calls, Find(c) PROVE Goal
    <2>1. call[c] \in CallRows /\ active \in BOOLEAN
      BY TypesOfSessions DEF TypeOK
    <2>2. UNCHANGED <<tokenVars, cookie>>
      BY <1>3 DEF Find, tabVars
    <2>3. CASE Becomes(c, "refused")
      <3>1. "refused" \in CallPCs
        BY DEF CallPCs
      <3>2. \E cr \in CallRows : Moves(c, cr) /\ CallTells(c, cr) /\ cr.pc = "refused"
        BY <2>2, <2>3, <3>1, BecomesMoves
      <3> QED
        BY <3>2 DEF CallStep
    <2>4. CASE /\ call' = [call EXCEPT ![c].pc = "claiming", ![c].sawActive = active]
               /\ call[c].token # NoToken
      <3>1. "claiming" \in CallPCs /\ call[c].token \in Tokens
        BY <2>1, <2>4 DEF CallPCs, CallRows
      <3>2. PICK saw : saw = active
        OBVIOUS
      <3>3. /\ saw \in BOOLEAN
            /\ call' = [call EXCEPT ![c].pc = "claiming", ![c].sawActive = saw]
        BY <2>1, <2>4, <3>2, Zenon
      <3>4. PICK cr : cr = [call[c] EXCEPT !.pc = "claiming", !.sawActive = saw]
        OBVIOUS
      <3>5. /\ cr \in CallRows /\ cr.pc = "claiming" /\ cr.sawActive = saw
            /\ cr.token = call[c].token /\ cr.new = call[c].new
        BY <2>1, <3>1, <3>3, <3>4 DEF CallRows
      <3>6. call' = [call EXCEPT ![c] = cr]
        BY <2>1, <3>3, <3>4 DEF CallRows
      <3>7. CallTells(c, cr)
        BY <3>1, <3>5 DEF CallTells, TokensTell
      <3>8. CallStep(c, cr)
        BY <2>2, <3>2, <3>5, <3>6, <3>7 DEF CallStep, Moves, tokenVars
      <3> QED
        BY <3>5, <3>8
    <2> QED
      BY <1>3, <2>3, <2>4 DEF Find
  <1>4. ASSUME NEW c \in Calls, SendSignIn(c) \/ SignInFails(c) PROVE Goal
    <2>1. \E pc \in {"sent", "refused"} : Becomes(c, pc) /\ UNCHANGED <<tokenVars, cookie>>
      BY <1>4 DEF SendSignIn, SignInFails, Becomes, tabVars
    <2>2. {"sent", "refused"} \subseteq CallPCs
      BY DEF CallPCs
    <2>3. \E cr \in CallRows : Moves(c, cr) /\ CallTells(c, cr) /\ cr.pc \in {"sent", "refused"}
      BY <2>1, <2>2, BecomesMoves
    <2> QED
      BY <2>3 DEF CallStep
  <1>5. ASSUME NEW c \in Calls, SignedIn(c) PROVE Goal
    <2>1. /\ call' = [call EXCEPT ![c].pc = "issuing", ![c].sawActive = TRUE]
          /\ UNCHANGED <<tokenVars, cookie>> /\ active
          /\ call[c].token = NoToken
      BY <1>5 DEF SignedIn, tabVars, TokensTell, CallTells
    <2>2. "issuing" \in CallPCs
      BY DEF CallPCs
    <2>3. TRUE \in BOOLEAN /\ "issuing" \notin {"claiming", "revoking"}
      OBVIOUS
    <2>4. TypeOK /\ TokensTell /\ c \in Calls
      BY <1>5
    <2>5. \E cr \in CallRows : /\ Moves(c, cr) /\ CallTells(c, cr)
                               /\ cr.pc = "issuing" /\ cr.token = call[c].token /\ cr.sawActive = TRUE
      BY ONLY <2>1, <2>2, <2>3, <2>4, LookMoves
    <2>6. PICK cr \in CallRows : /\ Moves(c, cr) /\ CallTells(c, cr)
                                 /\ cr.pc = "issuing" /\ cr.token = call[c].token
      BY <2>5
    <2>7. CallStep(c, cr)
      BY <2>1, <2>6 DEF CallStep
    <2> QED
      BY <2>7
  <1> QED
    BY <1>1, <1>2, <1>3, <1>4, <1>5

\* ... or one that revokes or hands over.
LEMMA HoldersKept ==
  ASSUME TypeOK, TokensTell, OneHolder, Next
  PROVE  TokensTell' /\ OneHolder'
  <1> DEFINE Goal == TokensTell' /\ OneHolder'
  <1>0. /\ row \in [Tokens -> {"none", "live", "revoked"}] /\ call \in [Calls -> CallRows]
        /\ \A c \in Calls : CallTells(c, call[c])
    BY TypesOfSessions DEF TokensTell
  <1>1. ASSUME NEW c \in Calls, NEW cr \in CallRows, CallStep(c, cr) PROVE Goal
    BY <1>1, CallMoves DEF CallStep, Moves
  <1>2. ASSUME NEW c \in Calls, NEW pc \in {"reused", "refused", "ended"}, Becomes(c, pc),
               row' \in [Tokens -> {"none", "live", "revoked"}],
               \A t \in Tokens : row'[t] = row[t] \/ (row[t] # "none" /\ row'[t] = "revoked"),
               UNCHANGED <<family, cookie>>
        PROVE  Goal
    <2>1. PICK cr : cr = [call[c] EXCEPT !.pc = pc]
      OBVIOUS
    <2>2. /\ cr \in CallRows /\ cr.pc = pc /\ cr.token = call[c].token /\ cr.new = call[c].new
      BY <1>0, <2>1 DEF CallRows, CallPCs
    <2>3. CallTells(c, cr) /\ call' = [call EXCEPT ![c] = cr]
      BY <1>0, <1>2, <2>1, <2>2 DEF CallTells, Becomes
    <2> QED
      BY <1>2, <2>2, <2>3, TokensRevoked
  <1>3. ASSUME NEW c \in Calls, RevokeFamily(c) PROVE Goal
    <2>1. /\ row' = [t \in Tokens |-> IF t \in FamilyLive(family[call[c].token])
                                      THEN "revoked" ELSE row[t]]
          /\ Becomes(c, "reused") /\ UNCHANGED <<family, cookie>>
      BY <1>3 DEF RevokeFamily, tabVars
    <2>2. \A t \in FamilyLive(family[call[c].token]) : row[t] # "none"
      BY DEF FamilyLive
    <2> QED
      BY <1>0, <1>2, <2>1, <2>2
  <1>4. ASSUME NEW c \in Calls, EndSession(c) PROVE Goal
    <2>1. UNCHANGED <<family, cookie>>
      BY <1>4 DEF EndSession, tabVars
    <2>2. CASE Becomes(c, "refused") /\ row' = row
      BY <1>0, <1>2, <2>1, <2>2
    <2>3. CASE /\ call[c].token # NoToken /\ Becomes(c, "ended")
               /\ row' = [row EXCEPT ![call[c].token] = "revoked"]
      <3>1. call[c].token \in Tokens /\ row[call[c].token] # "none"
        BY <1>0, <2>3 DEF CallTells, Held, CallRows
      <3>2. /\ row' \in [Tokens -> {"none", "live", "revoked"}]
            /\ \A t \in Tokens : row'[t] = row[t] \/ (row[t] # "none" /\ row'[t] = "revoked")
        BY <1>0, <2>3, <3>1
      <3> QED
        BY <1>2, <2>1, <2>3, <3>2
    <2> QED
      BY <1>4, <2>2, <2>3 DEF EndSession
  <1>5. CASE UpdateUser /\ \E c \in Calls : TRUE
    <2>1. PICK c \in Calls : TRUE
      BY <1>5
    <2>2. /\ row' = row \/ row' = [t \in Tokens |-> IF row[t] = "live" THEN "revoked" ELSE row[t]]
          /\ UNCHANGED <<family, cookie>> /\ call' = call
      BY <1>5 DEF UpdateUser, tabVars
    <2>3. /\ row' \in [Tokens -> {"none", "live", "revoked"}]
          /\ \A t \in Tokens : row'[t] = row[t] \/ (row[t] # "none" /\ row'[t] = "revoked")
      BY <1>0, <2>2
    <2>4. Idle \in CallRows /\ Idle.pc # "issuing" /\ CallTells(c, Idle)
      BY IdleIsRow DEF CallTells, Held
    <2> QED
      BY <2>2, <2>3, <2>4, TokensRevoked
  <1>6. CASE UpdateUser /\ ~ \E c \in Calls : TRUE
    <2>1. /\ row' = row \/ row' = [t \in Tokens |-> IF row[t] = "live" THEN "revoked" ELSE row[t]]
          /\ UNCHANGED <<family, cookie>> /\ call' = call
      BY <1>6 DEF UpdateUser, tabVars
    <2>2. \A t \in Tokens : row'[t] = "none" <=> row[t] = "none"
      BY <1>0, <2>1
    <2>3. \A t \in Tokens : row'[t] = "live" => row[t] = "live"
      BY <1>0, <2>1
    <2>4. TokensTell'
      BY <1>6, <2>1, <2>2, TypesOfSessions DEF TokensTell, Held
    <2>5. \A f \in Tokens : FamilyLive(f)' \subseteq FamilyLive(f)
      BY <2>1, <2>3 DEF FamilyLive
    <2>6. OneHolder'
      BY <1>6, <2>5 DEF OneHolder
    <2> QED
      BY <2>4, <2>6
  <1>7. CASE AccessTokensExpire \/ RefreshTokensExpire
    <2>1. UNCHANGED <<row, family, cookie, call>>
      BY <1>7 DEF AccessTokensExpire, RefreshTokensExpire, tokenVars
    <2> QED
      BY <2>1 DEF TokensTell, CallTells, Held, OneHolder, FamilyLive, Issues
  <1> QED
    BY <1>1, <1>3, <1>4, <1>5, <1>6, <1>7, StepOfCalls, ClaimHandsOver, IssueHandsOver
       DEF Next, SessionStep

-----------------------------------------------------------------------------
(* Types under every step. *)

RowStates == {"none", "live", "revoked"}

LEMMA CallTyped ==
  ASSUME TypeOK, TokensTell, Next
  PROVE  call' \in [Calls -> CallRows]
  <1>0. call \in [Calls -> CallRows]
    BY TypesOfSessions
  <1>1. ASSUME NEW c \in Calls, NEW cr \in CallRows, CallStep(c, cr) PROVE call' \in [Calls -> CallRows]
    BY <1>0, <1>1 DEF CallStep, Moves
  <1>2. ASSUME NEW c \in Calls, NEW pc \in CallPCs, Becomes(c, pc) PROVE call' \in [Calls -> CallRows]
    BY <1>0, <1>2 DEF Becomes, CallRows
  <1>3. {"issuing", "refused", "revoking", "reused", "ended"} \subseteq CallPCs
    BY DEF CallPCs
  <1>4. ASSUME NEW c \in Calls, Claim(c) \/ RevokeFamily(c) \/ EndSession(c)
        PROVE  call' \in [Calls -> CallRows]
    BY <1>2, <1>3, <1>4 DEF Claim, RevokeFamily, EndSession
  <1>5. ASSUME NEW c \in Calls, Issue(c) PROVE call' \in [Calls -> CallRows]
    <2>1. PICK t \in Tokens : call' = [call EXCEPT ![c].pc = "issued", ![c].new = t]
      BY <1>5 DEF Issue
    <2>2. PICK cr : cr = [call[c] EXCEPT !.pc = "issued", !.new = t]
      OBVIOUS
    <2>3. cr \in CallRows
      BY <1>0, <2>2 DEF CallRows, CallPCs
    <2>4. call' = [call EXCEPT ![c] = cr]
      BY <1>0, <2>1, <2>2 DEF CallRows
    <2> QED
      BY <1>0, <2>3, <2>4
  <1>6. CASE UpdateUser \/ AccessTokensExpire \/ RefreshTokensExpire
    BY <1>0, <1>6 DEF UpdateUser, AccessTokensExpire, RefreshTokensExpire
  <1> QED
    BY <1>1, <1>4, <1>5, <1>6, StepOfCalls DEF Next, SessionStep

LEMMA TokensTyped ==
  ASSUME TypeOK, TokensTell, Next
  PROVE  /\ row' \in [Tokens -> RowStates]
         /\ family' \in [Tokens -> Tokens \union {NoToken}]
         /\ expired' \in SUBSET Tokens
         /\ flagged' \in SUBSET Tokens
  <1> DEFINE Goal == /\ row' \in [Tokens -> RowStates]
                     /\ family' \in [Tokens -> Tokens \union {NoToken}]
                     /\ expired' \in SUBSET Tokens
                     /\ flagged' \in SUBSET Tokens
  <1>0. /\ row \in [Tokens -> RowStates] /\ family \in [Tokens -> Tokens \union {NoToken}]
        /\ expired \in SUBSET Tokens /\ flagged \in SUBSET Tokens
    BY DEF TypeOK, RowStates
  <1>1. ASSUME UNCHANGED tokenVars PROVE Goal
    BY <1>0, <1>1 DEF tokenVars
  <1>2. ASSUME NEW c \in Calls, NEW cr \in CallRows, CallStep(c, cr) PROVE UNCHANGED <<row, family>>
    BY <1>2 DEF CallStep, Moves
  <1>3. ASSUME NEW x \in Tabs, Load(x) \/ Retry(x) \/ Logout(x) PROVE Goal
    BY <1>1, <1>3 DEF Load, Retry, Logout
  <1>4. ASSUME NEW c \in Calls, \/ Answer(c) \/ LoseAnswer(c) \/ Find(c)
                                \/ SendSignIn(c) \/ SignedIn(c) \/ SignInFails(c)
        PROVE  Goal
    BY <1>1, <1>4 DEF Answer, LoseAnswer, Find, SendSignIn, SignedIn, SignInFails
  <1>5. ASSUME NEW c \in Calls, Claim(c) PROVE Goal
    <2>1. call[c].token \in Tokens /\ row[call[c].token] # "none"
      BY <1>5, SessionsAssumption DEF Claim, TokensTell, CallTells, Held
    <2>2. family[call[c].token] \in Tokens
      BY <2>1 DEF TokensTell
    <2>3. /\ UNCHANGED <<family, expired>>
          /\ row' = row \/ row' = [row EXCEPT ![call[c].token] = "revoked"]
          /\ flagged' = flagged \/ flagged' = flagged \union {family[call[c].token]}
      BY <1>5 DEF Claim
    <2> QED
      BY <1>0, <2>1, <2>2, <2>3 DEF RowStates
  <1>6. ASSUME NEW c \in Calls, RevokeFamily(c) PROVE Goal
    BY <1>0, <1>6 DEF RevokeFamily, RowStates
  <1>7. ASSUME NEW c \in Calls, EndSession(c) PROVE Goal
    BY <1>0, <1>7 DEF EndSession, RowStates
  <1>8. ASSUME NEW c \in Calls, Issue(c) PROVE Goal
    <2>1. PICK t \in Tokens :
             /\ row' = [row EXCEPT ![t] = "live"]
             /\ family' = [family EXCEPT ![t] =
                   IF call[c].token = NoToken THEN t ELSE family[call[c].token]]
      BY <1>8 DEF Issue
    <2>2. UNCHANGED <<expired, flagged>>
      BY <1>8 DEF Issue
    <2>3. call[c].token = NoToken \/ call[c].token \in Tokens
      BY TypesOfSessions DEF CallRows
    <2> QED
      BY <1>0, <2>1, <2>2, <2>3 DEF RowStates
  <1>9. CASE UpdateUser \/ AccessTokensExpire \/ RefreshTokensExpire
    BY <1>0, <1>9 DEF UpdateUser, AccessTokensExpire, RefreshTokensExpire, tokenVars, RowStates
  <1> QED
    BY <1>3, <1>4, <1>5, <1>6, <1>7, <1>8, <1>9 DEF Next, SessionStep

LEMMA BrowserTyped ==
  ASSUME TypeOK, TokensTell, Next
  PROVE  /\ active' \in BOOLEAN /\ settled' \in BOOLEAN
         /\ cookie' \in Tokens \union {NoToken}
         /\ access' \in [Tabs -> {"none", "valid", "stale"}]
         /\ flips' \in 0 .. MaxFlips /\ lost' \in 0 .. MaxLost
  <1> DEFINE Goal == /\ active' \in BOOLEAN /\ settled' \in BOOLEAN
                     /\ cookie' \in Tokens \union {NoToken}
                     /\ access' \in [Tabs -> {"none", "valid", "stale"}]
                     /\ flips' \in 0 .. MaxFlips /\ lost' \in 0 .. MaxLost
  <1>0. /\ active \in BOOLEAN /\ settled \in BOOLEAN /\ cookie \in Tokens \union {NoToken}
        /\ access \in [Tabs -> {"none", "valid", "stale"}]
        /\ flips \in 0 .. MaxFlips /\ lost \in 0 .. MaxLost
    BY DEF TypeOK
  <1>1. ASSUME UNCHANGED <<userVars, tabVars, lost>> PROVE Goal
    BY <1>0, <1>1 DEF userVars, tabVars
  <1>2. ASSUME NEW x \in Tabs, Load(x) \/ Retry(x) \/ Logout(x) PROVE Goal
    BY <1>0, <1>2 DEF Load, Retry, Logout, userVars, tabVars
  <1>3. ASSUME NEW c \in Calls, \/ Find(c) \/ SendSignIn(c) \/ SignedIn(c) \/ SignInFails(c)
                                \/ Claim(c) \/ RevokeFamily(c) \/ EndSession(c) \/ Issue(c)
        PROVE  Goal
    BY <1>1, <1>3 DEF Find, SendSignIn, SignedIn, SignInFails, Claim, RevokeFamily, EndSession, Issue
  <1>4. ASSUME NEW c \in Calls, Answer(c) PROVE Goal
    <2>1. call[c].new \in Tokens \union {NoToken}
      BY TypesOfSessions DEF CallRows
    <2>2. UNCHANGED <<userVars, lost>> /\ cookie' = CookieAfter(c)
      BY <1>4 DEF Answer
    <2>3. access' \in [Tabs -> {"none", "valid", "stale"}]
      BY <1>0, <1>4 DEF Answer
    <2> QED
      BY <1>0, <2>1, <2>2, <2>3 DEF CookieAfter, userVars
  <1>5. ASSUME NEW c \in Calls, LoseAnswer(c) PROVE Goal
    <2>1. lost < MaxLost /\ lost' = lost + 1
      BY <1>5 DEF LoseAnswer
    <2>2. lost' \in 0 .. MaxLost
      BY <1>0, <2>1, SessionsAssumption
    <2>3. UNCHANGED <<active, settled, flips, cookie>> /\ access' = [access EXCEPT ![c[1]] = "none"]
      BY <1>5 DEF LoseAnswer, userVars
    <2> QED
      BY <1>0, <2>2, <2>3
  <1>6. CASE UpdateUser
    <2>1. flips < MaxFlips /\ flips' = flips + 1
      BY <1>6 DEF UpdateUser
    <2>2. flips' \in 0 .. MaxFlips
      BY <1>0, <2>1, SessionsAssumption
    <2>3. active' \in BOOLEAN /\ settled' \in BOOLEAN /\ UNCHANGED <<cookie, access, lost>>
      BY <1>6 DEF UpdateUser, tabVars
    <2> QED
      BY <1>0, <2>2, <2>3
  <1>7. CASE AccessTokensExpire \/ RefreshTokensExpire
    <2>1. /\ UNCHANGED <<active, flips, cookie, lost>> /\ settled' = ~ active
          /\ access' = [x \in Tabs |-> IF access[x] = "valid" THEN "stale" ELSE access[x]]
      BY <1>7 DEF AccessTokensExpire, RefreshTokensExpire
    <2> QED
      BY <1>0, <2>1
  <1> QED
    BY <1>2, <1>3, <1>4, <1>5, <1>6, <1>7 DEF Next, SessionStep

LEMMA TypesKept ==
  ASSUME TypeOK, TokensTell, Next
  PROVE  TypeOK'
  BY CallTyped, TokensTyped, BrowserTyped DEF TypeOK, CallRows, CallPCs, RowStates

-----------------------------------------------------------------------------
(* After a deactivation. *)

LEMMA ShutKept ==
  ASSUME TypeOK, TokensTell, Shut, Next
  PROVE  Shut'
  <1>0. /\ call \in [Calls -> CallRows] /\ access \in [Tabs -> {"none", "valid", "stale"}]
        /\ settled \in BOOLEAN /\ active \in BOOLEAN
    BY TypesOfSessions DEF TypeOK
  <1>1. CASE UpdateUser
    BY <1>1 DEF UpdateUser, Shut
  <1>2. CASE AccessTokensExpire \/ RefreshTokensExpire
    <2>1. /\ \A c \in Calls : call[c].pc = "idle"
          /\ UNCHANGED <<active, call>> /\ settled' = ~ active
          /\ access' = [x \in Tabs |-> IF access[x] = "valid" THEN "stale" ELSE access[x]]
      BY <1>2 DEF AccessTokensExpire, RefreshTokensExpire, Quiet, Idle
    <2>2. \A x \in Tabs : access'[x] # "valid"
      BY <1>0, <2>1
    <2> QED
      BY <2>1, <2>2 DEF Shut
  <1>3. ASSUME UNCHANGED userVars, \A x \in Tabs : access'[x] = "valid" => access[x] = "valid" \/ ~ settled,
               NEW c \in Calls, \A d \in Calls : d # c => call'[d] = call[d],
               settled /\ ~ active => /\ call'[c].pc \notin {"issuing", "issued"}
                                      /\ call'[c].pc = "claiming" => ~ call'[c].sawActive
        PROVE  Shut'
    BY <1>3 DEF Shut, userVars
  <1>4. ASSUME NEW c \in Calls, NEW cr \in CallRows, CallStep(c, cr), UNCHANGED userVars,
               \A x \in Tabs : access'[x] = "valid" => access[x] = "valid" \/ ~ settled
        PROVE  Shut'
    <2>1. call'[c] = cr /\ \A d \in Calls : d # c => call'[d] = call[d]
      BY <1>0, <1>4 DEF CallStep, Moves
    <2>2. ~ active => /\ cr.pc \notin {"issuing", "issued"}
                      /\ cr.pc = "claiming" => ~ cr.sawActive
      BY <1>4 DEF CallStep
    <2> QED
      BY <1>3, <1>4, <2>1, <2>2
  <1>5. ASSUME \/ \E x \in Tabs : Load(x) \/ Retry(x) \/ Logout(x)
               \/ \E c \in Calls : \/ Answer(c) \/ LoseAnswer(c) \/ Find(c)
                                   \/ SendSignIn(c) \/ SignedIn(c) \/ SignInFails(c)
        PROVE  /\ UNCHANGED userVars
               /\ \A x \in Tabs : access'[x] = "valid" => access[x] = "valid" \/ ~ settled
    <2>1. ASSUME NEW x \in Tabs, Load(x) \/ Retry(x) \/ Logout(x)
          PROVE  UNCHANGED userVars /\ (access' = access \/ access' = [access EXCEPT ![x] = "none"])
      BY <2>1 DEF Load, Retry, Logout, tabVars
    <2>2. ASSUME NEW c \in Calls, \/ LoseAnswer(c) \/ Find(c)
                                  \/ SendSignIn(c) \/ SignedIn(c) \/ SignInFails(c)
          PROVE  UNCHANGED userVars /\ (access' = access \/ access' = [access EXCEPT ![c[1]] = "none"])
      BY <2>2 DEF LoseAnswer, Find, SendSignIn, SignedIn, SignInFails, tabVars
    <2>3. ASSUME NEW c \in Calls, Answer(c)
          PROVE  /\ UNCHANGED userVars
                 /\ \/ access' = access \/ access' = [access EXCEPT ![c[1]] = "none"]
                    \/ call[c].pc = "issued" /\ access' = [access EXCEPT ![c[1]] = "valid"]
      BY <2>3 DEF Answer
    <2> QED
      BY <1>0, <1>5, <2>1, <2>2, <2>3 DEF Shut
  <1>6. ASSUME NEW c \in Calls, NEW pc \in CallPCs, Becomes(c, pc), UNCHANGED <<userVars, tabVars>>,
               pc # "issued" /\ pc # "claiming", settled => pc # "issuing"
        PROVE  Shut'
    <2>1. call'[c].pc = pc /\ \A d \in Calls : d # c => call'[d] = call[d]
      BY <1>0, <1>6 DEF Becomes, CallRows
    <2> QED
      BY <1>3, <1>6, <2>1 DEF tabVars
  <1>7. {"issuing", "refused", "revoking", "reused", "ended"} \subseteq CallPCs
    BY DEF CallPCs
  <1>8. ASSUME NEW c \in Calls, Claim(c) PROVE Shut'
    <2>1. settled => ~ call[c].sawActive
      BY <1>8 DEF Shut, Claim
    <2> QED
      BY <1>6, <1>7, <1>8, <2>1 DEF Claim
  <1>9. ASSUME NEW c \in Calls, RevokeFamily(c) \/ EndSession(c) PROVE Shut'
    BY <1>6, <1>7, <1>9 DEF RevokeFamily, EndSession
  <1>10. ASSUME NEW c \in Calls, Issue(c) PROVE Shut'
    <2>1. ~ settled /\ UNCHANGED userVars
      BY <1>10 DEF Issue, Shut
    <2> QED
      BY <2>1 DEF Shut, userVars
  <1> QED
    BY <1>1, <1>2, <1>4, <1>5, <1>8, <1>9, <1>10, StepOfCalls DEF Next, SessionStep

-----------------------------------------------------------------------------
LEMMA InitIsGood == Init => SessionsInv
  <1> SUFFICES ASSUME Init PROVE SessionsInv
    OBVIOUS
  <1>1. \A c \in Calls : call[c] = Idle
    BY DEF Init
  <1>2. TypeOK
    <2>1. call \in [Calls -> CallRows]
      BY IdleIsRow DEF Init
    <2>2. 0 \in 0 .. MaxFlips /\ 0 \in 0 .. MaxLost
      BY SessionsAssumption
    <2> QED
      BY <2>1, <2>2 DEF Init, TypeOK, CallRows, CallPCs
  <1>3. TokensTell
    BY <1>1, IdleIsRow DEF Init, TokensTell, CallTells, Held
  <1>4. OneHolder
    BY <1>1, IdleIsRow DEF Init, OneHolder, FamilyLive, Issues
  <1>5. Shut
    BY DEF Init, Shut
  <1> QED
    BY <1>2, <1>3, <1>4, <1>5 DEF SessionsInv

LEMMA StepIsGood ==
  ASSUME SessionsInv, [Next]_sessionVars
  PROVE  SessionsInv'
  <1>1. CASE Next
    BY <1>1, TypesKept, HoldersKept, ShutKept DEF SessionsInv
  <1>2. CASE UNCHANGED sessionVars
    <2>1. UNCHANGED <<row, family, expired, flagged, active, settled, flips, cookie, access, call, lost>>
      BY <1>2 DEF sessionVars, tokenVars, userVars, tabVars
    <2> QED
      BY <2>1 DEF SessionsInv, TypeOK, TokensTell, CallTells, Held, OneHolder, FamilyLive, Issues, Shut
  <1> QED
    BY <1>1, <1>2

LEMMA Inductive == Spec => []SessionsInv
  BY InitIsGood, StepIsGood, PTL DEF Spec

-----------------------------------------------------------------------------

\* Every variable keeps its type, whatever the tabs, the admin and the network do: a
\* family is named by a token, and a call presents one or none.
THEOREM SessionsTypeCorrect == Spec => []TypeOK
  <1>1. SessionsInv => TypeOK
    BY DEF SessionsInv
  <1> QED
    BY <1>1, Inductive, PTL

LEMMA AtMostOne ==
  ASSUME NEW S, \A x, y \in S : x = y
  PROVE  Cardinality(S) <= 1
  <1>1. CASE S = {}
    BY <1>1, FS_EmptySet
  <1>2. ASSUME NEW x \in S PROVE Cardinality(S) <= 1
    <2>1. S = {x}
      BY <1>2
    <2> QED
      BY <2>1, FS_Singleton
  <1> QED
    BY <1>1, <1>2

\* The conditional update of rotateRefresh and the insert that follows it outside any
\* transaction keep one holder of a family, for any number of tabs that refresh at once.
THEOREM FamiliesHaveOneHolder == Spec => []OneHolderPerFamily
  <1>1. SessionsInv => OneHolderPerFamily
    <2> SUFFICES ASSUME SessionsInv, NEW f \in Tokens
                 PROVE  /\ Cardinality(FamilyLive(f)) <= 1
                        /\ Cardinality(Issuing(f)) <= 1
                        /\ FamilyLive(f) = {} \/ Issuing(f) = {}
      BY DEF OneHolderPerFamily
    <2>1. \A c \in Calls : c \in Issuing(f) <=> Issues(c, f)
      BY DEF Issuing, Issues
    <2>2. /\ \A t, u \in FamilyLive(f) : t = u
          /\ \A c, d \in Issuing(f) : c = d
          /\ \A c \in Issuing(f) : FamilyLive(f) = {}
      BY <2>1 DEF SessionsInv, OneHolder, Issuing
    <2> QED
      BY <2>2, AtMostOne
  <1> QED
    BY <1>1, Inductive, PTL

\* A deactivated user has no valid access token once those of before have expired, even
\* where a refresh read the user before the deactivation and inserted its token after it.
THEOREM DeactivationHolds == Spec => []DeactivationTakesEffect
  <1>1. SessionsInv => DeactivationTakesEffect
    BY DEF SessionsInv, Shut, DeactivationTakesEffect
  <1> QED
    BY <1>1, Inductive, PTL

-----------------------------------------------------------------------------
(* The cookie. *)

\* Nothing has gone wrong so far.
Calm == flagged = {} /\ lost = 0 /\ flips = 0 /\ expired = {}

\* A token that is on its way to the browser is live, and nobody else has it.
OnItsWay(c) ==
    LET t == call[c].new IN
    /\ t \in Tokens /\ row[t] = "live" /\ cookie # t
    /\ \A d \in Calls : /\ call[d].token # t
                        /\ d # c /\ call[d].pc = "issued" => call[d].new # t

\* A call whose answer will set or clear the cookie.
WillAnswer(c) == call[c].pc \in {"issuing", "issued", "ended"}

CallsAreCalm ==
    \A c \in Calls : /\ call[c].pc \notin {"revoking", "reused"}
                     /\ call[c].pc = "claiming" => call[c].sawActive
                     /\ call[c].pc = "issued" => OnItsWay(c)

CookieIsGood == cookie = NoToken \/ row[cookie] = "live" \/ \E c \in Calls : WillAnswer(c)

CookieInv == (flips = 0 => active) /\ (Calm => CallsAreCalm /\ CookieIsGood)

\* A call moves on with the token it had, or the one in the cookie.
LEMMA CallGoesOn ==
  ASSUME SessionsInv, CookieInv, NEW c \in Calls, NEW cr \in CallRows, call' = [call EXCEPT ![c] = cr],
         UNCHANGED <<row, expired, active, flips, cookie, lost>>, flagged' = flagged,
         ~ WillAnswer(c), cr.token \in {call[c].token, cookie, NoToken},
         cr.pc \in {"idle", "sent", "refused", "issuing", "claiming"},
         cr.pc = "claiming" => cr.sawActive = active
  PROVE  CookieInv'
  <1>1. SUFFICES ASSUME Calm' PROVE CallsAreCalm' /\ CookieIsGood'
    BY DEF CookieInv
  <1>2. Calm /\ CallsAreCalm /\ CookieIsGood /\ active
    BY <1>1 DEF Calm, CookieInv
  <1>3. call \in [Calls -> CallRows] /\ NoToken \notin Tokens
    BY TypesOfSessions, SessionsAssumption DEF SessionsInv
  <1>4. call'[c] = cr /\ \A d \in Calls : d # c => call'[d] = call[d]
    BY <1>3
  <1>5. CallsAreCalm'
    <2>1. call'[c].pc \notin {"revoking", "reused", "issued"} /\ (call'[c].pc = "claiming" => call'[c].sawActive)
      <3>1. cr.sawActive \in BOOLEAN
        BY DEF CallRows
      <3> QED
        BY <1>2, <1>4, <3>1
    <2>2. ASSUME NEW d \in Calls, d # c, call[d].pc = "issued" PROVE OnItsWay(d)'
      <3>1. PICK t \in Tokens : t = call[d].new /\ t = call'[d].new
        BY <1>2, <1>4, <2>2 DEF CallsAreCalm, OnItsWay
      <3>2. /\ row[t] = "live" /\ cookie # t
            /\ \A e \in Calls : call[e].token # t /\ (e # d /\ call[e].pc = "issued" => call[e].new # t)
        BY <1>2, <2>2, <3>1 DEF CallsAreCalm, OnItsWay
      <3>3. \A e \in Calls : call'[e].token # t /\ (e # d /\ call'[e].pc = "issued" => call'[e].new # t)
        BY <1>3, <1>4, <2>1, <3>2
      <3> QED
        BY <3>1, <3>2, <3>3 DEF OnItsWay
    <2> QED
      BY <1>2, <1>4, <2>1, <2>2 DEF CallsAreCalm
  <1>6. CookieIsGood'
    <2>1. \A d \in Calls : WillAnswer(d) => d # c /\ WillAnswer(d)'
      BY <1>4 DEF WillAnswer
    <2> QED
      BY <1>2, <2>1 DEF CookieIsGood
  <1> QED
    BY <1>5, <1>6

\* The steps that send a call, look at the user or fail.
LEMMA CookieOfCalls ==
  ASSUME SessionsInv, CookieInv,
         \/ \E x \in Tabs : Load(x) \/ Retry(x) \/ Logout(x)
         \/ \E c \in Calls : Find(c) \/ SendSignIn(c) \/ SignedIn(c) \/ SignInFails(c)
  PROVE  CookieInv'
  <1>0. TypeOK /\ call \in [Calls -> CallRows] /\ active \in BOOLEAN /\ cookie \in Tokens \union {NoToken}
    BY TypesOfSessions DEF SessionsInv, TypeOK
  <1>1. ASSUME NEW x \in Tabs, Load(x) \/ Retry(x) \/ Logout(x) PROVE CookieInv'
    <2>1. PICK c \in Calls : /\ Send(c) /\ call[c] = Idle
                             /\ UNCHANGED <<row, expired, active, flips, cookie, lost, flagged>>
      BY <1>1, CallsAre DEF Load, Retry, Logout, MayCall, tokenVars, userVars, tabVars
    <2>2. PICK cr : cr = [Idle EXCEPT !.pc = "sent", !.token = cookie]
      OBVIOUS
    <2>3. /\ cr \in CallRows /\ cr.pc = "sent" /\ cr.token = cookie
      BY <1>0, <2>2 DEF Idle, CallRows, CallPCs
    <2>4. call' = [call EXCEPT ![c] = cr]
      BY <2>1, <2>2 DEF Send
    <2>5. ~ WillAnswer(c)
      BY <2>1, IdleIsRow DEF WillAnswer
    <2> QED
      BY <2>1, <2>3, <2>4, <2>5, CallGoesOn
  <1>2. ASSUME NEW c \in Calls, NEW pc \in {"sent", "refused"}, Becomes(c, pc), ~ WillAnswer(c),
               UNCHANGED <<row, expired, active, flips, cookie, lost, flagged>>
        PROVE  CookieInv'
    <2>1. PICK cr : cr = [call[c] EXCEPT !.pc = pc]
      OBVIOUS
    <2>2. cr \in CallRows /\ cr.pc = pc /\ cr.token = call[c].token
      BY <1>0, <2>1 DEF CallRows, CallPCs
    <2>3. call' = [call EXCEPT ![c] = cr]
      BY <1>2, <2>1 DEF Becomes
    <2> QED
      BY <1>2, <2>2, <2>3, CallGoesOn
  <1>3. ASSUME NEW c \in Calls, NEW pc \in {"issuing", "claiming"}, NEW saw \in BOOLEAN, ~ WillAnswer(c),
               call' = [call EXCEPT ![c].pc = pc, ![c].sawActive = saw], pc = "claiming" => saw = active,
               UNCHANGED <<row, expired, active, flips, cookie, lost, flagged>>
        PROVE  CookieInv'
    <2>1. PICK cr : cr = [call[c] EXCEPT !.pc = pc, !.sawActive = saw]
      OBVIOUS
    <2>2. cr \in CallRows /\ cr.pc = pc /\ cr.token = call[c].token /\ cr.sawActive = saw
      BY <1>0, <2>1 DEF CallRows, CallPCs
    <2>3. call' = [call EXCEPT ![c] = cr]
      BY <1>0, <1>3, <2>1 DEF CallRows
    <2> QED
      BY <1>3, <2>2, <2>3, CallGoesOn
  <1>4. ASSUME NEW c \in Calls, SendSignIn(c) \/ SignInFails(c) PROVE CookieInv'
    <2>1. /\ \E pc \in {"sent", "refused"} : Becomes(c, pc)
          /\ UNCHANGED <<row, expired, active, flips, cookie, lost, flagged>>
          /\ ~ WillAnswer(c)
      BY <1>4, IdleIsRow DEF SendSignIn, SignInFails, Becomes, MayCall, WillAnswer, tokenVars, userVars, tabVars
    <2> QED
      BY <1>2, <2>1
  <1>5. ASSUME NEW c \in Calls, SignedIn(c) PROVE CookieInv'
    <2>1. /\ call' = [call EXCEPT ![c].pc = "issuing", ![c].sawActive = TRUE]
          /\ UNCHANGED <<row, expired, active, flips, cookie, lost, flagged>>
          /\ ~ WillAnswer(c)
      BY <1>5 DEF SignedIn, WillAnswer, tokenVars, userVars, tabVars
    <2> QED
      BY <1>3, <2>1
  <1>6. ASSUME NEW c \in Calls, Find(c) PROVE CookieInv'
    <2>1. /\ UNCHANGED <<row, expired, active, flips, cookie, lost, flagged>>
          /\ ~ WillAnswer(c)
      BY <1>6 DEF Find, WillAnswer, tokenVars, userVars, tabVars
    <2>2. CASE Becomes(c, "refused")
      BY <1>2, <2>1, <2>2
    <2>3. CASE call' = [call EXCEPT ![c].pc = "claiming", ![c].sawActive = active]
      <3>1. PICK saw : saw = active
        OBVIOUS
      <3>2. saw \in BOOLEAN /\ call' = [call EXCEPT ![c].pc = "claiming", ![c].sawActive = saw]
        BY <1>0, <2>3, <3>1, Zenon
      <3> QED
        BY <1>3, <2>1, <3>1, <3>2
    <2> QED
      BY <1>6, <2>2, <2>3 DEF Find
  <1> QED
    BY <1>1, <1>4, <1>5, <1>6

\* A claimed or ended token is revoked; its caller's answer is still to come.
LEMMA CookieRevoked ==
  ASSUME SessionsInv, CookieInv, NEW c \in Calls, NEW cr \in CallRows, NEW t \in Tokens,
         call' = [call EXCEPT ![c] = cr], t = call[c].token, row' = [row EXCEPT ![t] = "revoked"],
         UNCHANGED <<expired, active, flips, cookie, lost>>, Calm' => Calm,
         call[c].pc # "issued", cr.token = t,
         Calm' => cr.pc \in {"issuing", "ended"}
  PROVE  CookieInv'
  <1>1. SUFFICES ASSUME Calm' PROVE CallsAreCalm' /\ CookieIsGood'
    BY DEF CookieInv
  <1>2. Calm /\ CallsAreCalm /\ CookieIsGood /\ cr.pc \in {"issuing", "ended"}
    BY <1>1 DEF CookieInv
  <1>3. call \in [Calls -> CallRows] /\ row \in [Tokens -> {"none", "live", "revoked"}]
    BY TypesOfSessions DEF SessionsInv
  <1>4. call'[c] = cr /\ \A d \in Calls : d # c => call'[d] = call[d]
    BY <1>3
  <1>5. \A u \in Tokens : u # t => row'[u] = row[u]
    BY <1>3
  <1>6. ASSUME NEW d \in Calls, d # c, call[d].pc = "issued" PROVE OnItsWay(d)'
    <2>1. PICK u \in Tokens : u = call[d].new /\ u = call'[d].new
      BY <1>2, <1>4, <1>6 DEF CallsAreCalm, OnItsWay
    <2>2. /\ row[u] = "live" /\ cookie # u /\ u # t
          /\ \A e \in Calls : call[e].token # u /\ (e # d /\ call[e].pc = "issued" => call[e].new # u)
      BY <1>2, <1>6, <2>1 DEF CallsAreCalm, OnItsWay
    <2>3. \A e \in Calls : call'[e].token # u /\ (e # d /\ call'[e].pc = "issued" => call'[e].new # u)
      BY <1>2, <1>4, <2>2
    <2>4. row'[u] = "live" /\ cookie' # u
      BY <1>5, <2>2
    <2> QED
      BY <2>1, <2>3, <2>4 DEF OnItsWay
  <1>7. CallsAreCalm'
    BY <1>2, <1>4, <1>6 DEF CallsAreCalm
  <1>8. CookieIsGood'
    BY <1>2, <1>4 DEF CookieIsGood, WillAnswer
  <1> QED
    BY <1>7, <1>8

\* An answer that sets the cookie to a live token or clears it.
LEMMA CookieAnswered ==
  ASSUME SessionsInv, CookieInv, NEW c \in Calls, call' = [call EXCEPT ![c] = Idle],
         UNCHANGED <<row, expired, active, flips, flagged, lost>>,
         \/ cookie' = NoToken
         \/ call[c].pc = "issued" /\ cookie' = call[c].new
  PROVE  CookieInv'
  <1>1. SUFFICES ASSUME Calm' PROVE CallsAreCalm' /\ CookieIsGood'
    BY DEF CookieInv
  <1>2. Calm /\ CallsAreCalm /\ CookieIsGood
    BY <1>1 DEF Calm, CookieInv
  <1>3. call \in [Calls -> CallRows] /\ NoToken \notin Tokens
    BY TypesOfSessions, SessionsAssumption DEF SessionsInv
  <1>4. call'[c] = Idle /\ \A d \in Calls : d # c => call'[d] = call[d]
    BY <1>3
  <1>5. Idle.pc = "idle" /\ Idle.token = NoToken
    BY IdleIsRow
  <1>6. ASSUME NEW d \in Calls, d # c, call[d].pc = "issued" PROVE OnItsWay(d)'
    <2>1. PICK u \in Tokens : u = call[d].new /\ u = call'[d].new
      BY <1>2, <1>4, <1>6 DEF CallsAreCalm, OnItsWay
    <2>2. /\ row[u] = "live"
          /\ \A e \in Calls : call[e].token # u /\ (e # d /\ call[e].pc = "issued" => call[e].new # u)
      BY <1>2, <1>6, <2>1 DEF CallsAreCalm, OnItsWay
    <2>3. cookie' # u
      BY <1>3, <1>6, <2>2
    <2>4. \A e \in Calls : call'[e].token # u /\ (e # d /\ call'[e].pc = "issued" => call'[e].new # u)
      BY <1>3, <1>4, <1>5, <2>2
    <2> QED
      BY <2>1, <2>2, <2>3, <2>4 DEF OnItsWay
  <1>7. CallsAreCalm'
    BY <1>2, <1>4, <1>5, <1>6 DEF CallsAreCalm
  <1>8. CookieIsGood'
    <2>1. CASE cookie' = NoToken
      BY <2>1 DEF CookieIsGood
    <2>2. CASE call[c].pc = "issued" /\ cookie' = call[c].new
      BY <1>2, <2>2 DEF CookieIsGood, CallsAreCalm, OnItsWay
    <2> QED
      BY <2>1, <2>2
  <1> QED
    BY <1>7, <1>8

LEMMA CookieIssued ==
  ASSUME SessionsInv, CookieInv, NEW c \in Calls, Issue(c)
  PROVE  CookieInv'
  <1>0. /\ TypeOK /\ TokensTell
        /\ call \in [Calls -> CallRows] /\ row \in [Tokens -> {"none", "live", "revoked"}]
        /\ NoToken \notin Tokens
    BY TypesOfSessions, SessionsAssumption DEF SessionsInv
  <1>1. /\ call[c].pc = "issuing"
        /\ UNCHANGED <<expired, flagged, active, flips, cookie, lost>>
    BY DEF Issue, userVars, tabVars
  <1>2. PICK t \in Tokens : /\ row[t] = "none" /\ row' = [row EXCEPT ![t] = "live"]
                            /\ call' = [call EXCEPT ![c].pc = "issued", ![c].new = t]
    BY DEF Issue
  <1>3. SUFFICES ASSUME Calm' PROVE CallsAreCalm' /\ CookieIsGood'
    BY <1>1 DEF CookieInv
  <1>4. Calm /\ CallsAreCalm /\ CookieIsGood
    BY <1>1, <1>3 DEF Calm, CookieInv
  <1>5. /\ call'[c].pc = "issued" /\ call'[c].new = t /\ call'[c].token = call[c].token
        /\ \A d \in Calls : d # c => call'[d] = call[d]
    BY <1>0, <1>2 DEF CallRows
  <1>6. row'[t] = "live" /\ \A u \in Tokens : u # t => row'[u] = row[u]
    BY <1>0, <1>2
  <1>7. cookie # t /\ \A d \in Calls : call[d].token # t
    BY <1>0, <1>2 DEF TokensTell, CallTells, Held
  <1>8. \A d \in Calls : d # c /\ call[d].pc = "issued" => call[d].new # t
    BY <1>2, <1>4 DEF CallsAreCalm, OnItsWay
  <1>9. OnItsWay(c)'
    <2>1. \A d \in Calls : call'[d].token # t /\ (d # c /\ call'[d].pc = "issued" => call'[d].new # t)
      BY <1>5, <1>7, <1>8
    <2> QED
      BY <1>1, <1>5, <1>6, <1>7, <2>1 DEF OnItsWay
  <1>10. ASSUME NEW d \in Calls, d # c, call[d].pc = "issued" PROVE OnItsWay(d)'
    <2>1. PICK u \in Tokens : u = call[d].new /\ u = call'[d].new
      BY <1>4, <1>5, <1>10 DEF CallsAreCalm, OnItsWay
    <2>2. /\ row[u] = "live" /\ cookie # u /\ u # t
          /\ \A e \in Calls : call[e].token # u /\ (e # d /\ call[e].pc = "issued" => call[e].new # u)
      BY <1>4, <1>8, <1>10, <2>1 DEF CallsAreCalm, OnItsWay
    <2>3. \A e \in Calls : call'[e].token # u /\ (e # d /\ call'[e].pc = "issued" => call'[e].new # u)
      BY <1>5, <2>2
    <2>4. row'[u] = "live" /\ cookie' # u
      BY <1>1, <1>6, <2>2
    <2> QED
      BY <2>1, <2>3, <2>4 DEF OnItsWay
  <1>11. CallsAreCalm'
    BY <1>4, <1>5, <1>9, <1>10 DEF CallsAreCalm
  <1>12. CookieIsGood'
    BY <1>5 DEF CookieIsGood, WillAnswer
  <1> QED
    BY <1>11, <1>12

\* The steps that revoke, hand over or answer.
LEMMA CookieOfTokens ==
  ASSUME SessionsInv, CookieInv,
         NEW c \in Calls, Answer(c) \/ Claim(c) \/ RevokeFamily(c) \/ Issue(c) \/ EndSession(c)
  PROVE  CookieInv'
  <1>0. /\ TypeOK /\ TokensTell /\ call \in [Calls -> CallRows] /\ call[c] \in CallRows
        /\ CallTells(c, call[c]) /\ NoToken \notin Tokens
    BY TypesOfSessions, SessionsAssumption DEF SessionsInv, TokensTell
  <1>1. CASE Answer(c)
    <2>1. /\ call' = [call EXCEPT ![c] = Idle] /\ UNCHANGED <<row, expired, active, flips, flagged, lost>>
          /\ cookie' = CookieAfter(c) /\ call[c].pc \in {"issued", "refused", "reused", "ended"}
      BY <1>1 DEF Answer, tokenVars, userVars
    <2>2. CASE call[c].pc = "refused"
      <3>1. cookie' = cookie /\ ~ WillAnswer(c)
        BY <2>1, <2>2 DEF CookieAfter, WillAnswer
      <3>2. Idle \in CallRows /\ Idle.pc = "idle" /\ Idle.token = NoToken
        BY IdleIsRow
      <3> QED
        BY <2>1, <3>1, <3>2, CallGoesOn
    <2>3. CASE call[c].pc # "refused"
      <3>1. cookie' = NoToken \/ (call[c].pc = "issued" /\ cookie' = call[c].new)
        BY <2>1, <2>3 DEF CookieAfter
      <3> QED
        BY <2>1, <3>1, CookieAnswered
    <2> QED
      BY <2>2, <2>3
  <1>2. CASE Claim(c)
    <2>1. PICK t \in Tokens : t = call[c].token
      BY <1>0, <1>2 DEF Claim, CallTells
    <2>2. call[c].pc = "claiming" /\ UNCHANGED <<expired, active, flips, cookie, lost>>
      BY <1>2 DEF Claim, userVars, tabVars
    <2>3. CASE row[t] = "live"
      <3>1. PICK pc \in {"issuing", "refused"} :
               /\ Becomes(c, pc) /\ row' = [row EXCEPT ![t] = "revoked"] /\ flagged' = flagged
               /\ call[c].sawActive => pc = "issuing"
        BY <1>2, <2>1, <2>3 DEF Claim
      <3>2. PICK cr : cr = [call[c] EXCEPT !.pc = pc]
        OBVIOUS
      <3>3. cr \in CallRows /\ cr.pc = pc /\ cr.token = t
        BY <1>0, <2>1, <3>2 DEF CallRows, CallPCs
      <3>4. call' = [call EXCEPT ![c] = cr]
        BY <3>1, <3>2 DEF Becomes
      <3>5. Calm' => Calm
        BY <2>2, <3>1 DEF Calm
      <3>6. Calm' => cr.pc \in {"issuing", "ended"}
        BY <2>2, <3>1, <3>3, <3>5 DEF CookieInv, CallsAreCalm
      <3> QED
        BY <2>1, <2>2, <3>1, <3>3, <3>4, <3>5, <3>6, CookieRevoked
    <2>4. CASE row[t] # "live"
      <3>1. flagged' = flagged \union {family[t]}
        BY <1>2, <2>1, <2>4 DEF Claim
      <3>2. ~ Calm'
        BY <3>1 DEF Calm
      <3> QED
        BY <2>2, <3>2 DEF CookieInv
    <2> QED
      BY <2>3, <2>4
  <1>3. CASE RevokeFamily(c)
    <2>1. call[c].pc = "revoking" /\ UNCHANGED <<expired, flagged, active, flips, cookie, lost>>
      BY <1>3 DEF RevokeFamily, userVars, tabVars
    <2>2. ~ Calm'
      BY <2>1 DEF CookieInv, CallsAreCalm, Calm
    <2> QED
      BY <2>1, <2>2 DEF CookieInv
  <1>4. CASE Issue(c)
    BY <1>4, CookieIssued
  <1>5. CASE EndSession(c)
    <2>1. call[c].pc = "sent" /\ UNCHANGED <<expired, flagged, active, flips, cookie, lost>>
      BY <1>5 DEF EndSession, userVars, tabVars
    <2>2. ASSUME NEW pc \in {"refused", "ended"}, Becomes(c, pc)
          PROVE  \E cr \in CallRows : /\ call' = [call EXCEPT ![c] = cr] /\ cr.pc = pc
                                      /\ cr.token = call[c].token
      <3>1. PICK cr : cr = [call[c] EXCEPT !.pc = pc]
        OBVIOUS
      <3>2. cr \in CallRows /\ cr.pc = pc /\ cr.token = call[c].token
        BY <1>0, <3>1 DEF CallRows, CallPCs
      <3> QED
        BY <2>2, <3>1, <3>2 DEF Becomes
    <2>3. CASE call[c].token = NoToken
      <3>1. Becomes(c, "refused") /\ row' = row
        BY <1>5, <2>3 DEF EndSession
      <3>2. ~ WillAnswer(c)
        BY <2>1 DEF WillAnswer
      <3> QED
        BY <2>1, <2>2, <3>1, <3>2, CallGoesOn
    <2>4. CASE call[c].token # NoToken
      <3>1. PICK t \in Tokens : t = call[c].token
        BY <1>0, <2>4 DEF CallRows
      <3>2. Becomes(c, "ended") /\ row' = [row EXCEPT ![t] = "revoked"]
        BY <1>5, <2>4, <3>1 DEF EndSession
      <3>3. Calm' => Calm
        BY <2>1 DEF Calm
      <3> QED
        BY <2>1, <2>2, <3>1, <3>2, <3>3, CookieRevoked
    <2> QED
      BY <2>3, <2>4
  <1> QED
    BY <1>1, <1>2, <1>3, <1>4, <1>5

\* An answer that gets lost, an admin and the passing of time.
LEMMA CookieOfOthers ==
  ASSUME SessionsInv, CookieInv,
         \/ \E c \in Calls : LoseAnswer(c)
         \/ UpdateUser \/ AccessTokensExpire \/ RefreshTokensExpire
  PROVE  CookieInv'
  <1>0. lost \in Nat /\ flips \in Nat /\ active \in BOOLEAN /\ TokensTell
    BY SessionsAssumption DEF SessionsInv, TypeOK
  <1>1. ASSUME NEW c \in Calls, LoseAnswer(c) PROVE CookieInv'
    <2>1. lost' = lost + 1 /\ UNCHANGED <<active, flips>>
      BY <1>1 DEF LoseAnswer, userVars
    <2> QED
      BY <1>0, <2>1 DEF CookieInv, Calm
  <1>2. CASE UpdateUser
    <2>1. flips' = flips + 1
      BY <1>2 DEF UpdateUser
    <2> QED
      BY <1>0, <2>1 DEF CookieInv, Calm
  <1>3. CASE AccessTokensExpire
    BY <1>3 DEF AccessTokensExpire, CookieInv, Calm, CallsAreCalm, OnItsWay, CookieIsGood, WillAnswer,
       tokenVars
  <1>4. CASE RefreshTokensExpire
    <2>1. /\ expired' = {t \in Tokens : row[t] # "none"} /\ Quiet
          /\ UNCHANGED <<row, active, flips, cookie, call>>
      BY <1>4 DEF RefreshTokensExpire
    <2>2. SUFFICES ASSUME expired' = {} PROVE CallsAreCalm' /\ CookieIsGood'
      BY <2>1 DEF CookieInv, Calm
    <2>3. \A c \in Calls : call'[c].pc = "idle"
      BY <2>1, IdleIsRow DEF Quiet
    <2>4. cookie \in Tokens \union {NoToken}
      BY DEF SessionsInv, TypeOK
    <2>5. cookie = NoToken
      BY <1>0, <2>1, <2>2, <2>4 DEF TokensTell, Held
    <2> QED
      BY <2>1, <2>3, <2>5 DEF CallsAreCalm, CookieIsGood
  <1> QED
    BY <1>1, <1>2, <1>3, <1>4

LEMMA CookieStep ==
  ASSUME SessionsInv, CookieInv, [Next]_sessionVars
  PROVE  CookieInv'
  <1>1. CASE Next
    BY <1>1, CookieOfCalls, CookieOfTokens, CookieOfOthers DEF Next, SessionStep
  <1>2. CASE UNCHANGED sessionVars
    <2>1. UNCHANGED <<row, expired, flagged, active, flips, cookie, call, lost>>
      BY <1>2 DEF sessionVars, tokenVars, userVars, tabVars
    <2> QED
      BY <2>1 DEF CookieInv, Calm, CallsAreCalm, OnItsWay, CookieIsGood, WillAnswer
  <1> QED
    BY <1>1, <1>2

\* A browser at rest holds a cookie that works, or none, unless two calls competed for a
\* token, an answer was lost, an admin intervened or a month passed: the answer on its way
\* to it brings a live token that nobody else has, or clears it.
THEOREM CookiesWork == Spec => []CookieWorks
  <1>1. Init => CookieInv
    BY IdleIsRow DEF Init, CookieInv, CallsAreCalm, CookieIsGood
  <1>2. SessionsInv /\ CookieInv /\ [Next]_sessionVars => CookieInv'
    BY CookieStep
  <1>3. SessionsInv /\ CookieInv => CookieWorks
    <2> SUFFICES ASSUME SessionsInv, CookieInv, Quiet, Calm, cookie # NoToken
                 PROVE  row[cookie] = "live"
      <3>1. flagged # {} \/ lost > 0 \/ flips > 0 \/ expired # {} \/ Calm \/ ~ SessionsInv
        BY SessionsAssumption DEF Calm, SessionsInv, TypeOK
      <3> QED
        BY <3>1 DEF CookieWorks
    <2>1. \A c \in Calls : ~ WillAnswer(c)
      BY IdleIsRow DEF Quiet, WillAnswer
    <2> QED
      BY <2>1 DEF CookieInv, CookieIsGood
  <1> QED
    BY <1>1, <1>2, <1>3, Inductive, PTL DEF Spec

-----------------------------------------------------------------------------
(* Signing in. *)

Entries == [pc : {"none", "using", "invalidating", "consent", "resolving", "inserting"},
            link : Links \union {NoLink}]

AskerStates == [pc : {"idle", "passed", "saved", "counted"}, link : Links \union {NoLink}]

\* Requests for a link that have passed the limit and are to be counted, and those
\* that have been and are to be mailed.
Passed == {a \in Askers : asker[a].pc \in {"passed", "saved"}}
Counted == {a \in Askers : asker[a].pc = "counted"}

SignInTypes ==
    /\ link \in [Links -> {"none", "saved", "mailed", "used"}]
    /\ stale \in SUBSET Links
    /\ count \in Nat /\ uncounted \in Nat /\ mails \in Nat /\ mishaps \in 0 .. MaxMishaps
    /\ asker \in [Askers -> AskerStates]
    /\ entry \in [SignIns -> Entries]
    /\ oauth \in Tabs \union {NoTab}
    /\ account \in {"none", "present"}
    /\ identities \in SUBSET {"google", "email_link"}
    /\ claims \in [Links -> Nat]

\* What uses a link has found it, what mails one has saved it, and a link that was
\* claimed is used.
LinksTell ==
    /\ \A a \in Askers : asker[a].pc \in {"saved", "counted"} =>
          asker[a].link \in Links /\ link[asker[a].link] # "none"
    /\ \A c \in SignIns : entry[c].pc = "using" =>
          entry[c].link \in Links /\ link[entry[c].link] # "none"
    /\ \A l \in Links : claims[l] = 0 \/ (claims[l] = 1 /\ link[l] = "used")

\* A request that passed the limit may yet be counted: the last of them found room
\* for itself.  A request that was counted, or refused, may yet be mailed.
LinksCounted ==
    /\ count + Cardinality(Passed) <= MaxPerEmail - 1 + Cardinality(Askers)
    /\ mails + Cardinality(Counted) <= count + uncounted

SignInInv == SignInTypes /\ LinksTell /\ LinksCounted

LEMMA NoEntryIsEntry == NoEntry \in Entries /\ NoEntry.pc = "none"
  BY DEF NoEntry, Entries

\* A sign-in goes on, the links keep their age and their number.
LEMMA EntryGoesOn ==
  ASSUME SignInInv, NEW c \in SignIns, NEW e \in Entries, entry' = [entry EXCEPT ![c] = e],
         e.pc = "using" => e.link \in Links /\ link[e.link] # "none",
         link' \in [Links -> {"none", "saved", "mailed", "used"}],
         \A l \in Links : /\ link'[l] = "none" <=> link[l] = "none"
                          /\ link[l] = "used" => link'[l] = "used",
         claims' \in [Links -> Nat],
         \A l \in Links : \/ claims'[l] = claims[l]
                          \/ link[l] # "used" /\ link'[l] = "used" /\ claims'[l] = claims[l] + 1,
         UNCHANGED <<stale, askVars>>,
         oauth' \in Tabs \union {NoTab}, account' \in {"none", "present"},
         identities' \in SUBSET {"google", "email_link"}
  PROVE  SignInInv'
  <1>0. UNCHANGED <<count, uncounted, mails, mishaps, asker>>
    BY DEF askVars
  <1>1. SignInTypes'
    BY <1>0 DEF SignInInv, SignInTypes
  <1>2. LinksTell'
    <2>3. \A a \in Askers : asker'[a].pc \in {"saved", "counted"} =>
             asker'[a].link \in Links /\ link'[asker'[a].link] # "none"
      BY <1>0 DEF SignInInv, LinksTell
    <2>1. \A d \in SignIns : entry'[d].pc = "using" => entry'[d].link \in Links /\ link'[entry'[d].link] # "none"
      BY DEF SignInInv, SignInTypes, LinksTell
    <2>2. ASSUME NEW l \in Links PROVE claims'[l] = 0 \/ (claims'[l] = 1 /\ link'[l] = "used")
      BY DEF SignInInv, LinksTell
    <2> QED
      BY <2>1, <2>2, <2>3 DEF LinksTell
  <1>3. LinksCounted'
    <2>1. Counted' = Counted /\ Passed' = Passed
      BY <1>0 DEF Counted, Passed
    <2> QED
      BY <1>0, <2>1 DEF SignInInv, LinksCounted
  <1> QED
    BY <1>1, <1>2, <1>3 DEF SignInInv

LEMMA SignInRests ==
  ASSUME SignInInv, UNCHANGED <<linkVars, entry, oauth, accountVars>>
  PROVE  SignInInv'
  <1>1. UNCHANGED <<link, stale, count, uncounted, mails, mishaps, asker, claims, entry, oauth,
                    account, identities>>
    BY DEF linkVars, askVars, accountVars
  <1>2. SignInTypes' /\ LinksTell'
    BY <1>1 DEF SignInInv, SignInTypes, LinksTell
  <1>3. Counted' = Counted /\ Passed' = Passed
    BY <1>1 DEF Counted, Passed
  <1> QED
    BY <1>1, <1>2, <1>3 DEF SignInInv, LinksCounted

LEMMA AskersFinite ==
  /\ IsFiniteSet(Passed) /\ Cardinality(Passed) \in Nat
  /\ IsFiniteSet(Counted) /\ Cardinality(Counted) \in Nat
  /\ Cardinality(Askers) \in Nat
  /\ Cardinality(Passed') \in Nat /\ Cardinality(Passed') <= Cardinality(Askers)
  /\ Cardinality(Counted') \in Nat
  <1>1. Passed \subseteq Askers /\ Passed' \subseteq Askers /\ Counted \subseteq Askers
        /\ Counted' \subseteq Askers /\ IsFiniteSet(Askers)
    BY SignInAssumption DEF Passed, Counted
  <1> QED
    BY <1>1, FS_Subset, FS_CardinalityType

LEMMA NoRequestIsRequest == NoRequest \in AskerStates /\ NoRequest.pc = "idle"
  BY DEF NoRequest, AskerStates

\* A request goes to the state s: the sets it leaves and joins.
LEMMA AskerMoves ==
  ASSUME SignInTypes, NEW a \in Askers, NEW s \in AskerStates, asker' = [asker EXCEPT ![a] = s]
  PROVE  /\ asker' \in [Askers -> AskerStates] /\ asker'[a] = s
         /\ \A o \in Askers : o # a => asker'[o] = asker[o]
         /\ s.pc \in {"passed", "saved"} /\ a \in Passed => Passed' = Passed
         /\ s.pc \notin {"passed", "saved"} => Passed' = Passed \ {a}
         /\ s.pc = "counted" => Counted' = Counted \union {a}
         /\ s.pc # "counted" => Counted' = Counted \ {a}
  <1>1. /\ asker' \in [Askers -> AskerStates] /\ asker'[a] = s
        /\ \A o \in Askers : o # a => asker'[o] = asker[o]
    BY DEF SignInTypes
  <1> QED
    BY <1>1 DEF Passed, Counted

\* Asking for a link keeps the types and what is known of the links.
LEMMA AskingTells ==
  ASSUME SignInInv, NEW a \in Askers, NEW s \in AskerStates, asker' = [asker EXCEPT ![a] = s],
         link' \in [Links -> {"none", "saved", "mailed", "used"}],
         \A l \in Links : /\ link[l] # "none" => link'[l] # "none"
                          /\ link[l] = "used" => link'[l] = "used",
         s.pc \in {"saved", "counted"} => s.link \in Links /\ link'[s.link] # "none",
         count' \in Nat, uncounted' \in Nat, mails' \in Nat, mishaps' \in 0 .. MaxMishaps,
         UNCHANGED <<stale, claims, entry, oauth, account, identities>>
  PROVE  SignInTypes' /\ LinksTell'
  <1>1. /\ asker' \in [Askers -> AskerStates] /\ asker'[a] = s
        /\ \A o \in Askers : o # a => asker'[o] = asker[o]
    BY DEF SignInInv, SignInTypes
  <1>2. SignInTypes'
    BY <1>1 DEF SignInInv, SignInTypes
  <1>3. \A o \in Askers : asker'[o].pc \in {"saved", "counted"} =>
           asker'[o].link \in Links /\ link'[asker'[o].link] # "none"
    BY <1>1 DEF SignInInv, LinksTell
  <1>4. \A c \in SignIns : entry'[c].pc = "using" =>
           entry'[c].link \in Links /\ link'[entry'[c].link] # "none"
    BY DEF SignInInv, LinksTell
  <1>5. \A l \in Links : claims'[l] = 0 \/ (claims'[l] = 1 /\ link'[l] = "used")
    BY DEF SignInInv, LinksTell
  <1> QED
    BY <1>2, <1>3, <1>4, <1>5 DEF LinksTell

LEMMA MishapTypes ==
  ASSUME SignInTypes, Mishap
  PROVE  mishaps' \in 0 .. MaxMishaps
  BY SignInAssumption DEF SignInTypes, Mishap

LEMMA StepOfAsking ==
  ASSUME SignInInv, NEW a \in Askers, Asks(a)
  PROVE  SignInInv'
  <1>0. /\ SignInTypes /\ LinksTell /\ LinksCounted /\ MaxPerEmail \in Nat \ {0}
        /\ count \in Nat /\ uncounted \in Nat /\ mails \in Nat /\ mishaps \in 0 .. MaxMishaps
        /\ asker[a] \in AskerStates
        /\ link \in [Links -> {"none", "saved", "mailed", "used"}]
    BY SignInAssumption DEF SignInInv, SignInTypes
  <1>1. ASSUME NEW s \in AskerStates, asker' = [asker EXCEPT ![a] = s],
               link' \in [Links -> {"none", "saved", "mailed", "used"}],
               \A l \in Links : /\ link[l] # "none" => link'[l] # "none"
                                /\ link[l] = "used" => link'[l] = "used",
               s.pc \in {"saved", "counted"} => s.link \in Links /\ link'[s.link] # "none",
               count' \in Nat, uncounted' \in Nat, mails' \in Nat, mishaps' \in 0 .. MaxMishaps,
               UNCHANGED <<stale, claims, entry, oauth, account, identities>>,
               count' + Cardinality(Passed') <= MaxPerEmail - 1 + Cardinality(Askers),
               mails' + Cardinality(Counted') <= count' + uncounted'
        PROVE  SignInInv'
    <2>1. SignInTypes' /\ LinksTell'
      BY <1>1, AskingTells
    <2> QED
      BY <1>1, <2>1 DEF SignInInv, LinksCounted
  <1>2. CASE CheckLimit(a)
    <2>1. PICK s : s = [asker[a] EXCEPT !.pc = "passed"]
      OBVIOUS
    <2>2. s \in AskerStates /\ s.pc = "passed"
      BY <1>0, <2>1 DEF AskerStates
    <2>3. /\ count < MaxPerEmail /\ asker' = [asker EXCEPT ![a] = s] /\ asker[a] = NoRequest
          /\ UNCHANGED <<link, stale, count, uncounted, mails, mishaps, claims, entry, oauth, account, identities>>
      BY <1>2, <2>1 DEF CheckLimit, Checks, accountVars
    <2>4. Counted' = Counted
      <3>1. a \notin Counted
        BY <2>3, NoRequestIsRequest DEF Counted
      <3>2. Counted' = Counted \ {a}
        BY <1>0, <2>2, <2>3, AskerMoves
      <3> QED
        BY <3>1, <3>2
    <2>5. count' + Cardinality(Passed') <= MaxPerEmail - 1 + Cardinality(Askers)
      BY <1>0, <2>3, AskersFinite
    <2>6. mails' + Cardinality(Counted') <= count' + uncounted'
      BY <1>0, <2>3, <2>4 DEF LinksCounted
    <2> QED
      BY <1>0, <1>1, <2>2, <2>3, <2>5, <2>6
  <1>3. CASE SaveLink(a)
    <2>1. PICK l \in Links : /\ link[l] = "none" /\ link' = [link EXCEPT ![l] = "saved"]
                             /\ asker' = [asker EXCEPT ![a] = [pc |-> "saved", link |-> l]]
      BY <1>3 DEF SaveLink
    <2>2. PICK s : s = [pc |-> "saved", link |-> l]
      OBVIOUS
    <2>3. s \in AskerStates /\ s.pc = "saved" /\ s.link = l
      BY <2>2 DEF AskerStates
    <2>4. /\ asker[a].pc = "passed" /\ asker' = [asker EXCEPT ![a] = s]
          /\ UNCHANGED <<stale, count, uncounted, mails, mishaps, claims, entry, oauth, account, identities>>
      BY <1>3, <2>1, <2>2 DEF SaveLink, accountVars
    <2>5. a \in Passed /\ a \notin Counted
      BY <2>4 DEF Passed, Counted
    <2>6. Passed' = Passed /\ Counted' = Counted
      <3>1. Passed' = Passed
        BY <1>0, <2>3, <2>4, <2>5, AskerMoves
      <3>2. Counted' = Counted \ {a}
        BY <1>0, <2>3, <2>4, AskerMoves
      <3> QED
        BY <3>1, <3>2, <2>5
    <2>7. /\ count' + Cardinality(Passed') <= MaxPerEmail - 1 + Cardinality(Askers)
          /\ mails' + Cardinality(Counted') <= count' + uncounted'
      BY <1>0, <2>4, <2>6 DEF LinksCounted
    <2>8. /\ link' \in [Links -> {"none", "saved", "mailed", "used"}] /\ link'[l] = "saved"
          /\ \A k \in Links : /\ link[k] # "none" => link'[k] # "none"
                              /\ link[k] = "used" => link'[k] = "used"
      BY <1>0, <2>1
    <2> QED
      BY <1>0, <1>1, <2>3, <2>4, <2>7, <2>8
  <1>4. CASE CountLink(a)
    <2>1. PICK s : s = [asker[a] EXCEPT !.pc = "counted"]
      OBVIOUS
    <2>2. s \in AskerStates /\ s.pc = "counted" /\ s.link = asker[a].link
      BY <1>0, <2>1 DEF AskerStates
    <2>3. /\ asker[a].pc = "saved" /\ asker' = [asker EXCEPT ![a] = s]
          /\ UNCHANGED <<link, stale, mails, claims, entry, oauth, account, identities>>
          /\ \/ count' = count + 1 /\ UNCHANGED <<uncounted, mishaps>>
             \/ uncounted' = uncounted + 1 /\ Mishap /\ UNCHANGED count
      BY <1>4, <2>1 DEF CountLink, accountVars
    <2>4. a \in Passed /\ a \notin Counted
      BY <2>3 DEF Passed, Counted
    <2>5. /\ Cardinality(Passed') = Cardinality(Passed) - 1
          /\ Cardinality(Counted') = Cardinality(Counted) + 1
      <3>1. Passed' = Passed \ {a} /\ Counted' = Counted \union {a}
        BY <1>0, <2>2, <2>3, AskerMoves
      <3>2. Cardinality(Passed \ {a}) = Cardinality(Passed) - 1
        BY <2>4, AskersFinite, FS_RemoveElement
      <3>3. Cardinality(Counted \union {a}) = Cardinality(Counted) + 1
        BY <2>4, AskersFinite, FS_AddElement
      <3> QED
        BY <3>1, <3>2, <3>3
    <2>6. /\ count' \in Nat /\ uncounted' \in Nat /\ count' <= count + 1
          /\ count' + uncounted' = count + uncounted + 1
      BY <1>0, <2>3
    <2>7. mishaps' \in 0 .. MaxMishaps
      BY <1>0, <2>3, MishapTypes
    <2>8. /\ count' + Cardinality(Passed') <= MaxPerEmail - 1 + Cardinality(Askers)
          /\ mails' + Cardinality(Counted') <= count' + uncounted'
      BY <1>0, <2>3, <2>5, <2>6, AskersFinite DEF LinksCounted
    <2>9. s.link \in Links /\ link'[s.link] # "none"
      BY <1>0, <2>2, <2>3 DEF LinksTell
    <2> QED
      BY <1>0, <1>1, <2>2, <2>3, <2>6, <2>7, <2>8, <2>9
  <1>5. CASE MailLink(a)
    <2>1. PICK l \in Links : l = asker[a].link /\ asker[a].pc = "counted"
      BY <1>0, <1>5 DEF MailLink, LinksTell
    <2>2. /\ mails' = mails + 1 /\ asker' = [asker EXCEPT ![a] = NoRequest]
          /\ link' = [link EXCEPT ![l] = IF @ = "saved" THEN "mailed" ELSE @]
          /\ UNCHANGED <<stale, count, uncounted, mishaps, claims, entry, oauth, account, identities>>
      BY <1>5, <2>1 DEF MailLink, accountVars
    <2>3. a \notin Passed /\ a \in Counted
      BY <2>1 DEF Passed, Counted
    <2>4. Passed' = Passed /\ Cardinality(Counted') = Cardinality(Counted) - 1
      <3>1. Passed' = Passed \ {a} /\ Counted' = Counted \ {a}
        BY <1>0, <2>2, NoRequestIsRequest, AskerMoves
      <3>2. Cardinality(Counted \ {a}) = Cardinality(Counted) - 1
        BY <2>3, AskersFinite, FS_RemoveElement
      <3> QED
        BY <2>3, <3>1, <3>2
    <2>5. /\ count' + Cardinality(Passed') <= MaxPerEmail - 1 + Cardinality(Askers)
          /\ mails' + Cardinality(Counted') <= count' + uncounted'
      BY <1>0, <2>2, <2>4, AskersFinite DEF LinksCounted
    <2>6. /\ link' \in [Links -> {"none", "saved", "mailed", "used"}]
          /\ \A k \in Links : /\ link[k] # "none" => link'[k] # "none"
                              /\ link[k] = "used" => link'[k] = "used"
      BY <1>0, <2>2
    <2>7. mails' \in Nat
      BY <1>0, <2>2
    <2> QED
      BY <1>0, <1>1, <2>2, <2>5, <2>6, <2>7, NoRequestIsRequest
  <1>6. CASE RequestDies(a)
    <2>1. /\ asker' = [asker EXCEPT ![a] = NoRequest] /\ Mishap
          /\ UNCHANGED <<link, stale, count, uncounted, mails, claims, entry, oauth, account, identities>>
      BY <1>6 DEF RequestDies, accountVars
    <2>2. Passed' = Passed \ {a} /\ Counted' = Counted \ {a}
      BY <1>0, <2>1, NoRequestIsRequest, AskerMoves
    <2>3. /\ Cardinality(Passed') <= Cardinality(Passed)
          /\ Cardinality(Counted') <= Cardinality(Counted)
      <3>1. Passed \ {a} \subseteq Passed /\ Counted \ {a} \subseteq Counted
        OBVIOUS
      <3> QED
        BY <2>2, <3>1, AskersFinite, FS_Subset
    <2>4. /\ count' + Cardinality(Passed') <= MaxPerEmail - 1 + Cardinality(Askers)
          /\ mails' + Cardinality(Counted') <= count' + uncounted'
      BY <1>0, <2>1, <2>3, AskersFinite DEF LinksCounted
    <2>5. mishaps' \in 0 .. MaxMishaps
      BY <1>0, <2>1, MishapTypes
    <2> QED
      BY <1>0, <1>1, <2>1, <2>4, <2>5, NoRequestIsRequest
  <1> QED
    BY <1>2, <1>3, <1>4, <1>5, <1>6 DEF Asks

LEMMA StepOfWindow ==
  ASSUME SignInInv, WindowPasses
  PROVE  SignInInv'
  <1>0. SignInTypes /\ LinksTell /\ MaxPerEmail \in Nat \ {0}
    BY SignInAssumption DEF SignInInv
  <1>1. Cardinality(Passed') = 0 /\ Cardinality(Counted') = 0
    <2>1. Passed' = {} /\ Counted' = {}
      BY NoRequestIsRequest DEF WindowPasses, Passed, Counted
    <2> QED
      BY <2>1, FS_EmptySet
  <1>2. count' = 0 /\ uncounted' = 0 /\ mails' = 0 /\ stale' = {l \in Links : link[l] # "none"}
    BY DEF WindowPasses
  <1>3. UNCHANGED <<link, asker, mishaps, claims, entry, oauth, account, identities>>
    BY DEF WindowPasses, accountVars
  <1>4. SignInTypes' /\ LinksTell'
    BY <1>0, <1>2, <1>3 DEF SignInTypes, LinksTell
  <1> QED
    BY <1>0, <1>1, <1>2, <1>4, AskersFinite DEF SignInInv, LinksCounted

\* Every step of a sign-in.
LEMMA StepOfEntry ==
  ASSUME SignInInv, NEW c \in SignIns,
         \/ UseLink(c) \/ InvalidateOthers(c) \/ StartGoogle(c) \/ GoogleCallback(c)
         \/ ResolveKnown(c) \/ ResolveUnknown(c) \/ InsertUser(c) \/ CallIsLost(c)
         \/ \E l \in Links : OpenLink(c, l)
  PROVE  SignInInv'
  <1>0. SignInTypes /\ LinksTell /\ entry[c] \in Entries /\ c[1] \in Tabs
    BY DEF SignInInv, SignInTypes, SignIns
  <1>1. \E e \in Entries : entry' = [entry EXCEPT ![c] = e] /\ (e.pc = "using" => e.link \in Links /\ link[e.link] # "none")
    <2>1. ASSUME NEW pc \in {"invalidating", "resolving", "consent", "inserting"}, Enters(c, pc)
          PROVE  \E e \in Entries : entry' = [entry EXCEPT ![c] = e] /\ (e.pc = "using" => e.link \in Links /\ link[e.link] # "none")
      <3>1. PICK e : e = [entry[c] EXCEPT !.pc = pc]
        OBVIOUS
      <3>2. e \in Entries /\ e.pc = pc
        BY <1>0, <3>1 DEF Entries
      <3> QED
        BY <2>1, <3>1, <3>2 DEF Enters
    <2>2. ASSUME entry' = [entry EXCEPT ![c] = NoEntry]
          PROVE  \E e \in Entries : entry' = [entry EXCEPT ![c] = e] /\ (e.pc = "using" => e.link \in Links /\ link[e.link] # "none")
      BY <2>2, NoEntryIsEntry
    <2>3. ASSUME NEW l \in Links, OpenLink(c, l)
          PROVE  \E e \in Entries : entry' = [entry EXCEPT ![c] = e] /\ (e.pc = "using" => e.link \in Links /\ link[e.link] # "none")
      <3>1. PICK e : e = [pc |-> "using", link |-> l]
        OBVIOUS
      <3>2. e \in Entries /\ e.link \in Links
        BY <3>1 DEF Entries
      <3> QED
        BY <2>3, <3>1, <3>2 DEF OpenLink
    <2> QED
      BY <2>1, <2>2, <2>3 DEF UseLink, InvalidateOthers, StartGoogle, GoogleCallback, ResolveKnown,
         ResolveUnknown, InsertUser, CallIsLost, Fails, Leaves
  <1>2. /\ oauth' \in Tabs \union {NoTab} /\ account' \in {"none", "present"}
        /\ identities' \in SUBSET {"google", "email_link"}
        /\ UNCHANGED <<stale, askVars>>
    BY <1>0 DEF SignInTypes, UseLink, InvalidateOthers, StartGoogle, GoogleCallback, ResolveKnown,
       ResolveUnknown, InsertUser, CallIsLost, OpenLink, linkVars, accountVars, ProviderOf
  <1>3. /\ link' \in [Links -> {"none", "saved", "mailed", "used"}] /\ claims' \in [Links -> Nat]
        /\ \A l \in Links : /\ link'[l] = "none" <=> link[l] = "none"
                            /\ link[l] = "used" => link'[l] = "used"
        /\ \A l \in Links : \/ claims'[l] = claims[l]
                            \/ link[l] # "used" /\ link'[l] = "used" /\ claims'[l] = claims[l] + 1
    <2>1. CASE UseLink(c)
      <3>1. PICK l \in Links : l = entry[c].link /\ link[l] # "none"
        BY <1>0, <2>1 DEF UseLink, LinksTell
      <3>2. \/ UNCHANGED <<link, claims>>
            \/ /\ link[l] # "used" /\ link' = [link EXCEPT ![l] = "used"]
               /\ claims' = [claims EXCEPT ![l] = @ + 1]
        BY <2>1, <3>1 DEF UseLink
      <3> QED
        BY <1>0, <3>1, <3>2 DEF SignInTypes
    <2>2. CASE InvalidateOthers(c)
      <3>1. link' = [l \in Links |-> IF link[l] = "none" THEN "none" ELSE "used"] /\ claims' = claims
        BY <2>2 DEF InvalidateOthers
      <3> QED
        BY <1>0, <3>1 DEF SignInTypes
    <2>3. CASE UNCHANGED <<link, claims>>
      BY <1>0, <2>3 DEF SignInTypes
    <2> QED
      BY <2>1, <2>2, <2>3 DEF StartGoogle, GoogleCallback, ResolveKnown,
         ResolveUnknown, InsertUser, CallIsLost, OpenLink, linkVars
  <1> QED
    BY <1>1, <1>2, <1>3, EntryGoesOn

LEMMA SignInInit == InitSignIn => SignInInv
  <1> SUFFICES ASSUME InitSignIn PROVE SignInInv
    OBVIOUS
  <1>1. SignInTypes
    BY NoEntryIsEntry, NoRequestIsRequest, SignInAssumption DEF InitSignIn, SignInTypes
  <1>2. LinksTell
    <2>1. entry = [c \in SignIns |-> NoEntry] /\ claims = [l \in Links |-> 0]
      BY DEF InitSignIn
    <2>2. \A c \in SignIns : entry[c].pc = "none"
      BY <2>1, NoEntryIsEntry
    <2>3. \A l \in Links : claims[l] = 0
      BY <2>1
    <2>4. \A c \in SignIns : entry[c].pc # "using"
      BY <2>2
    <2>5. \A a \in Askers : asker[a].pc = "idle"
      BY NoRequestIsRequest DEF InitSignIn
    <2> QED
      BY <2>3, <2>4, <2>5 DEF LinksTell
  <1>3. Passed = {} /\ Counted = {} /\ count = 0 /\ uncounted = 0 /\ mails = 0
    BY NoRequestIsRequest DEF InitSignIn, Passed, Counted
  <1>4. MaxPerEmail \in Nat \ {0} /\ Cardinality(Askers) \in Nat
    BY SignInAssumption, AskersFinite
  <1>5. Cardinality(Passed) = 0 /\ Cardinality(Counted) = 0
    BY <1>3, FS_EmptySet
  <1> QED
    BY <1>1, <1>2, <1>3, <1>4, <1>5 DEF SignInInv, LinksCounted

LEMMA SignInStep ==
  ASSUME SignInInv, [NextSignIn]_signInVars
  PROVE  SignInInv'
  <1>1. CASE (SessionStep \/ UpdateUser) /\ UNCHANGED <<linkVars, entry, oauth, accountVars>>
    BY <1>1, SignInRests
  <1>2. CASE \E a \in Askers : Asks(a)
    BY <1>2, StepOfAsking
  <1>3. CASE WindowPasses
    BY <1>3, StepOfWindow
  <1>4. CASE \E c \in SignIns :
                \/ UseLink(c) \/ InvalidateOthers(c) \/ StartGoogle(c) \/ GoogleCallback(c)
                \/ ResolveKnown(c) \/ ResolveUnknown(c) \/ InsertUser(c)
                \/ \E l \in Links : OpenLink(c, l)
    BY <1>4, StepOfEntry
  <1>5. ASSUME NEW c \in Calls, CallIsLost(c) PROVE SignInInv'
    <2>1. CASE c \in SignIns
      BY <1>5, <2>1, StepOfEntry
    <2>2. CASE c \notin SignIns
      BY <1>5, <2>2, SignInRests DEF CallIsLost
    <2> QED
      BY <2>1, <2>2
  <1>6. CASE UNCHANGED signInVars
    BY <1>6, SignInRests DEF signInVars
  <1> QED
    BY <1>1, <1>2, <1>3, <1>4, <1>5, <1>6 DEF NextSignIn

LEMMA SignInInductive == SpecSignIn => []SignInInv
  BY SignInInit, SignInStep, PTL DEF SpecSignIn

\* A link signs in once, in however many tabs and however often it is opened: it is
\* claimed by the update that marks it used, and nothing makes a used link fresh.
THEOREM LinksOpenOnce == SpecSignIn => []LinkOpensOnce
  <1>1. SignInInv => LinkOpensOnce
    BY DEF SignInInv, LinksTell, LinkOpensOnce
  <1> QED
    BY <1>1, SignInInductive, PTL

\* However requests overlap and wherever they die, the mails of a window are bounded by
\* the limit, the requests that can be in flight and the increments Redis refused: a
\* mail goes out only after its request was counted or refused, and the last request
\* that passed the limit found room for itself.
THEOREM MailsAreBounded == SpecSignIn => []MailsBounded
  <1>1. ASSUME SignInInv PROVE MailsBounded
    <2>1. /\ Cardinality(Passed) \in Nat /\ Cardinality(Counted) \in Nat /\ Cardinality(Askers) \in Nat
          /\ count \in Nat /\ uncounted \in Nat /\ mails \in Nat /\ MaxPerEmail \in Nat
          /\ count + Cardinality(Passed) <= MaxPerEmail - 1 + Cardinality(Askers)
          /\ mails + Cardinality(Counted) <= count + uncounted
      BY <1>1, AskersFinite, SignInAssumption DEF SignInInv, SignInTypes, LinksCounted
    <2>2. count \in 0 .. MaxPerEmail + Cardinality(Askers) - 1
      BY <2>1
    <2>3. mails <= MaxPerEmail + Cardinality(Askers) - 1 + uncounted
      BY <2>1
    <2> QED
      BY <1>1, <2>2, <2>3 DEF MailsBounded, SignInOK, SignInInv, SignInTypes, Entries, AskerStates
  <1> QED
    BY <1>1, SignInInductive, PTL

\* Signing in keeps to the sessions: every step of it is a step of module Sessions or
\* leaves the sessions alone, so that all that is proved of sessions holds behind it.
THEOREM SignInKeepsToSessions == SpecSignIn => Spec
  <1>1. InitSignIn => Init
    BY DEF InitSignIn
  <1>2. ASSUME [NextSignIn]_signInVars PROVE [Next]_sessionVars
    <2>1. CASE SessionStep \/ UpdateUser
      BY <2>1 DEF Next
    <2>2. CASE UNCHANGED sessionVars
      BY <2>2
    <2>3. ASSUME NEW c \in SignIns, \/ SendSignIn(c) \/ SignedIn(c) \/ SignInFails(c)
          PROVE  Next
      BY <2>3 DEF Next, Calls
    <2>4. ASSUME NEW c \in Calls, LoseAnswer(c) PROVE Next
      BY <2>4 DEF Next
    <2>5. CASE \E a \in Askers : Asks(a)
      BY <2>2, <2>5 DEF Asks, CheckLimit, Checks, SaveLink, CountLink, MailLink, RequestDies
    <2>6. CASE WindowPasses
      BY <2>2, <2>6 DEF WindowPasses
    <2>7. ASSUME NEW c \in SignIns,
                 \/ UseLink(c) \/ InvalidateOthers(c) \/ StartGoogle(c) \/ GoogleCallback(c)
                 \/ ResolveKnown(c) \/ ResolveUnknown(c) \/ InsertUser(c)
                 \/ \E l \in Links : OpenLink(c, l)
          PROVE  [Next]_sessionVars
      BY <2>2, <2>3, <2>7 DEF UseLink, InvalidateOthers, StartGoogle, GoogleCallback, ResolveKnown,
         ResolveUnknown, InsertUser, OpenLink, Fails
    <2>8. ASSUME NEW c \in Calls, CallIsLost(c) PROVE [Next]_sessionVars
      BY <2>4, <2>8 DEF CallIsLost
    <2> QED
      BY <1>2, <2>1, <2>2, <2>5, <2>6, <2>7, <2>8 DEF NextSignIn, signInVars
  <1> QED
    BY <1>1, <1>2, PTL DEF SpecSignIn, Spec
=============================================================================
