-------------------------- MODULE SyncSession_proofs --------------------------
(***************************************************************************)
(* Proofs about SyncSession: its types, how long past its end a token may  *)
(* be called valid, for any lifetime, buffer and timeout, and that a       *)
(* device syncs with the key it showed.                                    *)
(***************************************************************************)
EXTENDS SyncSession, TLAPS

(* A client believes in a token no longer than two timeouts past its end:  *)
(* one to wait for the answer, one to read its body.                       *)
BeliefBounded(t) == t \in Token => t.expires <= t.until + 2 * REQUEST_TIMEOUT

(* Neither wait outlasts the timeout; a token whose body is being read is  *)
(* no older than the first of them.                                        *)
Waits(s) ==
    /\ s.since <= now
    /\ s.pc \in Waiting \cup Reading => now <= s.since + REQUEST_TIMEOUT
    /\ s.pc \in Reading => s.since + LIFETIME <= s.tokens.until + REQUEST_TIMEOUT

IInv ==
    /\ TypeOK
    /\ BeliefBounded(tokenFile)
    /\ \A p \in Process : BeliefBounded(proc[p].tokens) /\ Waits(proc[p])

Proc == [pc : Step, op : Command, tokens : Token \cup {None}, key : Key \cup {None},
         tries : 1 .. MAX_ATTEMPTS, refreshes : 1 .. MAX_REFRESHES, since : Time,
         linked : BOOLEAN]

(* What one process may become without the others' being disturbed.        *)
Good(s) ==
    /\ s \in Proc
    /\ s.pc \in {"refresh", "open", "fill"} \cup Reading => s.tokens # None
    /\ s.pc \in {"openKey", "fillKey", "chmodKey"} => s.key # None
    /\ BeliefBounded(s.tokens) /\ Waits(s)

(* The part of the invariant that is about processes.                      *)
ProcsGood == proc \in [Process -> Proc] /\ \A p \in Process : Good(proc[p])

(* The part that is not.                                                   *)
RestGood ==
    /\ now \in Time
    /\ tokenFile \in Token \cup {None, Torn} /\ keyFile \in Key \cup {None, Torn}
    /\ grants \in 0 .. MaxGrants /\ revoked \subseteq 1 .. grants
    /\ keys \in 0 .. MaxKeys /\ told \subseteq Key
    /\ commands \in 0 .. MaxCommands /\ crashes \in 0 .. MaxCrashes
    /\ overlapped \in BOOLEAN
    /\ BeliefBounded(tokenFile)

(* The invariant falls into the two parts.                                 *)
LEMMA Parts == IInv <=> RestGood /\ ProcsGood
  BY DEF IInv, TypeOK, RestGood, ProcsGood, Proc, Good

(* A process at rest is good at any time.                                  *)
LEMMA IdleGood == ASSUME now \in Time PROVE Good(Idle)
  BY SessionAssumption, NoneAssumption
     DEF Good, Waits, Idle, Proc, Step, Command, Time, Waiting, Reading, BeliefBounded,
         Token

(* One process moves to a good state: all are good.                        *)
LEMMA MoveGood ==
  ASSUME ProcsGood, UNCHANGED now, NEW p \in Process, NEW s, Good(s), Move(p, s)
  PROVE  ProcsGood'
  <1>1. proc' \in [Process -> Proc]  BY DEF ProcsGood, Move, Good
  <1>2. ASSUME NEW q \in Process PROVE Good(proc[q])'
    <2>1. proc'[q] = IF q = p THEN s ELSE proc[q]  BY DEF ProcsGood, Move
    <2>2. Good(proc'[q])  BY <2>1 DEF ProcsGood
    <2>3. QED  BY <2>2 DEF Good, Waits, BeliefBounded, Waiting, Reading, Proc, Token, Time
  <1>3. QED  BY <1>1, <1>2 DEF ProcsGood

(* The new end of a process that leaves everything else alone.             *)
LEMMA EndGood == ASSUME IInv, NEW p \in Process, End(p), UNCHANGED now PROVE ProcsGood'
  BY Parts, IdleGood, MoveGood DEF End, RestGood

(* Moving on keeps what a process holds.                                   *)
LEMMA GotoGood ==
  ASSUME IInv, NEW p \in Process, NEW pc \in Step \ (Waiting \cup Reading),
         Goto(p, pc), UNCHANGED now,
         pc \in {"open", "fill"} => proc[p].tokens # None,
         pc \in {"openKey", "fillKey", "chmodKey"} => proc[p].key # None
  PROVE  ProcsGood'
  <1> DEFINE s == [proc[p] EXCEPT !.pc = pc]
  <1>1. Good(s)  BY Parts DEF ProcsGood, Good, Waits, Proc, Waiting, Reading
  <1>2. QED  BY <1>1, Parts, MoveGood DEF Goto

(* A request is sent now.                                                  *)
LEMMA RequestGood ==
  ASSUME IInv, NEW p \in Process, NEW t \in Token \cup {None}, NEW pc \in Waiting,
         Request(p, pc, t), UNCHANGED now, BeliefBounded(t), pc = "refresh" => t # None
  PROVE  ProcsGood'
  <1> DEFINE s == [proc[p] EXCEPT !.pc = pc, !.tokens = t, !.tries = 1, !.since = now]
  <1>1. proc[p] \in Proc /\ now \in Time /\ now \in Nat /\ REQUEST_TIMEOUT \in Nat
    BY Parts, SessionAssumption DEF ProcsGood, RestGood, Time
  <1>2. 1 \in 1 .. MAX_ATTEMPTS /\ pc \in Step  BY SessionAssumption DEF Waiting, Step
  <1>3. s \in Proc  BY <1>1, <1>2 DEF Proc
  <1>4. s.pc = pc /\ s.tokens = t /\ s.since = now  BY <1>1 DEF Proc
  <1> HIDE DEF s
  <1>5. Good(s)  BY <1>1, <1>3, <1>4 DEF Good, Waits, Waiting, Reading
  <1>6. QED  BY <1>5, Parts, MoveGood DEF Request, s

(* An answer comes within the time of its request.                         *)
LEMMA GrantedGood ==
  ASSUME IInv, NEW p \in Process, proc[p].pc \in Waiting, UNCHANGED now,
         NEW grant \in Grant, NEW renewable \in BOOLEAN, NEW pc \in Reading,
         Granted(p, pc, grant, renewable)
  PROVE  /\ ProcsGood'
         /\ \E s \in Proc : s.pc = pc /\ Move(p, s)
  <1>1. PICK given \in proc[p].since .. now :
          Move(p, [proc[p] EXCEPT !.pc = pc, !.since = now,
                     !.tokens = [grant |-> grant, until |-> given + LIFETIME,
                                 expires |-> 0, renewable |-> renewable]])
    BY DEF Granted
  <1> DEFINE u == [grant |-> grant, until |-> given + LIFETIME,
                   expires |-> 0, renewable |-> renewable]
             s == [proc[p] EXCEPT !.pc = pc, !.since = now, !.tokens = u]
  <1>2. /\ proc[p] \in Proc /\ proc[p].since \in Nat /\ now \in Nat /\ given \in Nat
        /\ now <= given + REQUEST_TIMEOUT /\ now \in Time
    BY Parts, SessionAssumption DEF ProcsGood, RestGood, Good, Waits, Proc, Time
  <1>3. u \in Token /\ BeliefBounded(u) /\ u.until = given + LIFETIME
    BY <1>2, SessionAssumption DEF Token, BeliefBounded
  <1>4. u # None  BY <1>3, NoneAssumption
  <1> HIDE DEF u
  <1>5. s \in Proc /\ s.pc = pc /\ s.tokens = u /\ s.since = now
    BY <1>2, <1>3 DEF Proc, Step, Reading
  <1> HIDE DEF s
  <1>6. Waits(s)
    BY <1>2, <1>3, <1>5, SessionAssumption DEF Waits, Waiting, Reading
  <1>7. Good(s)  BY <1>3, <1>4, <1>5, <1>6 DEF Good, Reading
  <1>8. Move(p, s)  BY <1>1 DEF s, u
  <1>9. QED  BY <1>5, <1>7, <1>8, Parts, MoveGood

(* A body is read within the time after its answer.                        *)
LEMMA ReceiveGood ==
  ASSUME IInv, NEW p \in Process, Receive(p)
  PROVE  /\ ProcsGood'
         /\ \E s \in Proc : s.pc = "open" /\ Move(p, s)
  <1> DEFINE t == proc[p].tokens
             u == [t EXCEPT !.expires = now + LIFETIME]
             s == [Idle EXCEPT !.pc = "open", !.op = proc[p].op, !.tokens = u]
  <1>1. /\ proc[p] \in Proc /\ proc[p].since \in Nat /\ now \in Nat
        /\ t \in Token /\ t.until \in Nat
    BY Parts DEF Receive, ProcsGood, RestGood, Good, Proc, Time, Token
  <1>2. /\ now <= proc[p].since + REQUEST_TIMEOUT
        /\ proc[p].since + LIFETIME <= t.until + REQUEST_TIMEOUT
    BY Parts DEF Receive, ProcsGood, Good, Waits
  <1>3. u \in Token /\ u.expires = now + LIFETIME /\ u.until = t.until
    BY <1>1, SessionAssumption DEF Token
  <1>4. BeliefBounded(u)
    BY <1>1, <1>2, <1>3, SessionAssumption DEF BeliefBounded
  <1>5. u # None  BY <1>3, NoneAssumption
  <1>6. Idle \in Proc /\ proc[p].op \in Command /\ Idle.since = 0
    BY <1>1, Parts, IdleGood DEF RestGood, Good, Proc, Idle
  <1>7. Move(p, s)  BY DEF Receive
  <1> HIDE DEF u
  <1>8. s \in Proc /\ s.pc = "open" /\ s.tokens = u /\ s.since = 0
    BY <1>3, <1>6 DEF Proc, Step
  <1> HIDE DEF s
  <1>9. Good(s)
    BY <1>1, <1>4, <1>5, <1>8 DEF Good, Waits, Waiting, Reading
  <1>10. UNCHANGED now  BY DEF Receive
  <1>11. QED  BY <1>7, <1>8, <1>9, <1>10, Parts, MoveGood

(* A request is sent once more.                                            *)
LEMMA AgainGood ==
  ASSUME IInv, NEW p \in Process, UNCHANGED now, NEW pc \in Waiting,
         pc = "refresh" => proc[p].tokens # None,
         NEW tries \in 1 .. MAX_ATTEMPTS, NEW refreshes \in 1 .. MAX_REFRESHES,
         Move(p, [proc[p] EXCEPT !.pc = pc, !.refreshes = refreshes, !.tries = tries,
                                 !.since = now])
  PROVE  ProcsGood'
  <1> DEFINE s == [proc[p] EXCEPT !.pc = pc, !.refreshes = refreshes, !.tries = tries,
                                  !.since = now]
  <1>1. /\ proc[p] \in Proc /\ now \in Time /\ now \in Nat /\ REQUEST_TIMEOUT \in Nat
        /\ BeliefBounded(proc[p].tokens)
    BY Parts, SessionAssumption DEF ProcsGood, RestGood, Time, Good
  <1>2. s \in Proc /\ s.pc = pc /\ s.tokens = proc[p].tokens /\ s.since = now
    BY <1>1 DEF Proc, Waiting, Step
  <1> HIDE DEF s
  <1>3. Good(s)  BY <1>1, <1>2 DEF Good, Waits, Waiting, Reading
  <1>4. QED  BY <1>3, Parts, MoveGood DEF s

(* A fresh process at a step that waits for no answer and holds nothing.   *)
LEMMA FreshGood ==
  ASSUME IInv, NEW p \in Process, UNCHANGED now, NEW op \in Command,
         NEW pc \in {"load", "login", "remove", "key"},
         Move(p, [Idle EXCEPT !.op = op, !.pc = pc])
  PROVE  ProcsGood'
  <1> DEFINE s == [Idle EXCEPT !.op = op, !.pc = pc]
  <1>1. Good(Idle) /\ now \in Nat  BY Parts, IdleGood DEF RestGood, Time
  <1>2. /\ s \in Proc /\ s.pc = pc /\ s.tokens = Idle.tokens /\ s.since = Idle.since
    BY <1>1 DEF Good, Proc, Step
  <1> HIDE DEF s
  <1>3. Good(s)  BY <1>1, <1>2 DEF Good, Waits, Waiting, Reading
  <1>4. QED  BY <1>3, Parts, MoveGood DEF s

(* A key is made: it is no None.                                           *)
LEMMA MakeKeyGood ==
  ASSUME IInv, NEW p \in Process, MakeKey(p), UNCHANGED now
  PROVE  ProcsGood' /\ keys' \in 0 .. MaxKeys
  <1> DEFINE s == [proc[p] EXCEPT !.pc = "openKey", !.key = keys']
  <1>1. keys' \in Key /\ keys' # None /\ keys' \in 0 .. MaxKeys
    BY Parts, SessionAssumption, NoneAssumption DEF MakeKey, RestGood, Key
  <1>2. proc[p] \in Proc /\ Good(proc[p])  BY Parts DEF ProcsGood
  <1>3. /\ s \in Proc /\ s.pc = "openKey" /\ s.tokens = proc[p].tokens
        /\ s.since = proc[p].since /\ s.key = keys'
    BY <1>1, <1>2 DEF Proc, Step
  <1> HIDE DEF s
  <1>4. Good(s)  BY <1>1, <1>2, <1>3 DEF Good, Waits, Waiting, Reading
  <1>5. QED  BY <1>1, <1>4, Parts, MoveGood DEF MakeKey, s

LEMMA InitInv == Init => IInv
  <1> SUFFICES ASSUME Init PROVE IInv  OBVIOUS
  <1>1. now \in Time /\ now \in Nat  BY SessionAssumption DEF Init, Time
  <1>2. ProcsGood
    <2>1. \A p \in Process : proc[p] = Idle  BY DEF Init
    <2>2. Good(Idle)  BY <1>1, IdleGood
    <2>3. QED  BY <2>1, <2>2 DEF Init, ProcsGood, Good
  <1>3. RestGood
    <2>1. /\ tokenFile \in Token \cup {None} /\ BeliefBounded(tokenFile)
          /\ grants \in 0 .. MaxGrants
      <3>1. CASE tokenFile = None /\ grants = 0
        BY <3>1, SessionAssumption, NoneAssumption DEF BeliefBounded
      <3>2. CASE grants = 1 /\ tokenFile # None
        <4>1. PICK until \in {0, LIFETIME}, renewable \in BOOLEAN :
                tokenFile = [grant |-> 1, until |-> until, expires |-> until,
                             renewable |-> renewable]
          BY <3>2 DEF Init
        <4>2. until \in Nat /\ 1 \in Grant  BY SessionAssumption DEF Grant
        <4>3. tokenFile \in Token  BY <4>1, <4>2 DEF Token
        <4>4. BeliefBounded(tokenFile)
          BY <4>1, <4>2, SessionAssumption DEF BeliefBounded
        <4>5. QED  BY <3>2, <4>3, <4>4, SessionAssumption
      <3>3. grants = 0 => tokenFile = None  BY DEF Init
      <3>4. tokenFile = None => grants = 0
        <4> SUFFICES ASSUME grants = 1,
                            NEW until \in {0, LIFETIME}, NEW renewable \in BOOLEAN,
                            tokenFile = [grant |-> 1, until |-> until, expires |-> until,
                                         renewable |-> renewable]
                     PROVE  tokenFile # None
          BY DEF Init
        <4>1. until \in Nat /\ 1 \in Grant  BY SessionAssumption DEF Grant
        <4>2. tokenFile \in Token  BY <4>1 DEF Token
        <4>3. QED  BY <4>2, NoneAssumption
      <3>5. grants \in {0, 1}  BY DEF Init
      <3>6. QED  BY <3>1, <3>2, <3>3, <3>4, <3>5
    <2>2. keyFile \in Key \cup {None} /\ keys \in 0 .. MaxKeys /\ told \subseteq Key
      <3>1. (keyFile = None /\ keys = 0 /\ told = {}) \/ (keyFile = 1 /\ keys = 1 /\ told = {1})
        BY DEF Init
      <3>2. 1 \in Key  BY SessionAssumption DEF Key
      <3>3. QED  BY <3>1, <3>2, SessionAssumption DEF Key
    <2>3. commands \in 0 .. MaxCommands /\ crashes \in 0 .. MaxCrashes
      BY SessionAssumption DEF Init
    <2>4. revoked \subseteq 1 .. grants /\ overlapped \in BOOLEAN  BY DEF Init
    <2>5. QED  BY <1>1, <2>1, <2>2, <2>3, <2>4 DEF RestGood
  <1>4. QED  BY <1>2, <1>3, Parts

(* Each step keeps the invariant.                                          *)
LEMMA NextInv == IInv /\ [Next]_vars => IInv'
  <1> SUFFICES ASSUME IInv, [Next]_vars PROVE IInv'  OBVIOUS
  <1>p. RestGood /\ ProcsGood  BY Parts
  <1>s. SUFFICES RestGood' /\ ProcsGood'  BY Parts, PTL
  <1> USE SessionAssumption
  <1>0. CASE UNCHANGED vars
    BY <1>0, <1>p DEF vars, files, google, counts, past, RestGood, ProcsGood, Good,
                      Waits, BeliefBounded
  <1>1. ASSUME NEW p \in Process, Begin(p) PROVE RestGood' /\ ProcsGood'
    <2>1. RestGood'
      BY <1>1, <1>p DEF Begin, RestGood, BeliefBounded, files, google
    <2>2. PICK op \in Command, pc \in {"load", "login", "remove", "key"} :
            Move(p, [Idle EXCEPT !.op = op, !.pc = pc])
      BY <1>1 DEF Begin, Command
    <2>3. UNCHANGED now  BY <1>1 DEF Begin
    <2>4. QED  BY <2>1, <2>2, <2>3, FreshGood
  <1>2. ASSUME NEW p \in Process, LoadTokens(p) PROVE RestGood' /\ ProcsGood'
    <2>1. RestGood' /\ UNCHANGED now
      BY <1>2, <1>p DEF LoadTokens, RestGood, BeliefBounded, files, google, counts, past
    <2>2. CASE Goto(p, "login")
      BY <2>1, <2>2, GotoGood DEF Step, Waiting, Reading
    <2>3. CASE End(p)  BY <2>1, <2>3, EndGood
    <2>4. CASE tokenFile \in Token
               /\ Move(p, [proc[p] EXCEPT !.pc = "loadKey", !.tokens = tokenFile])
      <3> DEFINE s == [proc[p] EXCEPT !.pc = "loadKey", !.tokens = tokenFile]
      <3>1. proc[p] \in Proc /\ Good(proc[p])  BY <1>p DEF ProcsGood
      <3>2. s \in Proc /\ s.pc = "loadKey" /\ s.tokens = tokenFile /\ s.since = proc[p].since
        BY <2>4, <3>1 DEF Proc, Step
      <3> HIDE DEF s
      <3>3. Good(s)  BY <1>p, <3>1, <3>2 DEF Good, Waits, Waiting, Reading, RestGood
      <3>4. QED  BY <2>1, <2>4, <3>3, <1>p, MoveGood DEF s
    <2>5. CASE tokenFile \in Token /\ Request(p, "refresh", tokenFile)
      BY <2>1, <2>5, <1>p, NoneAssumption, RequestGood DEF Waiting, RestGood
    <2>6. QED  BY <1>2, <2>1, <2>2, <2>3, <2>4, <2>5 DEF LoadTokens
  <1>3. ASSUME NEW p \in Process, Refresh(p) PROVE RestGood' /\ ProcsGood'
    <2>1. RestGood' /\ UNCHANGED now
      BY <1>3, <1>p DEF Refresh, RestGood, BeliefBounded, files, google, counts, past
    <2>2. proc[p].tokens.grant \in Grant /\ proc[p].pc \in Waiting
      BY <1>3, <1>p DEF Refresh, ProcsGood, Good, Proc, Token, Waiting
    <2>3. QED  BY <1>3, <2>1, <2>2, GrantedGood DEF Refresh, Reading
  <1>4. ASSUME NEW p \in Process, Exchange(p) PROVE RestGood' /\ ProcsGood'
    <2>1. RestGood' /\ UNCHANGED now /\ grants' \in Grant
      BY <1>4, <1>p DEF Exchange, RestGood, BeliefBounded, files, counts, past, Grant
    <2>2. proc[p].pc \in Waiting  BY <1>4 DEF Exchange, Waiting
    <2>3. QED  BY <1>4, <2>1, <2>2, GrantedGood DEF Exchange, Reading
  <1>5. ASSUME NEW p \in Process, Resend(p) PROVE RestGood' /\ ProcsGood'
    <2>1. RestGood' /\ UNCHANGED now
      BY <1>5, <1>p DEF Resend, RestGood, BeliefBounded, files, google, counts, past
    <2>2. proc[p] \in Proc /\ (proc[p].pc = "refresh" => proc[p].tokens # None)
      BY <1>p DEF ProcsGood, Good
    <2>3. /\ proc[p].tries + 1 \in 1 .. MAX_ATTEMPTS
          /\ proc[p].refreshes \in 1 .. MAX_REFRESHES
      BY <1>5, <2>2 DEF Resend, Proc
    <2>4. [proc[p] EXCEPT !.tries = @ + 1, !.since = now]
            = [proc[p] EXCEPT !.pc = proc[p].pc, !.refreshes = proc[p].refreshes,
                              !.tries = proc[p].tries + 1, !.since = now]
      BY <2>2 DEF Proc
    <2>5. Move(p, [proc[p] EXCEPT !.pc = proc[p].pc, !.refreshes = proc[p].refreshes,
                                  !.tries = proc[p].tries + 1, !.since = now])
      BY <1>5, <2>4 DEF Resend
    <2>6. QED  BY <1>5, <2>1, <2>2, <2>3, <2>5, AgainGood DEF Resend
  <1>6. ASSUME NEW p \in Process, RefreshFails(p) PROVE RestGood' /\ ProcsGood'
    <2>1. RestGood' /\ UNCHANGED now
      BY <1>6, <1>p
         DEF RefreshFails, RestGood, BeliefBounded, files, google, counts, past
    <2>2. CASE Move(p, [Idle EXCEPT !.op = "sync", !.pc = "login"])
      BY <2>1, <2>2, FreshGood DEF Command
    <2>3. CASE proc[p].refreshes < MAX_REFRESHES
      <3>1. proc[p] \in Proc /\ proc[p].tokens # None
        BY <1>6, <1>p DEF RefreshFails, ProcsGood, Good, Reading
      <3>2. proc[p].refreshes + 1 \in 1 .. MAX_REFRESHES /\ 1 \in 1 .. MAX_ATTEMPTS
        BY <2>3, <3>1 DEF Proc
      <3>3. Move(p, [proc[p] EXCEPT !.pc = "refresh",
                                    !.refreshes = proc[p].refreshes + 1,
                                    !.tries = 1, !.since = now])
        BY <1>6, <2>3 DEF RefreshFails
      <3>4. QED  BY <2>1, <3>1, <3>2, <3>3, AgainGood DEF Waiting
    <2>4. QED  BY <1>6, <2>1, <2>2, <2>3 DEF RefreshFails
  <1>7. ASSUME NEW p \in Process, ExchangeFails(p) PROVE RestGood' /\ ProcsGood'
    <2>1. RestGood' /\ UNCHANGED now
      BY <1>7, <1>p
         DEF ExchangeFails, RestGood, BeliefBounded, files, google, counts, past
    <2>2. QED  BY <1>7, <2>1, EndGood DEF ExchangeFails
  <1>8. ASSUME NEW p \in Process, Callback(p) PROVE RestGood' /\ ProcsGood'
    <2>1. RestGood' /\ UNCHANGED now
      BY <1>8, <1>p DEF Callback, RestGood, BeliefBounded, files, google, counts, past
    <2>2. QED
      BY <1>8, <2>1, NoneAssumption, RequestGood DEF Callback, Waiting, BeliefBounded
  <1>9. ASSUME NEW p \in Process, NoCallback(p) PROVE RestGood' /\ ProcsGood'
    <2>1. RestGood' /\ UNCHANGED now
      BY <1>9, <1>p DEF NoCallback, RestGood, BeliefBounded, files, google, counts, past
    <2>2. QED  BY <1>9, <2>1, EndGood DEF NoCallback
  <1>10. ASSUME NEW p \in Process, OpenTokens(p) PROVE RestGood' /\ ProcsGood'
    <2>1. RestGood' /\ UNCHANGED now
      BY <1>10, <1>p, NoneAssumption
         DEF OpenTokens, RestGood, BeliefBounded, files, google, counts, past,
             ProcsGood, Good, Proc
    <2> DEFINE s == [proc[p] EXCEPT !.pc = "fill", !.linked = TRUE]
    <2>2. proc[p] \in Proc /\ Good(proc[p])  BY <1>p DEF ProcsGood
    <2>3. /\ s \in Proc /\ s.pc = "fill" /\ s.tokens = proc[p].tokens
          /\ s.since = proc[p].since
      BY <1>p, <2>2, NoneAssumption DEF Proc, Step, RestGood
    <2>4. Move(p, s)  BY <1>10 DEF OpenTokens
    <2> HIDE DEF s
    <2>5. Good(s)  BY <1>10, <2>2, <2>3 DEF Good, Waits, Waiting, Reading, OpenTokens
    <2>6. QED  BY <2>1, <2>4, <2>5, <1>p, MoveGood
  <1>11. ASSUME NEW p \in Process, FillTokens(p) PROVE RestGood' /\ ProcsGood'
    <2>1. RestGood' /\ UNCHANGED now
      BY <1>11, <1>p, NoneAssumption
         DEF FillTokens, RestGood, BeliefBounded, files, google, counts, past,
             ProcsGood, Good, Proc
    <2> DEFINE s == [proc[p] EXCEPT !.pc = "chmod", !.linked = TRUE]
    <2>2. proc[p] \in Proc /\ Good(proc[p])  BY <1>p DEF ProcsGood
    <2>3. /\ s \in Proc /\ s.pc = "chmod" /\ s.tokens = proc[p].tokens
          /\ s.since = proc[p].since
      BY <1>p, <2>2, NoneAssumption DEF Proc, Step, RestGood
    <2>4. Move(p, s)  BY <1>11 DEF FillTokens
    <2> HIDE DEF s
    <2>5. Good(s)  BY <1>11, <2>2, <2>3 DEF Good, Waits, Waiting, Reading, FillTokens
    <2>6. QED  BY <2>1, <2>4, <2>5, <1>p, MoveGood
  <1>12. ASSUME NEW p \in Process, ChmodTokens(p) PROVE RestGood' /\ ProcsGood'
    <2>1. RestGood' /\ UNCHANGED now
      BY <1>12, <1>p
         DEF ChmodTokens, RestGood, BeliefBounded, files, google, counts, past
    <2>2. CASE Goto(p, "loadKey")  BY <2>1, <2>2, GotoGood DEF Step, Waiting, Reading
    <2>3. CASE End(p)  BY <2>1, <2>3, EndGood
    <2>4. QED  BY <1>12, <2>1, <2>2, <2>3 DEF ChmodTokens
  <1>13. ASSUME NEW p \in Process, Logout(p) PROVE RestGood' /\ ProcsGood'
    <2>1. RestGood' /\ UNCHANGED now
      BY <1>13, <1>p, NoneAssumption
         DEF Logout, RestGood, BeliefBounded, files, google, counts, past
    <2>2. ASSUME NEW q \in Process PROVE proc'[q] \in Proc /\ Good(proc'[q])
      <3>1. CASE q = p  BY <1>13, <1>p, <3>1, IdleGood DEF Logout, RestGood, Good
      <3>2. CASE q # p
        <4> DEFINE s == [proc[q] EXCEPT !.linked = (proc[q].pc # "fill")]
        <4>1. proc[q] \in Proc /\ Good(proc[q])  BY <1>p DEF ProcsGood
        <4>2. (proc[q].pc # "fill") \in BOOLEAN  OBVIOUS
        <4>3. /\ s \in Proc /\ s.pc = proc[q].pc /\ s.tokens = proc[q].tokens
              /\ s.since = proc[q].since /\ s.key = proc[q].key
          BY <4>1, <4>2 DEF Proc
        <4>4. proc'[q] = s  BY <1>13, <3>2 DEF Logout
        <4> HIDE DEF s
        <4>5. QED  BY <4>1, <4>3, <4>4 DEF Good, Waits
      <3>3. QED  BY <3>1, <3>2
    <2>3. proc' = [q \in Process |-> proc'[q]]  BY <1>13 DEF Logout
    <2>4. proc' \in [Process -> Proc]  BY <2>2, <2>3
    <2>5. \A q \in Process : Good(proc[q])'
      BY <2>1, <2>2 DEF Good, Waits, BeliefBounded, Waiting, Reading, Proc, Token, Time
    <2>6. QED  BY <2>1, <2>4, <2>5 DEF ProcsGood
  <1>14. ASSUME NEW p \in Process, LoadKey(p) PROVE RestGood' /\ ProcsGood'
    <2>1. RestGood' /\ UNCHANGED now
      BY <1>14, <1>p DEF LoadKey, RestGood, BeliefBounded, files, google, counts, past
    <2> DEFINE k == IF keyFile \in Key THEN keyFile ELSE None
               s == [proc[p] EXCEPT !.pc = "use", !.key = k]
    <2>2. proc[p] \in Proc /\ Good(proc[p]) /\ k \in Key \cup {None}
      BY <1>p DEF ProcsGood
    <2> HIDE DEF k
    <2>3. s \in Proc /\ s.pc = "use" /\ s.tokens = proc[p].tokens /\ s.since = proc[p].since
      BY <2>2 DEF Proc, Step
    <2>4. Move(p, s)  BY <1>14 DEF LoadKey, k
    <2> HIDE DEF s
    <2>5. Good(s)  BY <2>2, <2>3 DEF Good, Waits, Waiting, Reading
    <2>6. QED  BY <2>1, <2>4, <2>5, <1>p, MoveGood
  <1>15. ASSUME NEW p \in Process, Use(p) PROVE RestGood' /\ ProcsGood'
    <2>1. RestGood' /\ UNCHANGED now
      BY <1>15, <1>p DEF Use, RestGood, BeliefBounded, files, google, counts, past
    <2>2. QED  BY <1>15, <2>1, EndGood DEF Use
  <1>16. ASSUME NEW p \in Process, ShowKey(p) PROVE RestGood' /\ ProcsGood'
    <2>1. CASE MakeKey(p) /\ told' = told
      BY <1>16, <2>1, <1>p, MakeKeyGood
         DEF ShowKey, RestGood, BeliefBounded, files, google, counts, past
    <2>2. CASE End(p) /\ UNCHANGED keys /\ told' = told \cup ({keyFile} \cap Key)
      BY <1>16, <2>2, <1>p, EndGood
         DEF ShowKey, RestGood, BeliefBounded, files, google, counts, past
    <2>3. QED  BY <1>16, <2>1, <2>2 DEF ShowKey
  <1>17. ASSUME NEW p \in Process, SetKey(p) PROVE RestGood' /\ ProcsGood'
    BY <1>17, <1>p, MakeKeyGood
       DEF SetKey, RestGood, BeliefBounded, files, google, counts, past
  <1>18. ASSUME NEW p \in Process, OpenKey(p) PROVE RestGood' /\ ProcsGood'
    <2>1. RestGood' /\ UNCHANGED now
      BY <1>18, <1>p DEF OpenKey, RestGood, BeliefBounded, files, google, counts, past
    <2>2. proc[p].key # None  BY <1>18, <1>p DEF OpenKey, ProcsGood, Good
    <2>3. QED  BY <1>18, <2>1, <2>2, GotoGood DEF OpenKey, Step, Waiting, Reading
  <1>19. ASSUME NEW p \in Process, FillKey(p) PROVE RestGood' /\ ProcsGood'
    <2>1. proc[p].key \in Key  BY <1>19, <1>p DEF FillKey, ProcsGood, Good, Proc
    <2>2. RestGood' /\ UNCHANGED now
      BY <1>19, <1>p, <2>1
         DEF FillKey, RestGood, BeliefBounded, files, google, counts, past
    <2>3. proc[p].key # None  BY <2>1, NoneAssumption DEF Key
    <2>4. QED  BY <1>19, <2>2, <2>3, GotoGood DEF FillKey, Step, Waiting, Reading
  <1>20. ASSUME NEW p \in Process, ChmodKey(p) PROVE RestGood' /\ ProcsGood'
    <2>1. proc[p].key \in Key  BY <1>20, <1>p DEF ChmodKey, ProcsGood, Good, Proc
    <2>2. RestGood' /\ UNCHANGED now
      BY <1>20, <1>p, <2>1
         DEF ChmodKey, RestGood, BeliefBounded, files, google, counts, past
    <2>3. QED  BY <1>20, <2>2, EndGood DEF ChmodKey
  <1>21. CASE Tick
    <2>1. RestGood'
      BY <1>21, <1>p
         DEF Tick, Time, RestGood, BeliefBounded, files, google, counts, past
    <2>2. ASSUME NEW p \in Process PROVE Good(proc[p])'
      <3>1. proc'[p] = proc[p]  BY <1>21 DEF Tick
      <3>2. proc[p] \in Proc /\ Good(proc[p]) /\ proc[p].since \in Nat /\ now \in Nat
        BY <1>p DEF ProcsGood, Proc, Time, RestGood
      <3>3. proc[p].pc \in Waiting \cup Reading => now < proc[p].since + REQUEST_TIMEOUT
        BY <1>21 DEF Tick
      <3>4. now' = now + 1  BY <1>21 DEF Tick
      <3>5. QED  BY <3>1, <3>2, <3>3, <3>4 DEF Good, Waits, BeliefBounded
    <2>3. QED  BY <1>21, <1>p, <2>1, <2>2 DEF Tick, ProcsGood
  <1>22. CASE Revoke
    BY <1>22, <1>p
       DEF Revoke, ProcsGood, Good, Waits, RestGood, BeliefBounded, files, google,
           counts, past
  <1>23. ASSUME NEW p \in Process, Crash(p) PROVE RestGood' /\ ProcsGood'
    <2>1. RestGood' /\ UNCHANGED now
      BY <1>23, <1>p DEF Crash, RestGood, BeliefBounded, files, google, counts, past
    <2>2. QED  BY <1>23, <2>1, EndGood DEF Crash
  <1>24. ASSUME NEW p \in Process, Receive(p) PROVE RestGood' /\ ProcsGood'
    <2>1. RestGood'
      BY <1>24, <1>p DEF Receive, RestGood, BeliefBounded, files, google, counts, past
    <2>2. QED  BY <1>24, <2>1, ReceiveGood
  <1>25. QED
    BY <1>0, <1>1, <1>2, <1>3, <1>4, <1>5, <1>6, <1>7, <1>8, <1>9, <1>10, <1>11, <1>12,
       <1>13, <1>14, <1>15, <1>16, <1>17, <1>18, <1>19, <1>20, <1>21, <1>22, <1>23, <1>24
       DEF Next, Run

-----------------------------------------------------------------------------
(* Who rewrites the key file has a key to tell the user of.                *)
Writing == {"openKey", "fillKey", "chmodKey"}

(* `lk sync key` makes a key only when the user was told none; a key that  *)
(* is in the file, or was read from it, is the one the user was told.      *)
KeyInv(p) ==
    /\ proc[p].pc \in Writing /\ proc[p].op # "setKey" => told = {}
    /\ proc[p].pc = "chmodKey" => keyFile = proc[p].key
    /\ proc[p].pc = "use" => told \subseteq {proc[p].key}

KeyGood ==
    ~overlapped /\ crashes = 0 =>
        /\ \A p, q \in Process : proc[p].pc # "idle" /\ proc[q].pc # "idle" => p = q
        /\ \A p \in Process : KeyInv(p)
        /\ (\A p \in Process : proc[p].pc \notin Writing) => told \subseteq {keyFile}

(* The only command that runs makes a step.                                *)
LEMMA KeyMove ==
  ASSUME NEW p \in Process, \A q \in Process \ {p} : proc'[q].pc = "idle", KeyInv(p)',
         proc'[p].pc \notin Writing => told' \subseteq {keyFile'}
  PROVE  KeyGood'
  <1>1. ASSUME NEW q \in Process PROVE KeyInv(q)'
    BY DEF KeyInv, Writing
  <1>2. QED  BY <1>1 DEF KeyGood, Writing

(* What a step of one command does to the processes.                       *)
LEMMA Moved ==
  ASSUME IInv, NEW p \in Process, NEW s \in Proc, Move(p, s)
  PROVE  proc'[p] = s /\ \A q \in Process \ {p} : proc'[q] = proc[q]
  BY Parts DEF ProcsGood, Move

LEMMA WentTo ==
  ASSUME IInv, NEW p \in Process, NEW pc, Goto(p, pc)
  PROVE  proc'[p].pc = pc /\ \A q \in Process \ {p} : proc'[q] = proc[q]
  BY Parts DEF ProcsGood, Proc, Goto, Move

LEMMA Ended ==
  ASSUME IInv, NEW p \in Process, End(p)
  PROVE  proc'[p].pc = "idle" /\ \A q \in Process \ {p} : proc'[q] = proc[q]
  BY Parts DEF ProcsGood, End, Move, Idle

(* The steps that have nothing to do with the key.                         *)
Elsewhere(p) ==
    \/ LoadTokens(p) \/ Refresh(p) \/ Exchange(p) \/ Receive(p) \/ Resend(p)
    \/ RefreshFails(p) \/ ExchangeFails(p) \/ Callback(p) \/ NoCallback(p)
    \/ OpenTokens(p) \/ FillTokens(p) \/ ChmodTokens(p) \/ Logout(p) \/ Use(p)

LEMMA ElsewhereFrame ==
  ASSUME IInv, NEW p \in Process, Elsewhere(p)
  PROVE  /\ UNCHANGED <<keyFile, told>>
         /\ proc[p].pc \notin Writing \cup {"idle"}
         /\ proc'[p].pc \notin Writing \cup {"use"}
         /\ \A q \in Process \ {p} : proc'[q].pc = proc[q].pc
  <1>p. proc \in [Process -> Proc] /\ proc[p] \in Proc /\ Idle.pc = "idle"
    BY Parts DEF ProcsGood, Idle
  <1>1. UNCHANGED <<keyFile, told>> /\ proc[p].pc \notin Writing \cup {"idle"}
    BY DEF Elsewhere, Writing, LoadTokens, Refresh, Exchange, Receive, Resend, RefreshFails,
           ExchangeFails, Callback, NoCallback, OpenTokens, FillTokens, ChmodTokens,
           Logout, Use, files, past, Waiting, Reading
  <1>2. CASE LoadTokens(p)
    <2>1. CASE Goto(p, "login")  BY <1>1, <2>1, WentTo DEF Writing
    <2>2. CASE End(p)  BY <1>1, <2>2, Ended DEF Writing
    <2>3. CASE Move(p, [proc[p] EXCEPT !.pc = "loadKey", !.tokens = tokenFile])
      BY <1>1, <1>p, <2>3 DEF Move, Proc, Writing
    <2>4. CASE Request(p, "refresh", tokenFile)
      BY <1>1, <1>p, <2>4 DEF Request, Move, Proc, Writing
    <2>5. QED  BY <1>2, <2>1, <2>2, <2>3, <2>4 DEF LoadTokens
  <1>3. CASE Refresh(p) \/ Exchange(p) \/ Receive(p)
    <2>1. CASE Refresh(p)
      <3>1. proc[p].tokens.grant \in Grant /\ proc[p].pc \in Waiting
        BY <2>1, Parts DEF Refresh, ProcsGood, Good, Proc, Token, Waiting
      <3>2. PICK s \in Proc : s.pc = "refreshBody" /\ Move(p, s)
        BY <2>1, <3>1, GrantedGood DEF Refresh, Reading
      <3>3. QED  BY <1>1, <3>2, Moved DEF Writing
    <2>2. CASE Exchange(p)
      <3>1. grants' \in Grant /\ proc[p].pc \in Waiting
        BY <2>2, Parts, SessionAssumption DEF Exchange, RestGood, Grant, Waiting
      <3>2. PICK s \in Proc : s.pc = "exchangeBody" /\ Move(p, s)
        BY <2>2, <3>1, GrantedGood DEF Exchange, Reading
      <3>3. QED  BY <1>1, <3>2, Moved DEF Writing
    <2>3. CASE Receive(p)
      <3>1. PICK s \in Proc : s.pc = "open" /\ Move(p, s)  BY <2>3, ReceiveGood
      <3>2. QED  BY <1>1, <3>1, Moved DEF Writing
    <2>4. QED  BY <1>3, <2>1, <2>2, <2>3
  <1>4. CASE Resend(p)
    BY <1>1, <1>4, <1>p DEF Resend, Move, Proc, Writing, Waiting
  <1>5. CASE RefreshFails(p)
    <2>1. [Idle EXCEPT !.op = "sync", !.pc = "login"].pc = "login"  BY DEF Idle
    <2>2. CASE Move(p, [Idle EXCEPT !.op = "sync", !.pc = "login"])
      BY <1>1, <1>p, <2>1, <2>2 DEF Move, Writing
    <2>3. CASE Move(p, [proc[p] EXCEPT !.pc = "refresh", !.refreshes = @ + 1,
                                       !.tries = 1, !.since = now])
      BY <1>1, <1>5, <1>p, <2>3 DEF RefreshFails, Move, Proc, Writing
    <2>4. QED  BY <1>5, <2>2, <2>3 DEF RefreshFails
  <1>6. CASE ExchangeFails(p) \/ NoCallback(p) \/ Use(p)
    BY <1>1, <1>6, <1>p DEF ExchangeFails, NoCallback, Use, End, Move, Writing
  <1>7. CASE Callback(p)
    BY <1>1, <1>7, <1>p DEF Callback, Request, Move, Proc, Writing
  <1>8. CASE OpenTokens(p) \/ FillTokens(p) \/ ChmodTokens(p)
    <2>1. CASE \E pc \in {"fill", "chmod"} :
                  Move(p, [proc[p] EXCEPT !.pc = pc, !.linked = TRUE])
      BY <1>1, <1>p, <2>1 DEF Move, Proc, Writing
    <2>2. CASE Goto(p, "loadKey")  BY <1>1, <2>2, WentTo DEF Writing
    <2>3. CASE End(p)  BY <1>1, <2>3, Ended DEF Writing
    <2>4. QED  BY <1>8, <2>1, <2>2, <2>3 DEF OpenTokens, FillTokens, ChmodTokens
  <1>9. CASE Logout(p)
    BY <1>1, <1>9, <1>p DEF Logout, Proc, Writing
  <1>10. QED
    BY <1>1, <1>2, <1>3, <1>4, <1>5, <1>6, <1>7, <1>8, <1>9 DEF Elsewhere

(* Unless commands overlap or die, each leaves the key file to the next as *)
(* it told the user.                                                       *)
LEMMA NextKey == IInv /\ KeyGood /\ [Next]_vars => KeyGood'
  <1> SUFFICES ASSUME IInv, KeyGood, [Next]_vars, ~overlapped', crashes' = 0
               PROVE  KeyGood'
    BY DEF KeyGood
  <1>p. RestGood /\ ProcsGood  BY Parts
  <1>a. ~overlapped /\ crashes = 0
    <2>1. crashes \in Nat /\ overlapped \in BOOLEAN
      BY <1>p, SessionAssumption DEF RestGood
    <2>2. ASSUME NEW p \in Process, Run(p) PROVE UNCHANGED <<overlapped, crashes>>
      <3>1. CASE Elsewhere(p)
        BY <3>1 DEF Elsewhere, LoadTokens, Refresh, Exchange, Receive, Resend, RefreshFails,
               ExchangeFails, Callback, NoCallback, OpenTokens, FillTokens, ChmodTokens,
               Logout, Use, counts, past
      <3>2. CASE \/ LoadKey(p) \/ ShowKey(p) \/ SetKey(p) \/ OpenKey(p) \/ FillKey(p)
                 \/ ChmodKey(p)
        BY <3>2 DEF LoadKey, ShowKey, SetKey, OpenKey, FillKey, ChmodKey, counts, past
      <3>3. QED  BY <2>2, <3>1, <3>2 DEF Run, Elsewhere
    <2>3. ASSUME NEW p \in Process, Crash(p) PROVE FALSE  BY <2>1, <2>3 DEF Crash
    <2>4. ASSUME NEW p \in Process, Begin(p) PROVE ~overlapped /\ crashes = 0
      BY <2>4 DEF Begin
    <2>5. CASE Tick \/ Revoke \/ UNCHANGED vars
      BY <2>5 DEF Tick, Revoke, vars, counts, past
    <2>6. QED  BY <2>2, <2>3, <2>4, <2>5 DEF Next
  <1>b. /\ \A p, q \in Process : proc[p].pc # "idle" /\ proc[q].pc # "idle" => p = q
        /\ \A p \in Process : KeyInv(p)
        /\ (\A p \in Process : proc[p].pc \notin Writing) => told \subseteq {keyFile}
    BY <1>a DEF KeyGood
  <1>c. ASSUME NEW p \in Process, proc[p].pc # "idle", proc[p].pc \notin Writing
        PROVE  told \subseteq {keyFile}
    BY <1>b, <1>c DEF Writing
  <1>1. ASSUME NEW p \in Process, Begin(p) PROVE KeyGood'
    <2>1. UNCHANGED <<keyFile, told>> /\ \A q \in Process : proc[q].pc = "idle"
      BY <1>1, <1>p DEF Begin, files, RestGood
    <2>2. PICK op \in Command, pc \in {"load", "login", "remove", "key"} :
            Move(p, [Idle EXCEPT !.op = op, !.pc = pc])
      BY <1>1 DEF Begin, Command
    <2>3. [Idle EXCEPT !.op = op, !.pc = pc].pc = pc  BY DEF Idle
    <2>4. proc'[p].pc = pc /\ \A q \in Process \ {p} : proc'[q] = proc[q]
      BY <1>p, <2>2, <2>3 DEF Move, ProcsGood
    <2>5. told' \subseteq {keyFile'}  BY <1>b, <2>1 DEF Writing
    <2>6. KeyInv(p)'  BY <2>4 DEF KeyInv, Writing
    <2>7. QED  BY <2>1, <2>4, <2>5, <2>6, KeyMove
  <1>2. ASSUME NEW p \in Process, Elsewhere(p) PROVE KeyGood'
    <2>1. told' \subseteq {keyFile'}  BY <1>2, <1>c, ElsewhereFrame
    <2>2. KeyInv(p)'  BY <1>2, ElsewhereFrame DEF KeyInv, Writing
    <2>3. \A q \in Process \ {p} : proc'[q].pc = "idle"
      BY <1>2, <1>b, ElsewhereFrame
    <2>4. QED  BY <2>1, <2>2, <2>3, KeyMove
  <1>3. ASSUME NEW p \in Process, LoadKey(p) PROVE KeyGood'
    <2> DEFINE k == IF keyFile \in Key THEN keyFile ELSE None
    <2>1. /\ UNCHANGED <<keyFile, told>> /\ proc[p].pc = "loadKey"
          /\ Move(p, [proc[p] EXCEPT !.pc = "use", !.key = k])
      BY <1>3 DEF LoadKey, files, past
    <2>2. /\ proc'[p].pc = "use" /\ proc'[p].key = k
          /\ \A q \in Process \ {p} : proc'[q] = proc[q]
      BY <1>p, <2>1 DEF Move, ProcsGood, Proc
    <2>3. told \subseteq {keyFile} /\ told \subseteq Key
      BY <1>c, <1>p, <2>1 DEF Writing, RestGood
    <2>4. told \subseteq {k}  BY <2>3
    <2>5. KeyInv(p)'  BY <2>1, <2>2, <2>4 DEF KeyInv, Writing
    <2>6. \A q \in Process \ {p} : proc'[q].pc = "idle"  BY <1>b, <2>1, <2>2
    <2>7. QED  BY <2>1, <2>3, <2>5, <2>6, KeyMove
  <1>4. ASSUME NEW p \in Process, ShowKey(p) \/ SetKey(p) PROVE KeyGood'
    <2>1. proc[p].pc = "key" /\ told \subseteq {keyFile} /\ told \subseteq Key
      BY <1>4, <1>c, <1>p DEF ShowKey, SetKey, Writing, RestGood
    <2>2. CASE MakeKey(p) /\ told' = told /\ (proc[p].op = "setKey" \/ keyFile = None)
      <3>1. /\ proc'[p].pc = "openKey" /\ proc'[p].op = proc[p].op
            /\ \A q \in Process \ {p} : proc'[q] = proc[q]
        BY <1>p, <2>2 DEF MakeKey, Move, ProcsGood, Proc
      <3>2. proc[p].op # "setKey" => told = {}
        BY <2>1, <2>2, NoneAssumption DEF Key
      <3>3. KeyInv(p)'  BY <2>2, <3>1, <3>2 DEF KeyInv, Writing
      <3>4. \A q \in Process \ {p} : proc'[q].pc = "idle"  BY <1>b, <2>1, <3>1
      <3>5. QED  BY <3>1, <3>3, <3>4, KeyMove DEF Writing
    <2>3. CASE End(p) /\ told' = told \cup ({keyFile} \cap Key) /\ keyFile' = keyFile
      <3>1. /\ proc'[p].pc = "idle"
            /\ \A q \in Process \ {p} : proc'[q] = proc[q]
        BY <1>p, <2>3 DEF End, Move, Idle, ProcsGood
      <3>2. KeyInv(p)'  BY <3>1 DEF KeyInv, Writing
      <3>3. \A q \in Process \ {p} : proc'[q].pc = "idle"  BY <1>b, <2>1, <3>1
      <3>4. QED  BY <2>1, <2>3, <3>2, <3>3, KeyMove
    <2>4. QED  BY <1>4, <2>2, <2>3 DEF ShowKey, SetKey, files, past
  <1>5. ASSUME NEW p \in Process, OpenKey(p) \/ FillKey(p) PROVE KeyGood'
    <2>1. /\ told' = told /\ proc[p].pc \in Writing /\ proc'[p].pc \in Writing
          /\ proc'[p].op = proc[p].op /\ proc'[p].key = proc[p].key
          /\ proc'[p].pc = "chmodKey" => keyFile' = proc[p].key
          /\ \A q \in Process \ {p} : proc'[q] = proc[q]
      BY <1>5, <1>p
         DEF OpenKey, FillKey, Goto, Move, past, ProcsGood, Proc, Writing
    <2>2. KeyInv(p)'  BY <1>b, <2>1 DEF KeyInv, Writing
    <2>3. \A q \in Process \ {p} : proc'[q].pc = "idle"  BY <1>b, <2>1 DEF Writing
    <2>4. QED  BY <2>1, <2>2, <2>3, KeyMove
  <1>6. ASSUME NEW p \in Process, ChmodKey(p) PROVE KeyGood'
    <2>1. /\ proc[p].pc = "chmodKey" /\ keyFile' = keyFile
          /\ told' = IF proc[p].op = "setKey" THEN {proc[p].key}
                     ELSE told \cup {proc[p].key}
          /\ proc'[p].pc = "idle"
          /\ \A q \in Process \ {p} : proc'[q] = proc[q]
      BY <1>6, <1>p DEF ChmodKey, End, Move, Idle, files, ProcsGood
    <2>2. told' \subseteq {keyFile'}  BY <1>b, <2>1 DEF KeyInv, Writing
    <2>3. KeyInv(p)'  BY <2>1 DEF KeyInv, Writing
    <2>4. \A q \in Process \ {p} : proc'[q].pc = "idle"  BY <1>b, <2>1
    <2>5. QED  BY <2>2, <2>3, <2>4, KeyMove
  <1>7. ASSUME NEW p \in Process, Crash(p) PROVE FALSE
    BY <1>7, <1>a DEF Crash
  <1>8. CASE Tick \/ Revoke \/ UNCHANGED vars
    BY <1>8 DEF Tick, Revoke, vars, files, counts, past, KeyGood, KeyInv
  <1>9. QED
    BY <1>1, <1>2, <1>3, <1>4, <1>5, <1>6, <1>7, <1>8 DEF Next, Run, Elsewhere

(* The types of the session hold in every reachable state.                 *)
THEOREM TypeCorrect == Spec => []TypeOK
  <1>1. IInv => TypeOK  BY DEF IInv
  <1>2. QED  BY <1>1, InitInv, NextInv, PTL DEF Spec

(* Whatever the lifetime, the buffer and the timeout, is_token_valid       *)
(* passes no token longer past its end than two timeouts, those of the     *)
(* answer and of its body, exceed the buffer.                              *)
THEOREM ValidTokensAreNearlyAccepted == Spec => []ValidIsNearlyAccepted
  <1>1. IInv => ValidIsNearlyAccepted
    <2> SUFFICES ASSUME IInv, NEW t, t \in Token, BeliefBounded(t), IsTokenValid(t)
                 PROVE  now < t.until
                                + Minus(2 * REQUEST_TIMEOUT, TOKEN_EXPIRY_BUFFER_SECS)
      BY DEF IInv, ValidIsNearlyAccepted, Passed
    <2>1. now \in Nat /\ t.until \in Nat /\ t.expires \in Nat
      BY SessionAssumption DEF IInv, TypeOK, Time, Token
    <2>2. QED
      BY <2>1, SessionAssumption DEF BeliefBounded, IsTokenValid, Minus
  <1>2. QED  BY <1>1, InitInv, NextInv, PTL DEF Spec

(* A device syncs with the key its user was told to carry to the others,   *)
(* unless commands overlapped or died (handle_key, handle_set_key,         *)
(* load_vault_key).                                                        *)
THEOREM TheToldKeyIsUsed == Spec => []SyncsWithTheToldKey
  <1>1. Init => KeyGood
    <2> SUFFICES ASSUME Init PROVE KeyGood  OBVIOUS
    <2>1. \A p \in Process : proc[p].pc = "idle"  BY DEF Init, Idle
    <2>2. told \subseteq {keyFile}  BY DEF Init
    <2>3. QED  BY <2>1, <2>2 DEF KeyGood, KeyInv, Writing
  <1>2. IInv /\ KeyGood /\ [Next]_vars => KeyGood'  BY NextKey
  <1>3. KeyGood => SyncsWithTheToldKey  BY DEF KeyGood, KeyInv, SyncsWithTheToldKey
  <1>4. QED  BY <1>1, <1>2, <1>3, InitInv, NextInv, PTL DEF Spec
=============================================================================
