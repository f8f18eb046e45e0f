----------------------------- MODULE SyncSession ------------------------------
(***************************************************************************)
(* What a sync command needs before it syncs: Google tokens that are still *)
(* good, renewed or asked for again when they are not, and the sync key.   *)
(* Both lie in files of one device that any command may read, rewrite in   *)
(* place or remove while another runs.                                     *)
(*                                                                         *)
(* The client's configuration is there; a client and Google agree on how   *)
(* fast time passes, and the code takes no time but in waiting.            *)
(***************************************************************************)
EXTENDS Naturals

CONSTANTS
    Process, None, Torn,
    LIFETIME,                   \* of an access token
    TOKEN_EXPIRY_BUFFER_SECS, REQUEST_TIMEOUT,
    MAX_ATTEMPTS,               \* of one HTTP request
    MAX_REFRESHES,              \* of one command
    MaxTime, MaxGrants, MaxKeys, MaxCommands, MaxCrashes

ASSUME SessionAssumption ==
    /\ {LIFETIME, TOKEN_EXPIRY_BUFFER_SECS, REQUEST_TIMEOUT, MAX_ATTEMPTS,
        MAX_REFRESHES, MaxTime, MaxGrants, MaxKeys, MaxCommands, MaxCrashes} \subseteq Nat
    /\ MAX_ATTEMPTS > 0 /\ MAX_REFRESHES > 0
    /\ MaxGrants > 0 /\ MaxCommands < MaxKeys

VARIABLES
    now,
    tokenFile, keyFile,     \* None, Torn or what they hold
    grants,                 \* logins Google has granted
    revoked,                \* grants the user has taken back at Google
    keys,                   \* sync keys made so far
    proc,                   \* per process: where its command is
    commands, crashes,
    overlapped,             \* two commands have run at the same time
    told                    \* the keys the user was told, since the last set-key

google == <<grants, revoked>>
files == <<tokenFile, keyFile>>
past == <<overlapped, told>>
counts == <<commands, crashes>>
vars == <<now, files, google, keys, proc, counts, past>>

Time == 0 .. MaxTime
Grant == 1 .. MaxGrants
Key == 1 .. MaxKeys

(* until is when Google stops to accept the access token, expires what the *)
(* client believes.  A token is renewable if it came with a refresh token. *)
Token == [grant : Grant, until : Nat, expires : Nat, renewable : BOOLEAN]

ASSUME NoneAssumption == None # Torn /\ {None, Torn} \cap (Token \cup Nat) = {}

Command == {"sync", "login", "logout", "key", "setKey"}
Step == {"idle", "load", "refresh", "refreshBody", "login", "exchange", "exchangeBody",
         "open", "fill", "chmod", "loadKey", "use", "remove", "key", "openKey", "fillKey",
         "chmodKey"}

(* send() waits for an answer, then text() for its body: two timeouts.     *)
Waiting == {"refresh", "exchange"}
Reading == {"refreshBody", "exchangeBody"}

Idle == [pc |-> "idle", op |-> "sync", tokens |-> None, key |-> None,
         tries |-> 1, refreshes |-> 1, since |-> 0, linked |-> TRUE]

TypeOK ==
    /\ now \in Time
    /\ tokenFile \in Token \cup {None, Torn} /\ keyFile \in Key \cup {None, Torn}
    /\ grants \in 0 .. MaxGrants /\ revoked \subseteq 1 .. grants
    /\ keys \in 0 .. MaxKeys /\ told \subseteq Key
    /\ commands \in 0 .. MaxCommands /\ crashes \in 0 .. MaxCrashes
    /\ overlapped \in BOOLEAN
    /\ proc \in [Process ->
                   [pc : Step, op : Command, tokens : Token \cup {None},
                    key : Key \cup {None}, tries : 1 .. MAX_ATTEMPTS,
                    refreshes : 1 .. MAX_REFRESHES, since : Time, linked : BOOLEAN]]
    /\ \A p \in Process :
          /\ proc[p].pc \in {"refresh", "open", "fill"} \cup Reading =>
                proc[p].tokens # None
          /\ proc[p].pc \in {"openKey", "fillKey", "chmodKey"} => proc[p].key # None

(***************************************************************************)
(* Tokens                                                                  *)
(***************************************************************************)

(* Mutant of IsTokenValid: trusts the token to its last second.            *)
IsTokenValidUnbuffered(t) == now < t.expires

Minus(a, b) == IF a > b THEN a - b ELSE 0

(* Called now; the subtraction saturates.                                  *)
IsTokenValid(t) == now < Minus(t.expires, TOKEN_EXPIRY_BUFFER_SECS)

Move(p, s) == proc' = [proc EXCEPT ![p] = s]
Goto(p, pc) == Move(p, [proc[p] EXCEPT !.pc = pc])
End(p) == Move(p, Idle)

Request(p, pc, t) ==
    Move(p, [proc[p] EXCEPT !.pc = pc, !.tokens = t, !.tries = 1, !.since = now])

(***************************************************************************)
(* A command begins                                                        *)
(***************************************************************************)

Begin(p) ==
    /\ proc[p].pc = "idle" /\ commands < MaxCommands
    /\ commands' = commands + 1
    /\ \E op \in Command :
          Move(p, [Idle EXCEPT !.op = op,
                     !.pc = CASE op = "sync"   -> "load"
                              [] op = "setKey" -> "key"
                              [] op = "logout" -> "remove"
                              [] OTHER         -> op])
    /\ overlapped' = (overlapped \/ \E q \in Process : proc[q].pc # "idle")
    /\ UNCHANGED <<now, files, google, keys, crashes, told>>

(***************************************************************************)
(* ensure_logged_in                                                        *)
(***************************************************************************)

LoadTokens(p) ==
    /\ proc[p].pc = "load"
    /\ \/ tokenFile = None /\ Goto(p, "login")
       \/ tokenFile = Torn /\ End(p)
       \/ /\ tokenFile \in Token
          /\ IF IsTokenValid(tokenFile)
               THEN Move(p, [proc[p] EXCEPT !.pc = "loadKey", !.tokens = tokenFile])
             ELSE IF tokenFile.renewable THEN Request(p, "refresh", tokenFile)
             ELSE Goto(p, "login")
    /\ UNCHANGED <<now, files, google, keys, counts, past>>

(* Google gives a token, at some time since it was asked, and counts the   *)
(* lifetime from then; the client learns of it now and has the body yet to *)
(* read.  An answer without a token is a failure.                          *)
Granted(p, pc, grant, renewable) ==
    \E given \in proc[p].since .. now :
       Move(p, [proc[p] EXCEPT !.pc = pc, !.since = now,
                  !.tokens = [grant |-> grant, until |-> given + LIFETIME,
                              expires |-> 0, renewable |-> renewable]])

(* refresh_tokens: the refresh token stays the one that was sent.          *)
Refresh(p) ==
    /\ proc[p].pc = "refresh"
    /\ proc[p].tokens.grant \notin revoked
    /\ Granted(p, "refreshBody", proc[p].tokens.grant, TRUE)
    /\ UNCHANGED <<now, files, google, keys, counts, past>>

(* exchange_code: Google may leave the refresh token out.                  *)
Exchange(p) ==
    /\ proc[p].pc = "exchange"
    /\ grants < MaxGrants /\ grants' = grants + 1
    /\ \E renewable \in BOOLEAN : Granted(p, "exchangeBody", grants', renewable)
    /\ UNCHANGED <<now, files, revoked, keys, counts, past>>

(* The body is read; only now expires_at reads the clock.                  *)
Receive(p) ==
    /\ proc[p].pc \in Reading
    /\ Move(p, [Idle EXCEPT !.pc = "open", !.op = proc[p].op,
                  !.tokens = [proc[p].tokens EXCEPT !.expires = now + LIFETIME]])
    /\ UNCHANGED <<now, files, google, keys, counts, past>>

(* send_blocking_with_retry: no answer, or one that asks to try again.     *)
Resend(p) ==
    /\ proc[p].pc \in Waiting
    /\ proc[p].tries < MAX_ATTEMPTS
    /\ Move(p, [proc[p] EXCEPT !.tries = @ + 1, !.since = now])
    /\ UNCHANGED <<now, files, google, keys, counts, past>>

(* Any error counts, a refused token too; after the last the user is asked *)
(* to log in.                                                              *)
RefreshFails(p) ==
    /\ proc[p].pc \in {"refresh", "refreshBody"}
    /\ IF proc[p].refreshes < MAX_REFRESHES
         THEN Move(p, [proc[p] EXCEPT !.pc = "refresh", !.refreshes = @ + 1,
                                      !.tries = 1, !.since = now])
         ELSE Move(p, [Idle EXCEPT !.op = "sync", !.pc = "login"])
    /\ UNCHANGED <<now, files, google, keys, counts, past>>

ExchangeFails(p) ==
    /\ proc[p].pc \in {"exchange", "exchangeBody"}
    /\ End(p)
    /\ UNCHANGED <<now, files, google, keys, counts, past>>

(* wait_for_callback: the first connection decides, and there is a         *)
(* deadline.                                                               *)
Callback(p) ==
    /\ proc[p].pc = "login"
    /\ Request(p, "exchange", None)
    /\ UNCHANGED <<now, files, google, keys, counts, past>>

NoCallback(p) ==
    /\ proc[p].pc = "login"
    /\ End(p)
    /\ UNCHANGED <<now, files, google, keys, counts, past>>

(***************************************************************************)
(* save_tokens and remove                                                  *)
(***************************************************************************)

OpenTokens(p) ==
    /\ proc[p].pc = "open"
    /\ tokenFile' = Torn
    /\ Move(p, [proc[p] EXCEPT !.pc = "fill", !.linked = TRUE])
    /\ UNCHANGED <<now, keyFile, google, keys, counts, past>>

(* What is written goes to the file that was opened, which may be gone, or *)
(* on top of what another process has written there since.                 *)
FillTokens(p) ==
    /\ proc[p].pc = "fill"
    /\ \/ ~proc[p].linked /\ tokenFile' = tokenFile
       \/ proc[p].linked /\ tokenFile' = proc[p].tokens
       \/ proc[p].linked /\ tokenFile # Torn /\ tokenFile' = Torn
    /\ Move(p, [proc[p] EXCEPT !.pc = "chmod", !.linked = TRUE])
    /\ UNCHANGED <<now, keyFile, google, keys, counts, past>>

(* Restricting the permissions fails if the file is gone.                  *)
ChmodTokens(p) ==
    /\ proc[p].pc = "chmod"
    /\ IF tokenFile # None /\ proc[p].op = "sync" THEN Goto(p, "loadKey") ELSE End(p)
    /\ UNCHANGED <<now, files, google, keys, counts, past>>

Logout(p) ==
    /\ proc[p].pc = "remove"
    /\ tokenFile' = None
    /\ proc' = [q \in Process |->
                  IF q = p THEN Idle
                  ELSE [proc[q] EXCEPT !.linked = (proc[q].pc # "fill")]]
    /\ UNCHANGED <<now, keyFile, google, keys, counts, past>>

(***************************************************************************)
(* The sync key                                                            *)
(***************************************************************************)

(* load_vault_key: a key that cannot be read is no key.                    *)
LoadKey(p) ==
    /\ proc[p].pc = "loadKey"
    /\ Move(p, [proc[p] EXCEPT !.pc = "use",
                  !.key = IF keyFile \in Key THEN keyFile ELSE None])
    /\ UNCHANGED <<now, files, google, keys, counts, past>>

(* The command syncs; what it does then is the engine's.                   *)
Use(p) ==
    /\ proc[p].pc = "use"
    /\ End(p)
    /\ UNCHANGED <<now, files, google, keys, counts, past>>

MakeKey(p) ==
    /\ keys < MaxKeys /\ keys' = keys + 1
    /\ Move(p, [proc[p] EXCEPT !.pc = "openKey", !.key = keys'])

(* Mutant of ShowKey: makes a key whenever it is asked for one.            *)
ShowKeyFresh(p) ==
    /\ proc[p].pc = "key" /\ proc[p].op = "key"
    /\ MakeKey(p)
    /\ UNCHANGED <<now, files, google, counts, past>>

(* handle_key: shows the key there is, or makes one.                       *)
ShowKey(p) ==
    /\ proc[p].pc = "key" /\ proc[p].op = "key"
    /\ \/ keyFile = None /\ MakeKey(p) /\ told' = told
       \/ /\ keyFile # None
          /\ End(p)
          /\ told' = told \cup ({keyFile} \cap Key)
          /\ UNCHANGED keys
    /\ UNCHANGED <<now, files, google, counts, overlapped>>

(* handle_set_key: a key from another device.                              *)
SetKey(p) ==
    /\ proc[p].pc = "key" /\ proc[p].op = "setKey"
    /\ MakeKey(p)
    /\ UNCHANGED <<now, files, google, counts, past>>

OpenKey(p) ==
    /\ proc[p].pc = "openKey"
    /\ keyFile' = Torn
    /\ Goto(p, "fillKey")
    /\ UNCHANGED <<now, tokenFile, google, keys, counts, past>>

FillKey(p) ==
    /\ proc[p].pc = "fillKey"
    /\ keyFile' = proc[p].key
    /\ Goto(p, "chmodKey")
    /\ UNCHANGED <<now, tokenFile, google, keys, counts, past>>

(* Only now the user is told.                                              *)
ChmodKey(p) ==
    /\ proc[p].pc = "chmodKey"
    /\ End(p)
    /\ told' = IF proc[p].op = "setKey" THEN {proc[p].key} ELSE told \cup {proc[p].key}
    /\ UNCHANGED <<now, files, google, keys, counts, overlapped>>

(***************************************************************************)
(* Time, the user at Google, and death                                     *)
(***************************************************************************)

(* Neither wait is longer than the timeout.                                *)
Tick ==
    /\ now < MaxTime /\ now' = now + 1
    /\ \A p \in Process :
          proc[p].pc \in Waiting \cup Reading => now < proc[p].since + REQUEST_TIMEOUT
    /\ UNCHANGED <<files, google, keys, proc, counts, past>>

Revoke ==
    /\ \E g \in 1 .. grants : g \notin revoked /\ revoked' = revoked \cup {g}
    /\ UNCHANGED <<now, files, grants, keys, proc, counts, past>>

Crash(p) ==
    /\ crashes < MaxCrashes /\ crashes' = crashes + 1
    /\ proc[p].pc # "idle"
    /\ End(p)
    /\ UNCHANGED <<now, files, google, keys, commands, past>>

(* A device on its first command, or with tokens and a key from earlier    *)
(* ones.                                                                   *)
Init ==
    /\ now = 0 /\ revoked = {}
    /\ \/ tokenFile = None /\ grants = 0
       \/ /\ grants = 1
          /\ \E until \in {0, LIFETIME}, renewable \in BOOLEAN :
                tokenFile = [grant |-> 1, until |-> until, expires |-> until,
                             renewable |-> renewable]
    /\ \/ keyFile = None /\ keys = 0 /\ told = {}
       \/ keyFile = 1 /\ keys = 1 /\ told = {1}
    /\ proc = [p \in Process |-> Idle]
    /\ commands = 0 /\ crashes = 0
    /\ overlapped = FALSE

(* What a command does by itself.                                          *)
Run(p) ==
    \/ LoadTokens(p) \/ Refresh(p) \/ Exchange(p) \/ Receive(p) \/ Resend(p)
    \/ RefreshFails(p) \/ ExchangeFails(p) \/ Callback(p) \/ NoCallback(p)
    \/ OpenTokens(p) \/ FillTokens(p) \/ ChmodTokens(p) \/ Logout(p)
    \/ LoadKey(p) \/ Use(p) \/ ShowKey(p) \/ SetKey(p)
    \/ OpenKey(p) \/ FillKey(p) \/ ChmodKey(p)

Next ==
    \/ \E p \in Process : Begin(p) \/ Run(p) \/ Crash(p)
    \/ Tick \/ Revoke

Spec == Init /\ [][Next]_vars

(***************************************************************************)
(* Properties                                                              *)
(***************************************************************************)

Passed == {t \in {tokenFile} \cup {proc[p].tokens : p \in Process} :
             t \in Token /\ IsTokenValid(t)}

(* However long an answer and its body took and whichever command saved    *)
(* the token, is_token_valid passes it past its end for no longer than the *)
(* two waits exceed the buffer.                                            *)
ValidIsNearlyAccepted ==
    \A t \in Passed :
       now < t.until + Minus(2 * REQUEST_TIMEOUT, TOKEN_EXPIRY_BUFFER_SECS)

(* The key a user was told to carry to the other devices is the one this   *)
(* device syncs with, until another is set; unless commands overlapped or  *)
(* died (handle_key, handle_set_key, load_vault_key).                      *)
SyncsWithTheToldKey ==
    \A p \in Process :
       proc[p].pc = "use" /\ ~overlapped /\ crashes = 0 => told \subseteq {proc[p].key}
=============================================================================
