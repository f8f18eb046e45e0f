-------------------------------- MODULE Formats --------------------------------
(***************************************************************************)
(* What leaves lockit and comes back: a vault printed and read again by a  *)
(* shell or by an import on another device, its expiry report, and the     *)
(* messages of a connection that may break at any byte.                    *)
(***************************************************************************)
EXTENDS Interchange, Expiry, Framing

CONSTANTS
    Vaults,         \* that are printed or looked through
    Targets,        \* that are imported into
    Conversations,  \* sequences of messages
    Days            \* --warn-days

(* Names and values are text: the code checks neither a key nor the        *)
(* profiles of a JSON import.                                              *)
ASSUME FormatsAssumption ==
    /\ \A v \in Vaults \cup Targets :
          /\ IsFiniteSet(DOMAIN v) /\ DOMAIN v \subseteq String \X String
          /\ v \in [DOMAIN v -> [value : String, expires : Time \cup {Never}]]
    /\ Conversations \subseteq Seq(Seq(Byte))
    /\ Days \subseteq Nat

VARIABLES input, output

vars == <<input, output>>

Nothing == [op |-> "nothing"]

Init ==
    /\ \/ \E v \in Vaults : input = [kind |-> "vault", vault |-> v]
       \/ \E ms \in Conversations : input = [kind |-> "messages", messages |-> ms]
    /\ output = Nothing

(***************************************************************************)
(* The commands                                                            *)
(***************************************************************************)

Start(kind) == output = Nothing /\ input.kind = kind
Shows(format, profiles, text) ==
    output' = [op |-> "print", format |-> format, profiles |-> profiles, text |-> text]

(* lk export, of one profile or of all.                                    *)
handle_export ==
    /\ Start("vault")
    /\ \E ps \in {{p} : p \in Profiles(input.vault)} \cup {Profiles(input.vault)} :
          \/ Shows("dotenv", ps, ExportDotenv(input.vault, ps))
          \/ Shows("json", ps, ExportJson(input.vault, ps))
    /\ UNCHANGED input

(* lk get --export and --json, of all keys of a profile.                   *)
handle_get ==
    /\ Start("vault")
    /\ \E p \in Profiles(input.vault) :
          \/ Shows("shell", {p}, GetExport(input.vault, p))
          \/ Shows("json", {p}, GetJson(input.vault, p))
    /\ UNCHANGED input

(* eval "$(lk get --export)" *)
EvalExport ==
    /\ output.op = "print" /\ output.format = "shell"
    /\ output' = [op |-> "eval", profiles |-> output.profiles, shell |-> Eval(output.text)]
    /\ UNCHANGED input

(* JSON of a single profile is not nested.                                 *)
IsFlat(printed) == printed.format = "json" /\ ~IsMulti(printed.text.members)

(* The profile is the argument of the command.                             *)
handle_import ==
    /\ output.op = "print"
    /\ \E target \in Targets, p \in Profiles(input.vault) :
          output' = [op |-> "import", format |-> output.format,
                     profiles |-> output.profiles, into |-> p, before |-> target,
                     flat |-> IsFlat(output),
                     after |-> Import(target, output, p)]
    /\ UNCHANGED input

Expire ==
    /\ Start("vault")
    /\ \E now \in Time, days \in Days :
          output' = [op |-> "expire", now |-> now, days |-> days,
                     report |-> handle_expire(input.vault, now, days)]
    /\ UNCHANGED input

(* All messages are written; the peer may go at any byte.                  *)
Send ==
    /\ Start("messages")
    /\ LET stream == FlattenSeq([i \in DOMAIN input.messages |->
                                   write_message(input.messages[i])])
       IN  \E arrives \in 0 .. Len(stream) :
              output' = [op |-> "stream", rest |-> SubSeq(stream, 1, arrives),
                         arrived |-> arrives, read |-> <<>>, end |-> "open"]
    /\ UNCHANGED input

(* handle_connection reads until the first error.                          *)
Receive ==
    /\ output.op = "stream" /\ output.end = "open"
    /\ LET r == read_message(output.rest)
       IN  output' = IF r.result = "message"
                       THEN [output EXCEPT !.read = Append(@, r.message), !.rest = r.rest]
                       ELSE [output EXCEPT !.end = r.result]
    /\ UNCHANGED input

Next ==
    \/ handle_export \/ handle_get \/ EvalExport \/ handle_import \/ Expire
    \/ Send \/ Receive

Spec == Init /\ [][Next]_vars

(***************************************************************************)
(* Properties                                                              *)
(***************************************************************************)

Printed(profiles) == {n \in DOMAIN input.vault : n[1] \in profiles}

(* Names are printed in upper case.                                        *)
NamesStayApart(profiles) ==
    \A m, n \in Printed(profiles) :
       UpperCase(m[2]) = UpperCase(n[2]) => m = n

(* A name that a shell takes; a profile that stays on one line.            *)
IsName(key) == key # <<>> /\ ToSet(key) \subseteq Letter \ {"="}
WellNamed(profiles) ==
    \A n \in Printed(profiles) : Newline \notin ToSet(n[1]) /\ IsName(n[2])

(* A shell that evaluates what get --export prints has each value of the   *)
(* profile, to the character, unless a key is no name or two differ only   *)
(* in case (handle_get, shell_quote).                                      *)
ShellGetsTheValues ==
    /\ output.op = "eval"
    /\ NamesStayApart(output.profiles) /\ WellNamed(output.profiles)
    =>
       /\ output.shell.kind # "invalid"
       /\ DOMAIN output.shell.env = {UpperCase(n[2]) : n \in Printed(output.profiles)}
       /\ \A n \in Printed(output.profiles) :
             output.shell.env[UpperCase(n[2])] = input.vault[n].value

(* What a line of dotenv can carry: no single quote, no line break, and    *)
(* no white space at an end that shell_quote does not quote.               *)
Carried(profiles) ==
    \A n \in Printed(profiles) :
       LET v == input.vault[n].value
       IN  ToSet(v) \cap {Quote, Newline} = {} /\ (v # <<>> => Return \notin {v[1], v[Len(v)]})

(* Where an entry of the printed vault belongs after the import.           *)
Place(n) ==
    CASE output.format # "json" -> <<output.into, UpperCase(n[2])>>
      [] output.flat            -> <<output.into, n[2]>>
      [] OTHER                  -> n

(* An import of an export brings every printed value, and leaves alone     *)
(* what it does not bring: JSON always, dotenv if its names are names and  *)
(* stay apart and a line can carry its values (handle_export, handle_get, handle_import). *)
ImportBringsTheExport ==
    /\ output.op = "import"
    /\ \/ output.format = "json"
       \/ /\ NamesStayApart(output.profiles) /\ WellNamed(output.profiles)
          /\ Carried(output.profiles)
    => LET names == Printed(output.profiles)
           brought == {Place(n) : n \in names}
       IN  /\ DOMAIN output.after = DOMAIN output.before \cup brought
           /\ \A n \in names : output.after[Place(n)].value = input.vault[n].value
           /\ \A n \in DOMAIN output.before \ brought :
                 output.after[n] = output.before[n]

(* What is listed as expired or as expiring is so, what is not listed will *)
(* be good past warn_days from now, and nothing is listed twice, while the *)
(* sums fit their width (handle_expire).  The second at which a credential *)
(* ends may be told either way.                                            *)
SilenceIsSafe ==
    output.op = "expire" /\ output.now + output.days * DAY < WIDTH =>
       LET ends(n) == input.vault[n].expires
           deadline == output.now + output.days * DAY
           Listed == output.report.expired \cup output.report.expiring
       IN  /\ output.report.expired \cap output.report.expiring = {}
           /\ \A n \in output.report.expired : ends(n) <= output.now
           /\ \A n \in output.report.expiring : ends(n) \in output.now .. deadline
           /\ \A n \in Expires(input.vault) \ Listed : ends(n) > deadline

(* However a connection breaks, the peer reads the first messages sent, in *)
(* order and whole; it stops before them all only at one that did not      *)
(* arrive or is over the limit, if no length is cut (handle_connection).   *)
ReadsWhatWasSent ==
    LET sent == input.messages
        Fits(m) == Len(m) < Lengths
        Through(i) == Len(FlattenSeq([j \in 1 .. i |-> write_message(sent[j])]))
        next == Len(output.read) + 1
    IN  output.op = "stream" /\ (\A i \in DOMAIN sent : Fits(sent[i])) =>
           /\ IsPrefix(output.read, sent)
           /\ output.end = "closed" /\ next <= Len(sent) => output.arrived < Through(next)
           /\ output.end = "tooLarge" => Len(sent[next]) > MAX_FRAME_SIZE
=============================================================================
