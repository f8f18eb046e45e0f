------------------------------ MODULE Interchange ------------------------------
(***************************************************************************)
(* Credentials as text: what `lk get` and `lk export` print, what a shell  *)
(* and `lk import` make of it.                                             *)
(*                                                                         *)
(* A text is a sequence of tokens: characters, and the word "export " with *)
(* its blank.  Dollar stands for every other character shell_quote lists,  *)
(* Return for white space it does not list.  JSON is kept as its tree.     *)
(***************************************************************************)
EXTENDS Integers, Sequences, SequencesExt

CONSTANT Never          \* the expiry of what does not expire

Letter == {"a", "A", "b", "B", "="}
Blank == " "
Newline == "newline"
Return == "return"
Quote == "'"
DoubleQuote == "double quote"
Escape == "backslash"
Dollar == "$"
Hash == "#"
Export == "export "
Character ==
    Letter \cup {Blank, Newline, Return, Quote, DoubleQuote, Escape, Dollar, Hash}

String == Seq(Character)

Invalid == [kind |-> "invalid"]

UpperCase(s) == [i \in DOMAIN s |-> CASE s[i] = "a" -> "A" [] s[i] = "b" -> "B"
                                      [] OTHER -> s[i]]

(***************************************************************************)
(* A vault: [value, expires] per <<profile, key>>                          *)
(***************************************************************************)

Profiles(vault) == {name[1] : name \in DOMAIN vault}
Keys(vault, p) == {name[2] : name \in {n \in DOMAIN vault : n[1] = p}}

(* Any order serves for the sorted one.                                    *)
Sorted(names) == SetToSeq(names)

With(map, key, value) ==
    [k \in DOMAIN map \cup {key} |-> IF k = key THEN value ELSE map[k]]

Set(vault, triple) ==
    With(vault, <<triple[1], triple[2]>>, [value |-> triple[3], expires |-> Never])

(***************************************************************************)
(* Printing                                                                *)
(***************************************************************************)

NeedsQuote == {Blank, Newline, Quote, DoubleQuote, Escape, Dollar, Hash}

(* Mutant of shell_quote: takes a quote inside for harmless.               *)
shell_quoteBare(s) ==
    IF s = <<>> THEN <<Quote, Quote>>
    ELSE IF ToSet(s) \cap NeedsQuote # {} THEN <<Quote>> \o s \o <<Quote>>
    ELSE s

shell_quote(s) ==
    IF s = <<>> THEN <<Quote, Quote>>
    ELSE IF ToSet(s) \cap NeedsQuote = {} THEN s
    ELSE <<Quote>>
         \o FlattenSeq([i \in DOMAIN s |->
              IF s[i] = Quote THEN <<Quote, Escape, Quote, Quote>> ELSE <<s[i]>>])
         \o <<Quote>>

Assignment(key, value) == UpperCase(key) \o <<"=">> \o shell_quote(value) \o <<Newline>>

GetExport(vault, p) ==
    LET keys == Sorted(Keys(vault, p))
    IN  FlattenSeq([i \in DOMAIN keys |->
          <<Export>> \o Assignment(keys[i], vault[<<p, keys[i]>>].value)])

ExportProfile(vault, p) ==
    LET keys == Sorted(Keys(vault, p))
    IN  IF keys = <<>> THEN <<>>
        ELSE <<Hash, Blank>> \o p \o <<Newline>>
             \o FlattenSeq([i \in DOMAIN keys |->
                  Assignment(keys[i], vault[<<p, keys[i]>>].value)])
             \o <<Newline>>

ExportDotenv(vault, profiles) ==
    LET ps == Sorted(profiles)
    IN  FlattenSeq([i \in DOMAIN ps |-> ExportProfile(vault, ps[i])])

Text(s) == [kind |-> "text", text |-> s]
Object(members) == [kind |-> "object", members |-> members]

GetJson(vault, p) == Object([k \in Keys(vault, p) |-> Text(vault[<<p, k>>].value)])
ExportJson(vault, profiles) == Object([p \in profiles |-> GetJson(vault, p)])

(***************************************************************************)
(* Reading dotenv                                                          *)
(***************************************************************************)

Trim(s) ==
    LET inner == {i \in DOMAIN s : s[i] \notin {Blank, Return}}
    IN  IF inner = {} THEN <<>> ELSE SubSeq(s, Min(inner), Max(inner))

AddCharacter(lines, c) ==
    IF c = Newline THEN Append(lines, <<>>)
    ELSE [lines EXCEPT ![Len(lines)] = Append(@, c)]

Lines(text) == FoldLeft(AddCharacter, <<<<>>>>, text)

strip_quotes(s) ==
    IF /\ Len(s) >= 2
       /\ \E q \in {Quote, DoubleQuote} : s[1] = q /\ s[Len(s)] = q
      THEN SubSeq(s, 2, Len(s) - 1)
      ELSE s

ParseLine(line) ==
    LET body == IF line[1] = Export THEN Trim(Tail(line)) ELSE line
        eqs == {i \in DOMAIN body : body[i] = "="}
        key == Trim(SubSeq(body, 1, Min(eqs) - 1))
    IN  IF eqs = {} \/ key = <<>> THEN Invalid
        ELSE [kind |-> "entry", key |-> key,
              value |-> strip_quotes(Trim(SubSeq(body, Min(eqs) + 1, Len(body))))]

(* One line further; the first error stays.                                *)
ReadLine(read, raw) ==
    LET line == Trim(raw)
        entry == ParseLine(line)
    IN  IF read.kind = "invalid" \/ line = <<>> \/ line[1] = Hash THEN read
        ELSE IF entry.kind = "invalid" THEN Invalid
        ELSE [kind |-> "entries",
              entries |-> Append(read.entries, <<entry.key, entry.value>>)]

parse_dotenv_str(text) ==
    FoldLeft(ReadLine, [kind |-> "entries", entries |-> <<>>], Lines(text))

(***************************************************************************)
(* Reading JSON                                                            *)
(***************************************************************************)

(* Mutant of IsMulti: takes any object for one of profiles.                *)
IsMultiAlways(obj) == TRUE

IsMulti(obj) == \A n \in DOMAIN obj : obj[n].kind = "object"

(* The root is an object; anything but an object or a string where one is  *)
(* expected is an error.                                                   *)
parse_import_json(json, profile) ==
    LET obj == json.members
        triples ==
          IF IsMulti(obj)
            THEN UNION {{<<p, k, obj[p].members[k]>> : k \in DOMAIN obj[p].members} :
                          p \in {n \in DOMAIN obj : obj[n].kind = "object"}}
            ELSE {<<profile, k, obj[k]>> : k \in DOMAIN obj}
    IN  IF \/ \E t \in triples : t[3].kind # "text"
           \/ IsMulti(obj) /\ \E n \in DOMAIN obj : obj[n].kind # "object"
          THEN Invalid
          ELSE [kind |-> "entries",
                entries |-> SetToSeq({<<t[1], t[2], t[3].text>> : t \in triples})]

Triples(printed, profile) ==
    IF printed.format = "json" THEN parse_import_json(printed.text, profile)
    ELSE LET read == parse_dotenv_str(printed.text)
         IN  IF read.kind = "invalid" THEN Invalid
             ELSE [kind |-> "entries",
                   entries |-> [i \in DOMAIN read.entries |->
                     <<profile, read.entries[i][1], read.entries[i][2]>>]]

(* Nothing is saved on an error, and no entries are one.                   *)
Import(vault, printed, profile) ==
    LET read == Triples(printed, profile)
    IN  IF read.kind = "invalid" THEN vault
        ELSE FoldLeft(Set, vault, read.entries)

(***************************************************************************)
(* A shell that reads `export NAME=word` lines                             *)
(***************************************************************************)

(* One token further: inside a word, inside quotes, or after a backslash.  *)
ReadToken(shell, c) ==
    CASE shell.mode = "quoted" ->
           IF c = Quote THEN [shell EXCEPT !.mode = "word"]
           ELSE [shell EXCEPT !.word = Append(@, c)]
      [] shell.mode = "escaped" ->
           [shell EXCEPT !.mode = "word", !.word = Append(@, c)]
      [] shell.mode = "word" ->
           CASE c = Quote  -> [shell EXCEPT !.mode = "quoted"]
             [] c = Escape -> [shell EXCEPT !.mode = "escaped"]
             [] c = Newline -> [shell EXCEPT !.mode = "start", !.word = <<>>,
                                  !.words = Append(@, shell.word)]
             [] c \in {Blank, DoubleQuote, Dollar, Export}
                \/ (c = Hash /\ shell.word = <<>>) -> [shell EXCEPT !.mode = "lost"]
             [] OTHER -> [shell EXCEPT !.word = Append(@, c)]
      [] shell.mode = "start" /\ c = Export -> [shell EXCEPT !.mode = "word"]
      [] OTHER -> [shell EXCEPT !.mode = "lost"]

(* The last assignment to a name wins.                                     *)
Assign(env, word) ==
    LET eq == Min({i \in DOMAIN word : word[i] = "="})
    IN  With(env, SubSeq(word, 1, eq - 1), SubSeq(word, eq + 1, Len(word)))

(* The variables set.                                                      *)
Eval(text) ==
    LET shell == FoldLeft(ReadToken, [mode |-> "start", word |-> <<>>, words |-> <<>>],
                          text)
    IN  IF shell.mode # "start" THEN Invalid
        ELSE [kind |-> "variables", env |-> FoldLeft(Assign, <<>>, shell.words)]
=============================================================================
