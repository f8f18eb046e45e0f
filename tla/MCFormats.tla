------------------------------- MODULE MCFormats -------------------------------
(* Values for the constants of Formats. *)
EXTENDS Formats, FiniteSets

Strings(chars, n) == UNION {[1 .. l -> chars] : l \in 0 .. n}

Entry(value) == [value |-> value, expires |-> Never]
Names == {<<p, k>> : p \in {<<"a">>, <<"b">>}, k \in {<<"a">>, <<"A">>, <<"b">>}}

(* One entry with any value of three characters; *)
OneEntry == {<<<<"a">>, <<"b">>>> :> Entry(v) : v \in Strings(Character, 3)}

(* some entries with values that need care; *)
SomeEntries ==
    UNION {[names -> {Entry(v) : v \in {<<>>, <<"a", Quote>>, <<Hash, "=">>}}] :
             names \in {ns \in SUBSET Names : Cardinality(ns) \in 1 .. 3}}

(* two that expire; *)
TwoExpiries ==
    {(<<<<"a">>, <<"a">>>> :> [value |-> <<>>, expires |-> e])
     @@ (<<<<"a">>, <<"b">>>> :> [value |-> <<>>, expires |-> f]) :
       e \in Time, f \in Time \cup {Never}}

(* names that no shell takes, or that break a line of dotenv. *)
BadNames ==
    {(n :> Entry(<<"a">>)) @@ (<<<<"a">>, <<"b">>>> :> Entry(<<"b">>)) :
       n \in ({<<"a">>} \X {<<>>, <<"=">>, <<"a", "=">>, <<"a", Blank>>})
             \cup {<<<<"a", Newline, "b">>, <<"a">>>>}}

AllVaults == OneEntry \cup SomeEntries \cup TwoExpiries \cup BadNames

(* A new device, and one that has entries of its own. *)
AllTargets ==
    {<<>>,
     (<<<<"a">>, <<"B">>>> :> [value |-> <<"a">>, expires |-> 1])
     @@ (<<<<"b">>, <<"A">>>> :> [value |-> <<"b">>, expires |-> Never])}

Payloads == Strings({0, 1}, 3) \cup {[i \in 1 .. 17 |-> 1]}
AllConversations == UNION {[1 .. l -> Payloads] : l \in 0 .. 2}

AllDays == 0 .. 5
=============================================================================
