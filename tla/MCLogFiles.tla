----------------------------- MODULE MCLogFiles -----------------------------
(***************************************************************************)
(* A configuration file and its edits, for TLC.                            *)
(***************************************************************************)
EXTENDS LogFiles

\* The byte sums of the lines below as text, with the end of line.
MCBytes(line) ==
    CASE line.kind = "blank" -> 45
      [] line.kind = "section" -> [a |-> 291, b |-> 292, main |-> 615, MAIN |-> 487][line.key]
      [] OTHER ->
            [limitsize   |-> ("12" :> 1156) @@ ("21" :> 1156) @@ ("x" :> 1177),
             enable      |-> ("false" :> 1209) @@ ("0" :> 734) @@ ("1" :> 735),
             level       |-> [loud |-> 1043, warn |-> 1047],
             name        |-> ("" :> 488) @@ ("n" :> 598),
             path        |-> [x |-> 620],
             monthdir    |-> ("1" :> 989),
             reservedays |-> ("3" :> 1319)][line.field][line.value]

MCNumerals == ("0" :> 0) @@ ("1" :> 1) @@ ("12" :> 12) @@ ("21" :> 21)
MCMainSpellings == {"main", "MAIN"}

MCSlashed  == [x |-> "x/"]
MCKeyOrder == <<"Main", "a", "b">>

\* The second edit is a permutation of the first, the third has the same sum.
MCContents ==
    {<<Section("main"), Pair("level", "warn"), Section("a"), Pair("limitsize", "12")>>,
     <<Section("main"), Pair("limitsize", "12"), Section("a"), Pair("level", "warn")>>,
     <<Section("main"), Pair("level", "warn"), Section("a"), Pair("limitsize", "21")>>,
     <<Pair("enable", "1"), Section("a"), Pair("enable", "false"), Pair("level", "warn"), Blank,
       Section("MAIN"), Pair("path", "x"), Pair("monthdir", "1"), Pair("name", ""),
       Section("a"), Pair("level", "loud"), Pair("name", "n"), Pair("reservedays", "3")>>,
     <<Section("b"), Pair("enable", "0"), Pair("name", "n"), Section("main"), Pair("name", "n"),
       Section("a"), Pair("limitsize", "x"), Pair("name", "n")>>}

\* Eleven days of three seconds do not fit five bits.
MCChanges == {<<"enable", FALSE>>, <<"enable", TRUE>>, <<"name", "n">>, <<"limitsize", 0>>,
              <<"limitsize", 1>>, <<"reservedays", 11>>, <<"monthdir", TRUE>>}
=============================================================================
