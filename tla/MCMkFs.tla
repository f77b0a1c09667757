------------------------------- MODULE MCMkFs -------------------------------
(***************************************************************************)
(* MkFs for TLC: no argument, one file of each interesting length, up to   *)
(* its direct blocks, beyond them and too long, two files, of which one or *)
(* both are large, five and six, for which /bin itself is large,           *)
(* one with a name that is too long and one that is there twice.  A byte   *)
(* of a source is its position, so that no two are alike.                  *)
(***************************************************************************)
EXTENDS MkFs

Hello == <<"h">>
File(name, length, base) == [name |-> name, data |-> [k \in 1 .. length |-> base + k]]

Six == [k \in 1 .. 6 |-> File(<<Bin, Hello, <<"b", "b">>, <<"b", "h">>, <<"h", "b">>, <<"h", "h">>>>[k], 0, 0)]

MCArgLists ==
  {<<>>, <<File(Hello, 0, 0)>>, <<File(Hello, 3, 0)>>, <<File(Hello, 8, 0)>>,
   <<File(Hello, 9, 0)>>, <<File(Hello, 13, 0)>>,
   <<File(Bin, 2, 20), File(Hello, 5, 0)>>,
   <<File(Bin, 9, 20), File(Hello, 9, 0)>>,
   <<File(Hello, 5, 0), File(<<"h", "b">>, 9, 20)>>,
   SubSeq(Six, 1, 5), Six,
   <<File(<<"h", "h", "h">>, 1, 0)>>, <<File(Hello, 1, 0), File(Hello, 2, 20)>>}

MCPaths == UNION {[1 .. n -> {Slash, "b", "h"}] : n \in 0 .. 4} \cup {<<Slash, "b", Slash, "h", "b">>}
=============================================================================
