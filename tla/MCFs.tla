-------------------------------- MODULE MCFs ---------------------------------
(***************************************************************************)
(* Instances of Fs for TLC: the paths that processes use.                  *)
(***************************************************************************)
EXTENDS Fs, TLC

Call(op, path, new) == [op |-> op, path |-> path, new |-> new]

CONSTANTS p1, p2

\* A directory "a" below the root, which p1 makes, opens and removes while p2
\* may be in it, and a file "b" of p2, linked into the parent directory.
CallsAll ==
  p1 :> {Call("mkdir", <<"/", "a">>, <<>>), Call("unlink", <<"/", "a">>, <<>>),
         Call("open_rd", <<"/", "a">>, <<>>)}
  @@ p2 :> {Call("chdir", <<"/", "a">>, <<>>), Call("create", <<"b">>, <<>>),
            Call("unlink", <<"b">>, <<>>), Call("link", <<"b">>, <<"..", "b">>)}

\* One process opens a file with O_CREATE that the other one unlinks, or takes
\* for a directory; calls that fail; and the link that waits for itself.
CallsRace ==
  p1 :> {Call("create", <<"b">>, <<>>)}
  @@ p2 :> {Call("unlink", <<"b">>, <<>>), Call("chdir", <<"b", "a">>, <<>>),
            Call("link", <<"/">>, <<"a">>), Call("link", <<"b">>, <<"/", ".">>), Call("open", <<"/">>, <<>>)}

\* Pipes and a file that fill the table of files and that of descriptors.
CallsPipe == p1 :> {Call("create", <<"b">>, <<>>)} @@ p2 :> {}

Rest == {"close", "dup", "fork", "exit", "io"}
Programs ==
  {[paths |-> CallsAll, ops |-> Rest, NFILE |-> 1], [paths |-> CallsRace, ops |-> Rest, NFILE |-> 1],
   [paths |-> CallsPipe, ops |-> {"close", "dup", "fork", "exit", "pipe"}, NFILE |-> 3]}
=============================================================================
