-------------------------- MODULE MCInjectorPatch ---------------------------
(* InjectorPatch with small programs. *)
EXTENDS InjectorPatch, TLC

I(kind, len) == [kind |-> kind, head |-> 1, len |-> len, bits |-> 8, disp |-> 0]
Io == I("io", 1)
Branch(disp) == [I("branch", 2) EXCEPT !.disp = disp]

\* Two port instructions close together, the second one moved by the first.
Near == 1 :> Io @@ 2 :> I("plain", 2) @@ 4 :> Io @@ 5 :> I("plain", 5)
          @@ 10 :> I("plain", 3) @@ 13 :> I("exit", 4)
\* Reached by a branch first: the later one is patched before the earlier.
Back == 1 :> [I("branch", 2) EXCEPT !.disp = 8] @@ 3 :> Io
          @@ 4 :> I("plain", 1) @@ 5 :> I("plain", 2) @@ 7 :> I("plain", 2)
          @@ 9 :> Io @@ 10 :> I("plain", 5)
          @@ 15 :> I("exit", 2)
\* Polling: the branch that closes the loop is moved.
Poll == 1 :> Io @@ 2 :> I("plain", 2) @@ 4 :> Branch(-3)
          @@ 6 :> I("plain", 3) @@ 9 :> I("exit", 8)
\* A loop whose branch is clear of the patch.
Loop == 1 :> Io @@ 2 :> I("plain", 3) @@ 5 :> I("plain", 4)
          @@ 9 :> Branch(-8) @@ 11 :> I("exit", 6)
\* Not to be patched: too long a neighbour, an immediate port, sixteen bits.
Hard == 1 :> Io @@ 2 :> [I("plain", 10) EXCEPT !.head = 8] @@ 12 :> I("exit", 4)
\* Longer than the eight bytes that are looked at.
Long == 1 :> Io @@ 2 :> I("plain", 3) @@ 5 :> [I("plain", 11) EXCEPT !.head = 3]
          @@ 16 :> I("exit", 2)
Wide == 1 :> [Io EXCEPT !.bits = 16, !.len = 2] @@ 3 :> I("io", 2)
          @@ 5 :> I("exit", 8)

AllPrograms == {Near, Back, Poll, Loop, Hard, Long, Wide}
=============================================================================
