------------------------------ MODULE LzHistory ------------------------------
(***************************************************************************)
(* What a sliding-window decoder promises, without ring buffers, caller    *)
(* buffers or saved progress: the decoded data is one ever growing         *)
(* sequence of bytes, hist, that starts with the N bytes the window is     *)
(* filled with, and a copy command appends, byte by byte, the byte found   *)
(* dist bytes before the last one.  A copy may overlap its own output.     *)
(***************************************************************************)
EXTENDS Integers, Sequences

CONSTANTS
  N,        \* how far back a copy can reach
  Byte,     \* the values of a byte
  Counts,   \* the lengths a copy command can have
  Prefill   \* the N bytes that precede the decoded data

VARIABLES
  hist,     \* everything decoded so far, after Prefill
  pending   \* the copy in progress: [dist, left], left = 0 when there is none

vars == <<hist, pending>>

Idle == [dist |-> 0, left |-> 0]

Init == hist = Prefill /\ pending = Idle

Literal(v) ==
  /\ pending = Idle
  /\ hist' = Append(hist, v)
  /\ UNCHANGED pending

Copy(dist, count) ==
  /\ pending = Idle
  /\ pending' = [dist |-> dist, left |-> count]
  /\ UNCHANGED hist

CopyByte ==
  /\ pending.left > 0
  /\ hist' = Append(hist, hist[Len(hist) - pending.dist])
  /\ pending' = IF pending.left = 1
                THEN Idle
                ELSE [pending EXCEPT !.left = @ - 1]

Next ==
  \/ \E v \in Byte : Literal(v)
  \/ \E dist \in 0..N-1, count \in Counts : Copy(dist, count)
  \/ CopyByte

Spec == Init /\ [][Next]_vars
=============================================================================
