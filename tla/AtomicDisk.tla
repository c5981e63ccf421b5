----------------------------- MODULE AtomicDisk -----------------------------
(***************************************************************************)
(* What virtio_disk_rw() promises: one block is transferred between the    *)
(* buffer and the disk, once, at some time between call and return.        *)
(***************************************************************************)
CONSTANTS Bufs, Blocks, Values, None

VARIABLES disk,    \* the contents of the disk
          data,    \* what is in the buffer of a write, or of a read that is done
          req      \* each buffer's request: its type, block and progress

vars == <<disk, data, req>>

Idle == [type |-> "none"]

Init == /\ disk \in [Blocks -> Values]
        /\ data = [b \in Bufs |-> None]
        /\ req = [b \in Bufs |-> Idle]

Call(b, t, s, v) == /\ req[b] = Idle
                    /\ UNCHANGED disk
                    /\ data' = [data EXCEPT ![b] = v]
                    /\ req' = [req EXCEPT ![b] = [type |-> t, sector |-> s, done |-> FALSE]]

Do(b) == /\ req[b] # Idle
         /\ ~req[b].done
         /\ IF req[b].type = "out"
              THEN disk' = [disk EXCEPT ![req[b].sector] = data[b]] /\ UNCHANGED data
              ELSE data' = [data EXCEPT ![b] = disk[req[b].sector]] /\ UNCHANGED disk
         /\ req' = [req EXCEPT ![b].done = TRUE]

Return(b) == /\ req[b] # Idle
             /\ req[b].done
             /\ UNCHANGED disk
             /\ data' = [data EXCEPT ![b] = None]
             /\ req' = [req EXCEPT ![b] = Idle]

Next == \E b \in Bufs :
          \/ \E s \in Blocks : \/ Call(b, "in", s, None)
                               \/ \E v \in Values : Call(b, "out", s, v)
          \/ Do(b)
          \/ Return(b)

Spec == Init /\ [][Next]_vars
=============================================================================
