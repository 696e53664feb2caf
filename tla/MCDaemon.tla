------------------------------ MODULE MCDaemon ------------------------------
(* The daemon on a small instance.  calloc gives out the lowest free block,  *)
(* so that every block freed is the next one used again.  Keys are alike.    *)
EXTENDS Daemon, TLC

MCAddr == 1..5
Symmetric == Permutations(Accel)
MCTimerUser == {"pause", "retention", "reconnect", "debounce", "format"}
MCWatchUser == {"board", "ipc", "hypr", "pipe"}
MCAlloc(used) == {a \in Addr \ used : \A b \in Addr \ used : a <= b}
=============================================================================
