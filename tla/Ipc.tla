-------------------------------- MODULE Ipc --------------------------------
(***************************************************************************)
(* ipc.c: the daemon's end of its Unix socket.  A client sends request     *)
(* lines, in pieces of any size; the daemon reads what is there, handles   *)
(* the complete lines one after another and answers each.  Some requests   *)
(* change something, and every subscribed client then gets an event.  What *)
(* a client does not read is queued up to a limit.                         *)
(*                                                                         *)
(* on_client runs as several steps here (`at` is the client it is for),    *)
(* so that clients may read and write while it does.                       *)
(***************************************************************************)
EXTENDS Integers, Sequences, FiniteSets, SequencesExt

CONSTANTS
  Client,
  Nobody,
  Rude,        \* the clients that may hang up
  Kinds,       \* requests: "ask", "hello" (subscribe or no longer), "change" (an event)
  MaxLine,     \* MAX_LINE, in pieces
  MaxPending,  \* MAX_PENDING_OUT, in messages
  Kernel,      \* messages the socket holds for a client that does not read
  MaxRequests, \* bound: requests of one client
  MaxPieces    \* bound: pieces a request is sent in

ASSUME IpcAssumption ==
  /\ Nobody \notin Client /\ Rude \subseteq Client /\ Kinds \subseteq {"ask", "hello", "change"}
  /\ MaxLine \in Nat \ {0} /\ MaxPending \in Nat \ {0} /\ Kernel \in Nat \ {0}
  /\ MaxRequests \in Nat /\ MaxPieces \in Nat \ {0}

VARIABLES
  conn,      \* "off", "queued" for accept, "on", "freed", or "barred": refused or shut down
  up,        \* client's end: "open", "shut" for writing, or "closed"
  sent,      \* requests the client has finished sending
  wire,      \* pieces in the socket towards the daemon
  in,        \* ipc_client.in
  queue,     \* ipc_client: out, what the kernel holds of it, and closing
  got,       \* messages the client has read
  since,     \* subscribed, and how many events there were before; or -1
  emitted,   \* events so far
  handled,   \* requests handled, of each client (for the properties)
  at,        \* the client on_client is running for
  reap       \* ipc.reap_timer is armed

client == <<up, sent>>
vars == <<conn, client, wire, in, queue, got, since, emitted, handled, at, reap>>

\* A piece of a request; the newline comes with the last one.
Piece == [n : 1..MaxRequests, kind : Kinds, last : BOOLEAN]

Reply(k) == [what |-> "reply", n |-> k]
Event(k) == [what |-> "event", n |-> k]
Refusal  == [what |-> "too_large", n |-> 0]

Live == {c \in Client : conn[c] = "on"}

\* Types, and the limits: what is queued for a client stays within MAX_PENDING_OUT, and
\* a client whose input goes over MAX_LINE is on its way out.
TypeOK ==
  /\ conn \in [Client -> {"off", "queued", "on", "freed", "barred"}]
  /\ up \in [Client -> {"open", "shut", "closed"}]
  /\ sent \in [Client -> 0..MaxRequests] /\ handled \in [Client -> 0..MaxRequests]
  /\ \A c \in Client :
       /\ wire[c] \in Seq(Piece) /\ in[c] \in Seq(Piece)
       /\ Len(queue[c].out) <= MaxPending /\ Len(queue[c].kernel) <= Kernel
       /\ Len(in[c]) > MaxLine => queue[c].closing
  /\ since \in [Client -> -1..emitted] /\ emitted \in Nat
  /\ at \in Client \cup {Nobody} /\ reap \in BOOLEAN

Init ==
  /\ conn = [c \in Client |-> "off"] /\ up = [c \in Client |-> "open"]
  /\ sent = [c \in Client |-> 0] /\ handled = [c \in Client |-> 0]
  /\ wire = [c \in Client |-> <<>>] /\ in = [c \in Client |-> <<>>]
  /\ queue = [c \in Client |-> [out |-> <<>>, kernel |-> <<>>, closing |-> FALSE]]
  /\ got = [c \in Client |-> <<>>] /\ since = [c \in Client |-> -1]
  /\ emitted = 0 /\ at = Nobody /\ reap = FALSE

-----------------------------------------------------------------------------
(* The clients *)

Connect(c) ==
  /\ conn[c] = "off" /\ conn' = [conn EXCEPT ![c] = "queued"]
  /\ UNCHANGED <<client, wire, in, queue, got, since, emitted, handled, at, reap>>

\* The next piece of a request: a line may arrive in pieces, and several at once.
Send(c) ==
  LET part == SelectSeq(in[c] \o wire[c], LAMBDA p : p.n = sent[c] + 1) IN
  /\ conn[c] \in {"queued", "on"} /\ up[c] = "open" /\ sent[c] < MaxRequests
  /\ \E kind \in Kinds, last \in BOOLEAN :
       /\ part # <<>> => kind = part[1].kind
       /\ Len(part) + 1 = MaxPieces => last
       /\ wire' = [wire EXCEPT ![c] = Append(@, [n |-> sent[c] + 1, kind |-> kind, last |-> last])]
       /\ sent' = [sent EXCEPT ![c] = IF last THEN @ + 1 ELSE @]
  /\ UNCHANGED <<conn, up, in, queue, got, since, emitted, handled, at, reap>>

\* shutdown(SHUT_WR) and wait for the answers, or close.
HangUp(c) ==
  /\ c \in Rude /\ conn[c] \in {"queued", "on"}
  /\ \/ up[c] = "open" /\ up' = [up EXCEPT ![c] = "shut"]
     \/ up[c] # "closed" /\ up' = [up EXCEPT ![c] = "closed"]
  /\ UNCHANGED <<conn, sent, wire, in, queue, got, since, emitted, handled, at, reap>>

Read(c) ==
  /\ up[c] # "closed" /\ queue[c].kernel # <<>>
  /\ got' = [got EXCEPT ![c] = Append(@, Head(queue[c].kernel))]
  /\ queue' = [queue EXCEPT ![c].kernel = Tail(@)]
  /\ UNCHANGED <<conn, client, wire, in, since, emitted, handled, at, reap>>

-----------------------------------------------------------------------------
(* Output *)

\* flush_out: as much as the socket takes; a peer that is gone fails the send.
Flushed(q, c) ==
  LET room == Kernel - Len(q.kernel)
      n    == IF Len(q.out) < room THEN Len(q.out) ELSE room IN
  IF q.out # <<>> /\ up[c] = "closed" THEN [q EXCEPT !.closing = TRUE]
  ELSE [q EXCEPT !.kernel = @ \o SubSeq(q.out, 1, n), !.out = SubSeq(@, n + 1, Len(@))]

\* Variant with a fault: a client that does not read is buffered for ever.
Unlimited(q, c, msg) == Flushed([q EXCEPT !.out = Append(@, msg)], c)

\* Variant with a fault: what does not fit is left out, and the client stays.
DropsWhenFull(q, c, msg) ==
  IF Len(q.out) + 1 > MaxPending THEN q
  ELSE Flushed([q EXCEPT !.out = Append(@, msg)], c)

\* send_json, and the same lines of ipc_broadcast.
Post(q, c, msg) ==
  IF Len(q.out) + 1 > MaxPending THEN [q EXCEPT !.closing = TRUE]
  ELSE Flushed([q EXCEPT !.out = Append(@, msg)], c)

\* ipc_broadcast to the clients it finds subscribed and not closing.
Broadcast(msg) ==
  [c \in Client |-> IF c \in Live /\ since[c] >= 0 /\ ~queue[c].closing
                    THEN Post(queue[c], c, msg) ELSE queue[c]]

-----------------------------------------------------------------------------
(* The daemon *)

\* on_accept takes everybody who waits, apart from other users.
OnAccept ==
  /\ at = Nobody /\ \E c \in Client : conn[c] = "queued"
  /\ \E others \in SUBSET {c \in Client : conn[c] = "queued"} :
       conn' = [c \in Client |-> IF c \in others THEN "barred"
                                 ELSE IF conn[c] = "queued" THEN "on" ELSE conn[c]]
  /\ UNCHANGED <<client, wire, in, queue, got, since, emitted, handled, at, reap>>

\* on_client with EPOLLOUT; a failed send closes it right away (Finish).
OnWritable(c) ==
  /\ at = Nobody /\ c \in Live /\ queue[c].out # <<>>
  /\ up[c] = "closed" \/ Len(queue[c].kernel) < Kernel
  /\ queue' = [queue EXCEPT ![c] = Flushed(@, c)]
  /\ at' = c
  /\ UNCHANGED <<conn, client, wire, in, got, since, emitted, handled, reap>>

\* on_client with EPOLLIN: everything there is, until too much of it or its end.
OnReadable(c) ==
  LET all  == in[c] \o wire[c]
      over == Len(all) > MaxLine
      told == IF over THEN Post(queue[c], c, Refusal) ELSE queue[c] IN
  /\ at = Nobody /\ c \in Live /\ (wire[c] # <<>> \/ up[c] # "open")
  /\ at' = c
  /\ in' = [in EXCEPT ![c] = all] /\ wire' = [wire EXCEPT ![c] = <<>>]
  /\ queue' = [queue EXCEPT ![c] = [told EXCEPT !.closing = @ \/ over \/ up[c] # "open"]]
  /\ UNCHANGED <<conn, client, got, since, emitted, handled, reap>>

Complete(c) == {k \in 1..Len(in[c]) : in[c][k].last}

\* Variant with a fault: one line for each time there is something to read.
OneLine(c, k) ==
  /\ in' = [in EXCEPT ![c] = SubSeq(@, k + 1, Len(@))]
  /\ handled' = [handled EXCEPT ![c] = @ + 1]
  /\ at' = Nobody

\* Variant with a fault: what stands behind the line is thrown away with it.
ForgetsRest(c, k) ==
  /\ in' = [in EXCEPT ![c] = <<>>]
  /\ handled' = [handled EXCEPT ![c] = @ + 1]
  /\ UNCHANGED at

\* The line is taken off the buffer, what stands behind it stays.
TakeLine(c, k) ==
  /\ in' = [in EXCEPT ![c] = SubSeq(@, k + 1, Len(@))]
  /\ handled' = [handled EXCEPT ![c] = @ + 1]
  /\ UNCHANGED at

\* Variant with a fault: nobody is told that a client failed.
ForgetsReap(kind) == reap' = reap

\* A client marked in a broadcast is freed from a fresh loop iteration.
ScheduleReap(kind) == reap' = (reap \/ kind = "change")

\* ipc_subscribe, as hello asks for it.
Subscribed(c, on) ==
  [since EXCEPT ![c] = IF ~on THEN -1 ELSE IF since[c] < 0 THEN emitted ELSE since[c]]

\* handle_line and proto_handle: the events of a change go out before its reply.
HandleLine ==
  LET c == at
      k == CHOOSE j \in Complete(c) : \A i \in Complete(c) : j <= i
      p == in[c][k]
      told == IF p.kind = "change" THEN Broadcast(Event(emitted + 1)) ELSE queue IN
  /\ at # Nobody /\ ~queue[c].closing /\ Complete(c) # {}
  /\ TakeLine(c, k)
  /\ queue' = [told EXCEPT ![c] = Post(@, c, Reply(p.n))]
  /\ emitted' = IF p.kind = "change" THEN emitted + 1 ELSE emitted
  /\ \E on \in BOOLEAN : since' = IF p.kind = "hello" THEN Subscribed(c, on) ELSE since
  /\ ScheduleReap(p.kind)
  /\ UNCHANGED <<conn, client, wire, got>>

\* client_free
Free(gone, end) ==
  /\ conn' = [c \in Client |-> IF c \in gone THEN end ELSE conn[c]]
  /\ in' = [c \in Client |-> IF c \in gone THEN <<>> ELSE in[c]]
  /\ since' = [c \in Client |-> IF c \in gone THEN -1 ELSE since[c]]

\* The end of on_client: a client that failed or hung up is flushed and freed.
Finish ==
  LET c == at IN
  /\ at # Nobody /\ (queue[c].closing \/ Complete(c) = {})
  /\ at' = Nobody
  /\ IF queue[c].closing
     THEN Free({c}, "freed") /\ queue' = [queue EXCEPT ![c] = [Flushed(@, c) EXCEPT !.out = <<>>]]
     ELSE UNCHANGED <<conn, in, since, queue>>
  /\ UNCHANGED <<client, wire, got, emitted, handled, reap>>

OnReap ==
  /\ at = Nobody /\ reap /\ reap' = FALSE
  /\ Free({c \in Live : queue[c].closing}, "freed")
  /\ queue' = [c \in Client |-> IF c \in Live /\ queue[c].closing
                                THEN [queue[c] EXCEPT !.out = <<>>] ELSE queue[c]]
  /\ UNCHANGED <<client, wire, got, emitted, handled, at>>

\* ipc_close, after the loop: everybody is freed, what is queued with them.
Close ==
  /\ at = Nobody /\ Free(Client, "barred") /\ reap' = FALSE
  /\ queue' = [c \in Client |-> [queue[c] EXCEPT !.out = <<>>]]
  /\ UNCHANGED <<client, wire, got, emitted, handled, at>>

-----------------------------------------------------------------------------
Next ==
  \/ \E c \in Client : Connect(c) \/ Send(c) \/ HangUp(c) \/ Read(c)
  \/ OnAccept \/ HandleLine \/ Finish \/ OnReap \/ Close
  \/ \E c \in Client : OnWritable(c) \/ OnReadable(c)

Spec == Init /\ [][Next]_vars

\* Each ready descriptor and the reap timer get their turn in every round of the
\* loop, whoever else keeps it busy; a handler that began goes on.
FairSpec ==
  /\ Spec
  /\ WF_vars(HandleLine) /\ WF_vars(Finish) /\ SF_vars(OnAccept) /\ SF_vars(OnReap)
  /\ \A c \in Client : SF_vars(OnWritable(c)) /\ SF_vars(OnReadable(c))

-----------------------------------------------------------------------------
(* What the server promises *)

\* Everything that was or will be delivered to a client, oldest first.
Stream(c) == got[c] \o queue[c].kernel \o queue[c].out

\* The numbers of the replies, or of the events, in s; and that they only go up.
Numbers(what, s) == {m.n : m \in {x \in ToSet(s) : x.what = what}}

Rising(what, s) ==
  \A i, j \in 1..Len(s) : i < j /\ s[i].what = what /\ s[j].what = what => s[i].n < s[j].n

InService(c) == c \in Live /\ ~queue[c].closing

\* "Every request gets exactly one reply, in request order" (PROTOCOL.md): the replies
\* on their way to a client are those to its first requests, one each and in their
\* order, and none is missing while the client is served; nor is any request, of which
\* just those not handled yet are on their way, each once and in their order.
RepliesInOrder ==
  \A c \in Client :
    /\ Rising("reply", Stream(c))
    /\ \E k \in 0..handled[c] : Numbers("reply", Stream(c)) = 1..k
    /\ InService(c) =>
         LET rest  == in[c] \o wire[c]
             lines == {i \in 1..Len(rest) : rest[i].last} IN
         /\ Numbers("reply", Stream(c)) = 1..handled[c]
         /\ {rest[i].n : i \in lines} = (handled[c] + 1)..sent[c]
         /\ \A i, j \in lines : i < j => rest[i].n < rest[j].n

\* A subscriber that is still served has every event since it subscribed (last): one
\* that cannot be told of an event is cut off, not left with a gap. Nobody gets an
\* event that did not happen, or one twice, or one after a later one.
NoGaps ==
  \A c \in Client :
    /\ Rising("event", Stream(c)) /\ Numbers("event", Stream(c)) \subseteq 1..emitted
    /\ InService(c) /\ since[c] >= 0 =>
         (since[c] + 1)..emitted \subseteq Numbers("event", Stream(c))

\* A client marked for closing inside somebody else's request is freed in the end.
Reaped == \A c \in Client : c \in Live /\ queue[c].closing ~> c \notin Live

\* A request that was sent completely is handled, unless the client hangs up or is cut
\* off: lines that arrive together, or in pieces, do not wait for the next one.
Served ==
  \A c \in Client : \A k \in 1..MaxRequests :
    sent[c] >= k /\ c \in Live ~> handled[c] >= k \/ up[c] # "open" \/ c \notin Live

\* "Let replies drain before closing a client that hung up after asking" (on_client):
\* a client that only shut its sending side is freed with every request answered.
HungUpIsAnswered ==
  \A c \in Client :
    conn[c] = "freed" /\ up[c] = "shut" /\ Refusal \notin ToSet(Stream(c)) =>
      handled[c] = sent[c]

=============================================================================
