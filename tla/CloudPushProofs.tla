--------------------------- MODULE CloudPushProofs ---------------------------
(***************************************************************************)
(* TLAPS proofs about CloudPush, for any clients, credentials and numbers  *)
(* of events and packets.                                                  *)
(***************************************************************************)
EXTENDS CloudPush, SequenceTheorems, TLAPS

---------------------------------------------------------------------------
(* The inductive invariant.                                                *)

(* One client on its own.  Whoever does not read has nothing to read and   *)
(* is not logged in: the next connection starts from scratch.              *)
Fits(s) ==
    /\ s \in ClientState
    /\ s.writer => s.pc \in Reading
    /\ s.pc \notin Reading => s.loginAs = None /\ s.inbox = << >>
    /\ (s.writer /\ s.loginAs # None) => s.loginAs = s.credentials

(* What is yet to be read comes after what was delivered, in order.        *)
InOrder(inbox, from, to) ==
    /\ \A i \in 1..Len(inbox) : from <= inbox[i].event /\ inbox[i].event <= to
    /\ \A i, j \in 1..Len(inbox) : i <= j => inbox[i].event <= inbox[j].event

Types ==
    /\ cloud_push \in Client \union {None}
    /\ owner \in [Owner -> OwnerState]
    /\ closed \in BOOLEAN
    /\ sent \in 0..MaxEvents /\ delivered \in 0..sent

Owners ==
    /\ \A o \in Owner : owner[o].client # None <=> owner[o].pc \in {"stopping", "awaiting"}
    /\ owner[Cleanup].pc # "idle" => closed
    /\ closed => cloud_push = None

(* Two clients never run at the same time: only this keeps their events    *)
(* apart.                                                                  *)
OneRuns == \A c, d \in Client : client[c].pc \in Running /\ client[d].pc \in Running => c = d

Inv ==
    /\ Types /\ Owners /\ OneRuns /\ NoOrphanClient
    /\ client \in [Client -> ClientState]
    /\ \A c \in Client : Fits(client[c]) /\ InOrder(client[c].inbox, delivered, sent)

---------------------------------------------------------------------------
(* What the parts of the code make of one client.                          *)

LEMMA EmptyInOrder ==
    ASSUME NEW from, NEW to
    PROVE  InOrder(<< >>, from, to)
BY DEF InOrder

LEMMA StatesDiffer ==
    /\ Reading \subseteq Running /\ "closing" \in Running /\ "closing" \notin Reading
    /\ "done" \notin Running /\ "backoff" \in Running /\ "backoff" \notin Reading
    /\ "connecting" \in Running /\ "connecting" \notin Reading
BY DEF Reading, Running

LEMMA NewClientFits ==
    ASSUME NEW credentials \in Credentials
    PROVE  /\ Fits(NewClient(credentials)) /\ NewClient(credentials).inbox = << >>
           /\ NewClient(credentials).pc = "connecting"
<1> DEFINE s == NewClient(credentials)
<1>1. /\ s.pc = "connecting" /\ s.loginAs = None /\ s.inbox = << >> /\ s.writer = FALSE
  BY DEF NewClient, NoClient
<1>2. s \in ClientState
  <2>1. NoClient \in ClientState
    BY DEF NoClient, ClientState
  <2>2. QED
    BY <2>1 DEF NewClient, ClientState, Running
<1>3. QED
  BY <1>1, <1>2, StatesDiffer DEF Fits

LEMMA EndedFits ==
    ASSUME NEW s, Fits(s)
    PROVE  /\ Fits(Ended(s)) /\ Ended(s).inbox = << >>
           /\ Ended(s).pc = "closing" /\ Ended(s).stop = s.stop
<1>1. s \in ClientState
  BY DEF Fits
<1>2. /\ Ended(s).pc = "closing" /\ Ended(s).loginAs = None /\ Ended(s).inbox = << >>
      /\ Ended(s).writer = FALSE /\ Ended(s).stop = s.stop
  BY <1>1 DEF Ended, ClientState
<1>3. Ended(s) \in ClientState
  BY <1>1, EmptySeq DEF Ended, ClientState, Running
<1>4. QED
  BY <1>2, <1>3, StatesDiffer DEF Fits

LEMMA AfterRunFits ==
    ASSUME NEW s, Fits(s), s.pc \notin Reading
    PROVE  /\ Fits(AfterRun(s)) /\ AfterRun(s).inbox = << >>
           /\ AfterRun(s).stop = s.stop
<1>1. s \in ClientState /\ s.loginAs = None /\ s.inbox = << >> /\ s.writer = FALSE
  BY DEF Fits, ClientState
<1>2. /\ AfterRun(s).pc \in {"done", "backoff"} /\ AfterRun(s).loginAs = None
      /\ AfterRun(s).inbox = << >>
      /\ AfterRun(s).writer = FALSE /\ AfterRun(s).stop = s.stop
  BY <1>1 DEF AfterRun, ClientState
<1>3. AfterRun(s) \in ClientState
  BY <1>1 DEF AfterRun, ClientState, Running
<1>4. AfterRun(s).pc \notin Reading
  BY <1>2 DEF Reading
<1>5. QED
  BY <1>2, <1>3, <1>4 DEF Fits

LEMMA WriterUnsetFits ==
    ASSUME NEW s, Fits(s)
    PROVE  /\ Fits(WriterUnset(s)) /\ WriterUnset(s).inbox = s.inbox
           /\ WriterUnset(s).pc = s.pc /\ WriterUnset(s).stop = s.stop
<1>1. s \in ClientState
  BY DEF Fits
<1>2. /\ WriterUnset(s).pc = s.pc /\ WriterUnset(s).loginAs = s.loginAs
      /\ WriterUnset(s).inbox = s.inbox
      /\ WriterUnset(s).writer = FALSE /\ WriterUnset(s).stop = s.stop
  BY <1>1 DEF WriterUnset, ClientState
<1>3. WriterUnset(s) \in ClientState
  BY <1>1 DEF WriterUnset, ClientState
<1>4. QED
  BY <1>2, <1>3 DEF Fits

LEMMA CancelledFits ==
    ASSUME NEW s, Fits(s)
    PROVE  /\ Fits(Cancelled(s)) /\ Cancelled(s).inbox = << >>
           /\ Cancelled(s).pc \in Running => s.pc \in Running
           /\ Cancelled(s).stop = s.stop
<1>1. s \in ClientState
  BY DEF Fits
<1>2. CASE s.pc \in Reading
  <2>1. Cancelled(s) = [Ended(s) EXCEPT !.cancelled = TRUE]
    BY <1>2 DEF Cancelled
  <2>2. PICK e : e = Ended(s)
    OBVIOUS
  <2>3. Fits(e) /\ e \in ClientState /\ e.inbox = << >> /\ e.pc = "closing" /\ e.stop = s.stop
    BY <2>2, EndedFits DEF Fits
  <2>4. Cancelled(s) = [e EXCEPT !.cancelled = TRUE]
    BY <2>1, <2>2
  <2>5. /\ Cancelled(s).pc = "closing" /\ Cancelled(s).loginAs = e.loginAs
        /\ Cancelled(s).inbox = << >>
        /\ Cancelled(s).writer = e.writer /\ Cancelled(s).stop = s.stop
    BY <2>3, <2>4 DEF ClientState
  <2>6. Cancelled(s) \in ClientState
    BY <2>3, <2>4 DEF ClientState
  <2>7. ~ e.writer /\ e.loginAs = None
    BY <2>3, StatesDiffer DEF Fits
  <2>8. QED
    BY <1>2, <2>5, <2>6, <2>7, StatesDiffer DEF Fits
<1>3. CASE s.pc \notin Reading
  <2>1. Cancelled(s) = [s EXCEPT !.pc = "done", !.writer = FALSE]
    BY <1>3 DEF Cancelled
  <2>2. s.inbox = << >> /\ s.loginAs = None
    BY <1>3 DEF Fits
  <2>3. /\ Cancelled(s).pc = "done" /\ Cancelled(s).loginAs = None
        /\ Cancelled(s).inbox = << >>
        /\ Cancelled(s).writer = FALSE /\ Cancelled(s).stop = s.stop
    BY <1>1, <2>1, <2>2 DEF ClientState
  <2>4. Cancelled(s) \in ClientState
    BY <1>1, <2>1 DEF ClientState
  <2>5. QED
    BY <2>3, <2>4, StatesDiffer DEF Fits
<1>4. QED
  BY <1>2, <1>3

(* What _read_packet makes of a packet it has taken out of the inbox.      *)
LEMMA HandledFits ==
    ASSUME NEW s, Fits(s), s.pc \in Reading, NEW kind, NEW accepted \in BOOLEAN
    PROVE  /\ Fits(Handled(s, kind, accepted))
           /\ Handled(s, kind, accepted).inbox \in {s.inbox, << >>}
           /\ Handled(s, kind, accepted).stop = s.stop
<1> DEFINE h == Handled(s, kind, accepted)
<1>1. s \in ClientState
  BY DEF Fits
<1>2. CASE h = s \/ h = Ended(s)
  BY <1>2, EndedFits
<1>3. CASE h = [s EXCEPT !.pc = "login", !.loginAs = s.credentials]
  <2>1. /\ h.pc = "login" /\ h.loginAs = s.credentials /\ h.credentials = s.credentials
        /\ h.inbox = s.inbox /\ h.stop = s.stop
    BY <1>1, <1>3 DEF ClientState
  <2>2. h \in ClientState
    BY <1>1, <1>3 DEF ClientState, Running, Reading
  <2>3. QED
    BY <2>1, <2>2 DEF Fits, Reading
<1>4. CASE h = [s EXCEPT !.pc = "stream"] \/ h = [s EXCEPT !.pc = "stream", !.connected = TRUE]
  <2>1. /\ h.pc = "stream" /\ h.loginAs = s.loginAs /\ h.credentials = s.credentials
        /\ h.inbox = s.inbox /\ h.stop = s.stop /\ h.writer = s.writer
    BY <1>1, <1>4 DEF ClientState
  <2>2. h \in ClientState
    BY <1>1, <1>4 DEF ClientState, Running, Reading
  <2>3. QED
    BY <2>1, <2>2 DEF Fits, Reading
<1>5. QED
  BY <1>2, <1>3, <1>4 DEF Handled

---------------------------------------------------------------------------
(* Steps.                                                                  *)

LEMMA OwnersAreTwo == Refresh \in Owner /\ Cleanup \in Owner /\ Refresh # Cleanup
BY DEF Owner, Refresh, Cleanup

LEMMA InitInv ==
    ASSUME Init
    PROVE  Inv
<1>1. NoClient \in ClientState
  BY DEF NoClient, ClientState
<1>2. /\ NoClient.pc = "done" /\ NoClient.inbox = << >> /\ NoClient.loginAs = None
      /\ NoClient.writer = FALSE
  BY DEF NoClient
<1>3. Fits(NoClient) /\ InOrder(NoClient.inbox, delivered, sent)
  BY <1>1, <1>2, EmptyInOrder DEF Fits
<1>4. /\ IdleOwner \in OwnerState /\ IdleOwner.pc = "idle" /\ IdleOwner.client = None
  BY DEF IdleOwner, OwnerState
<1>5. Types
  <2>1. sent \in 0..MaxEvents /\ delivered \in 0..sent
    BY CloudPushAssumption DEF Init
  <2>2. owner \in [Owner -> OwnerState]
    BY <1>4 DEF Init
  <2>3. QED
    BY <2>1, <2>2 DEF Init, Types
<1>6. Owners
  BY <1>4, OwnersAreTwo DEF Init, Owners
<1>7. \A c \in Client : client[c] = NoClient /\ client[c].pc \notin Running
  BY <1>2, StatesDiffer DEF Init
<1>8. OneRuns /\ NoOrphanClient
  BY <1>7 DEF OneRuns, NoOrphanClient
<1>9. client \in [Client -> ClientState]
  BY <1>1 DEF Init
<1>10. QED
  BY <1>3, <1>5, <1>6, <1>7, <1>8, <1>9 DEF Inv

(* Whatever a client does, as long as it starts no run and keeps the order *)
(* of its events.  delivered may grow only if the others have nothing to   *)
(* read, which is so when this one does.                                   *)
LEMMA ClientKeepsInv ==
    ASSUME Inv, NEW c \in Client, NEW s, Fits(s),
           client' = [client EXCEPT ![c] = s],
           s.pc \in Running => client[c].pc \in Running,
           client[c].stop => s.stop,
           UNCHANGED <<cloud_push, owner, closed>>,
           sent' \in sent..MaxEvents, delivered' \in delivered..sent',
           InOrder(s.inbox, delivered', sent'),
           UNCHANGED delivered \/ client[c].pc \in Reading
    PROVE  Inv'
<1>1. /\ client'[c] = s /\ \A d \in Client \ {c} : client'[d] = client[d]
      /\ client' \in [Client -> ClientState]
  BY DEF Inv, Fits
<1>2. Types'
  BY DEF Inv, Types
<1>3. Owners'
  BY DEF Inv, Owners
<1>4. OneRuns'
  BY <1>1 DEF Inv, OneRuns
<1>5. NoOrphanClient'
  BY <1>1 DEF Inv, NoOrphanClient
<1>6. ASSUME NEW d \in Client, d # c
      PROVE  Fits(client'[d]) /\ InOrder(client'[d].inbox, delivered', sent')
  <2>1. client'[d] = client[d] /\ Fits(client[d]) /\ InOrder(client[d].inbox, delivered, sent)
    BY <1>1, <1>6 DEF Inv
  <2>2. CASE UNCHANGED delivered
    <3>1. client[d].inbox \in Seq(Packet) /\ sent \in Nat /\ sent' \in Nat /\ sent <= sent'
      BY <2>1 DEF Fits, ClientState, Inv, Types
    <3>2. \A i \in 1..Len(client[d].inbox) : client[d].inbox[i].event \in Nat
      <4>1. \A i \in 1..Len(client[d].inbox) : client[d].inbox[i] \in Packet
        BY <3>1
      <4>2. \A packet \in Packet : packet.event \in Nat
        BY CloudPushAssumption DEF Packet
      <4>3. QED
        BY <4>1, <4>2
    <3>3. QED
      BY <2>1, <2>2, <3>1, <3>2 DEF InOrder
  <2>3. CASE client[c].pc \in Reading
    <3>1. client[d].pc \notin Reading
      BY <1>6, <2>3, StatesDiffer DEF Inv, OneRuns
    <3>2. client[d].inbox = << >>
      BY <2>1, <3>1 DEF Fits
    <3>3. QED
      BY <2>1, <3>2, EmptyInOrder
  <2>4. QED
    BY <2>2, <2>3
<1>7. \A d \in Client : Fits(client'[d]) /\ InOrder(client'[d].inbox, delivered', sent')
  BY <1>1, <1>6
<1>8. QED
  BY <1>1, <1>2, <1>3, <1>4, <1>5, <1>7 DEF Inv

(* A step of a client that delivers nothing and reads nothing.             *)
LEMMA QuietStep ==
    ASSUME Inv, NEW c \in Client, NEW s, Fits(s), s.inbox \in {client[c].inbox, << >>},
           Becomes(c, s), UNCHANGED delivered,
           s.pc \in Running => client[c].pc \in Running,
           s.stop = client[c].stop
    PROVE  Inv'
<1>1. /\ client' = [client EXCEPT ![c] = s]
      /\ UNCHANGED <<cloud_push, owner, closed, sent, delivered>>
  BY DEF Becomes
<1>2. InOrder(s.inbox, delivered, sent)
  BY EmptyInOrder DEF Inv
<1>3. sent' \in sent..MaxEvents /\ delivered' \in delivered..sent'
  BY <1>1, CloudPushAssumption DEF Inv, Types
<1>4. QED
  BY <1>1, <1>2, <1>3, ClientKeepsInv

LEMMA OpenedKeeps ==
    ASSUME Inv, NEW c \in Client, NEW pinned \in BOOLEAN, Opened(c, pinned)
    PROVE  Inv'
<1>1. PICK s : s = client[c]
  OBVIOUS
<1>2. Fits(s) /\ s \in ClientState /\ s.pc = "connecting" /\ UNCHANGED delivered
  BY <1>1 DEF Opened, Inv, Fits
<1>3. CASE s.stop \/ ~ pinned
  BY <1>1, <1>2, <1>3, EndedFits, QuietStep, StatesDiffer DEF Opened
<1>4. CASE ~ (s.stop \/ ~ pinned)
  <2>1. PICK e : e = [s EXCEPT !.pc = "handshake", !.writer = TRUE]
    OBVIOUS
  <2>2. Becomes(c, e)
    BY <1>1, <1>4, <2>1 DEF Opened
  <2>3. /\ e.pc = "handshake" /\ e.loginAs = s.loginAs /\ e.inbox = s.inbox /\ e.stop = s.stop
    BY <1>2, <2>1 DEF ClientState
  <2>4. e \in ClientState
    BY <1>2, <2>1 DEF ClientState, Running, Reading
  <2>5. s.loginAs = None
    BY <1>2, StatesDiffer DEF Fits
  <2>6. Fits(e)
    BY <2>3, <2>4, <2>5 DEF Fits, Reading
  <2>7. QED
    BY <1>1, <1>2, <2>2, <2>3, <2>6, QuietStep, StatesDiffer
<1>5. QED
  BY <1>3, <1>4

LEMMA RunsOnKeeps ==
    ASSUME Inv, NEW c \in Client, OpenFails(c) \/ WriterClosed(c)
    PROVE  Inv'
<1>1. PICK s : s = client[c]
  OBVIOUS
<1>2. /\ Fits(s) /\ s.pc \in {"connecting", "closing"} /\ UNCHANGED delivered
      /\ Becomes(c, AfterRun(s))
  BY <1>1 DEF OpenFails, WriterClosed, Inv
<1>3. s.pc \notin Reading /\ s.pc \in Running
  BY <1>2, StatesDiffer
<1>4. QED
  BY <1>1, <1>2, <1>3, AfterRunFits, QuietStep

LEMMA BackoffEndsKeeps ==
    ASSUME Inv, NEW c \in Client, BackoffEnds(c)
    PROVE  Inv'
<1>1. PICK s : s = client[c]
  OBVIOUS
<1>2. PICK e : e = [s EXCEPT !.pc = IF s.stop THEN "done" ELSE "connecting"]
  OBVIOUS
<1>3. /\ Fits(s) /\ s \in ClientState /\ s.pc = "backoff" /\ UNCHANGED delivered
      /\ Becomes(c, e)
  BY <1>1, <1>2 DEF BackoffEnds, Inv, Fits
<1>4. /\ e.pc \in {"done", "connecting"} /\ e.loginAs = s.loginAs /\ e.inbox = s.inbox
      /\ e.stop = s.stop /\ e.writer = s.writer
  BY <1>2, <1>3 DEF ClientState
<1>5. e \in ClientState
  BY <1>2, <1>3 DEF ClientState, Running
<1>6. s.loginAs = None /\ s.inbox = << >> /\ ~ s.writer
  BY <1>3, StatesDiffer DEF Fits
<1>7. Fits(e)
  BY <1>4, <1>5, <1>6 DEF Fits
<1>8. QED
  BY <1>1, <1>3, <1>4, <1>7, QuietStep, StatesDiffer

LEMMA EndsKeeps ==
    ASSUME Inv, NEW c \in Client, Expires(c) \/ StreamEnds(c)
    PROVE  Inv'
<1>1. /\ Fits(client[c]) /\ client[c].pc \in Reading /\ UNCHANGED delivered
      /\ Becomes(c, Ended(client[c]))
  BY DEF Expires, StreamEnds, Inv, Reading
<1>2. QED
  BY <1>1, EndedFits, QuietStep, StatesDiffer

LEMMA IdleKeeps ==
    ASSUME Inv, NEW c \in Client, Idle(c)
    PROVE  Inv'
<1>1. PICK s, e : s = client[c] /\ e = [s EXCEPT !.pc = "heartbeat", !.head = FALSE]
  OBVIOUS
<1>2. /\ Fits(s) /\ s \in ClientState /\ s.pc = "stream" /\ UNCHANGED delivered
      /\ Becomes(c, e)
  BY <1>1 DEF Idle, Inv, Fits
<1>3. /\ e.pc = "heartbeat" /\ e.loginAs = s.loginAs /\ e.inbox = s.inbox
      /\ e.stop = s.stop /\ e.writer = s.writer /\ e.credentials = s.credentials
  BY <1>1, <1>2 DEF ClientState
<1>4. e \in ClientState
  BY <1>1, <1>2 DEF ClientState, Running, Reading
<1>5. Fits(e)
  BY <1>2, <1>3, <1>4 DEF Fits, Reading
<1>6. QED
  BY <1>1, <1>2, <1>3, <1>5, QuietStep DEF Running, Reading

(* The first packet is not older than what was delivered, and what follows *)
(* is not older than it.                                                   *)
LEMMA FirstRead ==
    ASSUME NEW inbox \in Seq(Packet), inbox # << >>, NEW from \in Nat, NEW to \in Nat,
           InOrder(inbox, from, to)
    PROVE  /\ Tail(inbox) \in Seq(Packet) /\ Head(inbox) \in Packet
           /\ Head(inbox).event \in from..to
           /\ InOrder(Tail(inbox), Head(inbox).event, to)
           /\ InOrder(Tail(inbox), from, to)
<1>1. /\ Len(inbox) \in Nat /\ Len(inbox) >= 1 /\ Head(inbox) = inbox[1]
      /\ Tail(inbox) \in Seq(Packet) /\ Len(Tail(inbox)) = Len(inbox) - 1
      /\ \A i \in 1..Len(Tail(inbox)) : Tail(inbox)[i] = inbox[i + 1]
      /\ \A i \in 1..Len(inbox) : inbox[i] \in Packet
  OBVIOUS
<1>2. \A i \in 1..Len(inbox) : inbox[i].event \in Nat
  BY <1>1, CloudPushAssumption DEF Packet
<1>3. Head(inbox).event \in from..to
  BY <1>1, <1>2 DEF InOrder
<1>4. \A i \in 1..Len(Tail(inbox)) :
        /\ i + 1 \in 1..Len(inbox) /\ Tail(inbox)[i].event = inbox[i + 1].event
        /\ inbox[1].event <= inbox[i + 1].event
  BY <1>1 DEF InOrder
<1>5. InOrder(Tail(inbox), Head(inbox).event, to)
  BY <1>1, <1>4 DEF InOrder
<1>6. InOrder(Tail(inbox), from, to)
  BY <1>1, <1>4 DEF InOrder
<1>7. QED
  BY <1>1, <1>3, <1>5, <1>6

LEMMA ReadKeeps ==
    ASSUME Inv, NEW c \in Client, NEW accepted \in BOOLEAN, Read(c, accepted)
    PROVE  Inv'
<1>1. PICK o : o = client[c]
  OBVIOUS
<1>2. PICK packet, s, kind :
        /\ packet = Head(o.inbox)
        /\ s = [o EXCEPT !.inbox = Tail(o.inbox), !.head = FALSE]
        /\ kind = IF packet.kind = "rest" THEN "event" ELSE packet.kind
  OBVIOUS
<1>3. /\ Fits(o) /\ o \in ClientState /\ o.pc \in Reading /\ o.inbox # << >>
      /\ o.inbox \in Seq(Packet) /\ InOrder(o.inbox, delivered, sent)
      /\ sent \in Nat /\ delivered \in Nat /\ delivered <= sent /\ sent <= MaxEvents
  BY <1>1, CloudPushAssumption DEF Read, Inv, Fits, ClientState, Types
<1>4. /\ Tail(o.inbox) \in Seq(Packet) /\ packet \in Packet
      /\ packet.event \in delivered..sent
      /\ InOrder(Tail(o.inbox), packet.event, sent)
      /\ InOrder(Tail(o.inbox), delivered, sent)
  BY <1>2, <1>3, FirstRead
<1>5. /\ s.pc = o.pc /\ s.loginAs = o.loginAs /\ s.inbox = Tail(o.inbox)
      /\ s.stop = o.stop /\ s.writer = o.writer /\ s.credentials = o.credentials
  BY <1>2, <1>3 DEF ClientState
<1>6. s \in ClientState
  BY <1>2, <1>3, <1>4 DEF ClientState
<1>7. Fits(s)
  BY <1>3, <1>5, <1>6 DEF Fits
<1>8. \/ /\ Becomes(c, [s EXCEPT !.head = TRUE]) /\ UNCHANGED delivered
      \/ Becomes(c, Ended(s)) /\ UNCHANGED delivered
      \/ /\ Becomes(c, Handled(s, kind, accepted))
         /\ delivered' \in {delivered, packet.event}
  <2>1. CASE packet.kind = "head"
    BY <1>1, <1>2, <2>1 DEF Read
  <2>2. CASE packet.kind = "rest" /\ ~ o.head
    BY <1>1, <1>2, <2>2 DEF Read
  <2>3. CASE packet.kind # "head" /\ ~ (packet.kind = "rest" /\ ~ o.head)
    BY <1>1, <1>2, <2>3 DEF Read
  <2>4. QED
    BY <2>1, <2>2, <2>3
<1>9. PICK e : /\ Becomes(c, e) /\ Fits(e) /\ e.stop = s.stop
               /\ e.inbox \in {s.inbox, << >>}
               /\ delivered' \in {delivered, packet.event}
  <2>1. ASSUME Becomes(c, [s EXCEPT !.head = TRUE]), UNCHANGED delivered
        PROVE  \E e : /\ Becomes(c, e) /\ Fits(e) /\ e.stop = s.stop
                      /\ e.inbox \in {s.inbox, << >>}
                      /\ delivered' \in {delivered, packet.event}
    <3>1. PICK e : e = [s EXCEPT !.head = TRUE]
      OBVIOUS
    <3>2. /\ e.pc = s.pc /\ e.loginAs = s.loginAs /\ e.inbox = s.inbox
          /\ e.stop = s.stop /\ e.writer = s.writer /\ e.credentials = s.credentials
      BY <1>6, <3>1 DEF ClientState
    <3>3. e \in ClientState
      BY <1>6, <3>1 DEF ClientState
    <3>4. Fits(e)
      BY <1>7, <3>2, <3>3 DEF Fits
    <3>5. Becomes(c, e) /\ UNCHANGED delivered
      BY <2>1, <3>1
    <3>6. QED
      BY <3>2, <3>4, <3>5
  <2>2. ASSUME Becomes(c, Ended(s)), UNCHANGED delivered
        PROVE  \E e : /\ Becomes(c, e) /\ Fits(e) /\ e.stop = s.stop
                      /\ e.inbox \in {s.inbox, << >>}
                      /\ delivered' \in {delivered, packet.event}
    BY <1>7, <2>2, EndedFits
  <2>3. ASSUME Becomes(c, Handled(s, kind, accepted)), delivered' \in {delivered, packet.event}
        PROVE  \E e : /\ Becomes(c, e) /\ Fits(e) /\ e.stop = s.stop
                      /\ e.inbox \in {s.inbox, << >>}
                      /\ delivered' \in {delivered, packet.event}
    BY <1>3, <1>5, <1>7, <2>3, HandledFits
  <2>4. QED
    BY <1>8, <2>1, <2>2, <2>3
<1>10. /\ client' = [client EXCEPT ![c] = e]
       /\ UNCHANGED <<cloud_push, owner, closed, sent>>
  BY <1>9 DEF Becomes
<1>11. /\ sent' \in sent..MaxEvents /\ delivered' \in delivered..sent'
       /\ InOrder(e.inbox, delivered', sent')
  <2>1. sent' = sent /\ sent' \in sent..MaxEvents
    BY <1>3, <1>10, CloudPushAssumption
  <2>2. delivered' \in delivered..sent'
    BY <1>3, <1>4, <1>9, <2>1
  <2>3. InOrder(Tail(o.inbox), delivered', sent)
    BY <1>4, <1>9
  <2>4. InOrder(e.inbox, delivered', sent')
    BY <1>5, <1>9, <2>1, <2>3, EmptyInOrder
  <2>5. QED
    BY <2>1, <2>2, <2>4
<1>12. client[c].pc \in Reading /\ client[c].pc \in Running /\ (client[c].stop => e.stop)
  BY <1>1, <1>3, <1>5, <1>9, StatesDiffer
<1>13. QED
  BY <1>9, <1>10, <1>11, <1>12, ClientKeepsInv

LEMMA ArrivesKeeps ==
    ASSUME Inv, NEW c \in Client, NEW kind \in {"hello", "login", "event", "head", "rest"},
           Arrives(c, kind)
    PROVE  Inv'
<1>1. PICK o, packet, s :
        /\ o = client[c]
        /\ packet = [kind |-> kind, event |-> sent']
        /\ s = [o EXCEPT !.inbox = Append(o.inbox, packet), !.owed = (kind = "head")]
  OBVIOUS
<1>2. /\ Fits(o) /\ o \in ClientState /\ o.writer
      /\ o.inbox \in Seq(Packet) /\ InOrder(o.inbox, delivered, sent)
      /\ sent \in Nat /\ delivered \in Nat /\ delivered <= sent /\ sent <= MaxEvents
      /\ MaxEvents \in Nat
      /\ client \in [Client -> ClientState]
  BY <1>1, CloudPushAssumption DEF Arrives, Inv, Fits, ClientState, Types
<1>3. /\ sent' \in sent..MaxEvents
      /\ UNCHANGED <<cloud_push, owner, closed, delivered>>
  BY <1>2 DEF Arrives
<1>4. client' = [client EXCEPT ![c] = s]
  BY <1>1, <1>2 DEF Arrives
<1>5. packet \in Packet /\ packet.event = sent'
  BY <1>1, <1>2, <1>3 DEF Packet
<1>6. /\ s.pc = o.pc /\ s.loginAs = o.loginAs /\ s.inbox = Append(o.inbox, packet)
      /\ s.stop = o.stop /\ s.writer = o.writer /\ s.credentials = o.credentials
  BY <1>1, <1>2 DEF ClientState
<1>7. s \in ClientState
  <2>1. Append(o.inbox, packet) \in Seq(Packet) /\ (kind = "head") \in BOOLEAN
    BY <1>2, <1>5
  <2>2. QED
    BY <1>1, <1>2, <2>1 DEF ClientState
<1>8. Fits(s)
  BY <1>2, <1>6, <1>7 DEF Fits
<1>9. InOrder(s.inbox, delivered, sent')
  <2>1. PICK q, r : q = o.inbox /\ r = Append(o.inbox, packet)
    OBVIOUS
  <2>2. /\ Len(q) \in Nat /\ Len(r) = Len(q) + 1 /\ r[Len(q) + 1] = packet
        /\ \A i \in 1..Len(q) : r[i] = q[i] /\ q[i] \in Packet
    BY <1>2, <1>5, <2>1
  <2>3. \A i \in 1..Len(q) : q[i].event \in delivered..sent
    <3>1. \A p \in Packet : p.event \in Nat
      BY <1>2 DEF Packet
    <3>2. QED
      BY <1>2, <2>1, <2>2, <3>1 DEF InOrder
  <2>4. \A i \in 1..Len(r) : r[i].event \in delivered..sent'
    BY <1>2, <1>3, <1>5, <2>2, <2>3
  <2>5. ASSUME NEW i \in 1..Len(r), NEW j \in 1..Len(r), i <= j
        PROVE  r[i].event <= r[j].event
    <3>1. CASE j \in 1..Len(q)
      BY <1>2, <2>1, <2>2, <2>5, <3>1 DEF InOrder
    <3>2. CASE j = Len(q) + 1
      BY <1>2, <1>3, <1>5, <2>2, <2>4, <3>2
    <3>3. QED
      BY <2>2, <3>1, <3>2
  <2>6. InOrder(r, delivered, sent')
    BY <2>4, <2>5 DEF InOrder
  <2>7. QED
    BY <1>6, <2>1, <2>6
<1>10. delivered' \in delivered..sent' /\ InOrder(s.inbox, delivered', sent')
  BY <1>2, <1>3, <1>9
<1>11. (s.pc \in Running => client[c].pc \in Running) /\ (client[c].stop => s.stop)
  BY <1>1, <1>6
<1>12. QED
  BY <1>3, <1>4, <1>8, <1>10, <1>11, ClientKeepsInv

---------------------------------------------------------------------------
(* The coordinator's part.                                                 *)

(* A client is told to stop, rotate or end, or is made anew: what holds of *)
(* each client on its own still holds.                                     *)
LEMMA TouchedClients ==
    ASSUME Inv, NEW c \in Client, NEW s, Fits(s), s.inbox \in {client[c].inbox, << >>},
           client' = [client EXCEPT ![c] = s], UNCHANGED <<sent, delivered>>
    PROVE  /\ client'[c] = s /\ \A d \in Client \ {c} : client'[d] = client[d]
           /\ client' \in [Client -> ClientState]
           /\ \A d \in Client : Fits(client'[d]) /\ InOrder(client'[d].inbox, delivered, sent)
<1>1. /\ client'[c] = s /\ \A d \in Client \ {c} : client'[d] = client[d]
      /\ client' \in [Client -> ClientState]
  BY DEF Inv, Fits
<1>2. Fits(s) /\ InOrder(s.inbox, delivered, sent)
  BY EmptyInOrder DEF Inv
<1>3. QED
  BY <1>1, <1>2 DEF Inv

LEMMA FinishedOwner ==
    ASSUME NEW o \in Owner
    PROVE  /\ Finished(o) \in OwnerState /\ Finished(o).client = None
           /\ Finished(o).pc = IF o = Cleanup THEN "done" ELSE "idle"
BY DEF Finished, IdleOwner, OwnerState

(* Stop, by a refresh, or by the clean-up that has just set _closed.       *)
LEMMA StopKeeps ==
    ASSUME Inv, NEW o \in Owner, Stop(o), owner[o].client = None,
           UNCHANGED <<sent, delivered>>,
           closed' \in BOOLEAN, closed => closed', o = Cleanup => closed'
    PROVE  Inv'
<1>1. cloud_push' = None /\ cloud_push \in Client \union {None}
  BY DEF Stop, Inv, Types
<1>2. CASE cloud_push = None
  <2>1. owner' = [owner EXCEPT ![o] = Finished(o)] /\ UNCHANGED client
    BY <1>2 DEF Stop
  <2>2. /\ owner' \in [Owner -> OwnerState] /\ owner'[o] = Finished(o)
        /\ \A p \in Owner \ {o} : owner'[p] = owner[p]
    BY <2>1, FinishedOwner DEF Inv, Types
  <2>3. Types'
    BY <1>1, <2>2 DEF Inv, Types
  <2>4. Owners'
    <3>1. owner'[o].client = None /\ owner'[o].pc \notin {"stopping", "awaiting"}
          /\ (o = Refresh => owner'[o].pc = "idle")
      BY <2>2, FinishedOwner, OwnersAreTwo
    <3>2. QED
      BY <1>1, <2>2, <3>1, OwnersAreTwo DEF Inv, Owners, Owner
  <2>5. OneRuns'
    BY <2>1 DEF Inv, OneRuns
  <2>6. NoOrphanClient'
    <3>1. ASSUME NEW c \in Client, client[c].pc \in Running
          PROVE  client[c].stop /\ \E p \in Owner : owner'[p].client = c
      <4>1. client[c].stop /\ \E p \in Owner : owner[p].client = c
        BY <1>2, <3>1, CloudPushAssumption DEF Inv, NoOrphanClient
      <4>2. QED
        BY <2>2, <4>1, CloudPushAssumption
    <3>2. QED
      BY <2>1, <3>1 DEF NoOrphanClient
  <2>7. QED
    BY <2>1, <2>3, <2>4, <2>5, <2>6 DEF Inv
<1>3. CASE cloud_push # None
  <2>1. PICK c, old : c = cloud_push /\ old = client[c]
    OBVIOUS
  <2>2. PICK u : u = [old EXCEPT !.stop = TRUE]
    OBVIOUS
  <2>3. c \in Client /\ Fits(old) /\ old \in ClientState
    BY <1>1, <1>3, <2>1 DEF Inv, Fits
  <2>4. /\ u.pc = old.pc /\ u.loginAs = old.loginAs /\ u.inbox = old.inbox
        /\ u.stop = TRUE /\ u.writer = old.writer /\ u.credentials = old.credentials
    BY <2>2, <2>3 DEF ClientState
  <2>5. u \in ClientState
    BY <2>2, <2>3 DEF ClientState
  <2>6. Fits(u)
    BY <2>3, <2>4, <2>5 DEF Fits
  <2>7. PICK s : /\ client' = [client EXCEPT ![c] = s]
                 /\ s \in {WriterUnset(u), Cancelled(WriterUnset(u))}
    BY <1>3, <2>1, <2>2 DEF Stop
  <2>8. PICK waits \in {"stopping", "awaiting"} :
          owner' = [owner EXCEPT ![o] = [pc |-> waits, client |-> c]]
    BY <1>3, <2>1 DEF Stop
  <2>9. /\ Fits(s) /\ s.inbox \in {old.inbox, << >>} /\ s.stop = TRUE
        /\ s.pc \in Running => old.pc \in Running
    BY <2>4, <2>6, <2>7, WriterUnsetFits, CancelledFits
  <2>10. /\ client'[c] = s /\ \A d \in Client \ {c} : client'[d] = client[d]
         /\ client' \in [Client -> ClientState]
         /\ \A d \in Client : Fits(client'[d]) /\ InOrder(client'[d].inbox, delivered, sent)
    BY <2>1, <2>3, <2>7, <2>9, TouchedClients
  <2>11. /\ owner' \in [Owner -> OwnerState] /\ owner'[o].client = c /\ owner'[o].pc = waits
         /\ \A p \in Owner \ {o} : owner'[p] = owner[p]
    BY <2>3, <2>8 DEF Inv, Types, OwnerState
  <2>12. Types'
    BY <1>1, <2>11 DEF Inv, Types
  <2>13. Owners'
    BY <1>1, <2>3, <2>11, OwnersAreTwo, CloudPushAssumption DEF Inv, Owners, Owner
  <2>14. OneRuns'
    BY <2>1, <2>9, <2>10 DEF Inv, OneRuns
  <2>15. NoOrphanClient'
    <3>1. ASSUME NEW d \in Client, client'[d].pc \in Running
          PROVE  client'[d].stop /\ \E p \in Owner : owner'[p].client = d
      <4>1. CASE d = c
        BY <2>9, <2>10, <2>11, <4>1
      <4>2. CASE d # c
        BY <2>1, <2>3, <2>9, <2>10, <2>11, <3>1, <4>2, CloudPushAssumption
           DEF Inv, NoOrphanClient
      <4>3. QED
        BY <4>1, <4>2
    <3>2. QED
      BY <3>1 DEF NoOrphanClient
  <2>16. QED
    BY <2>10, <2>12, <2>13, <2>14, <2>15 DEF Inv
<1>4. QED
  BY <1>2, <1>3

LEMMA CancelTaskKeeps ==
    ASSUME Inv, NEW o \in Owner, CancelTask(o)
    PROVE  Inv'
<1>1. PICK c, s : c = owner[o].client /\ s = Cancelled(client[c])
  OBVIOUS
<1>2. /\ c \in Client /\ owner[o].pc = "stopping"
      /\ client' = [client EXCEPT ![c] = s]
      /\ owner' = [owner EXCEPT ![o].pc = "awaiting"]
      /\ UNCHANGED <<cloud_push, closed, sent, delivered>>
  BY <1>1 DEF CancelTask, Inv, Owners, Types, OwnerState
<1>3. /\ Fits(client[c]) /\ Fits(s) /\ s.inbox = << >> /\ s.stop = client[c].stop
      /\ s.pc \in Running => client[c].pc \in Running
  BY <1>1, <1>2, CancelledFits DEF Inv
<1>4. /\ client'[c] = s /\ \A d \in Client \ {c} : client'[d] = client[d]
      /\ client' \in [Client -> ClientState]
      /\ \A d \in Client : Fits(client'[d]) /\ InOrder(client'[d].inbox, delivered, sent)
  BY <1>2, <1>3, TouchedClients
<1>5. /\ owner' \in [Owner -> OwnerState] /\ owner'[o].pc = "awaiting"
      /\ \A p \in Owner : owner'[p].client = owner[p].client
      /\ \A p \in Owner \ {o} : owner'[p] = owner[p]
  BY <1>2 DEF Inv, Types, OwnerState
<1>6. Types'
  BY <1>2, <1>5 DEF Inv, Types
<1>7. Owners'
  BY <1>2, <1>5, OwnersAreTwo DEF Inv, Owners
<1>8. OneRuns'
  BY <1>3, <1>4 DEF Inv, OneRuns
<1>9. NoOrphanClient'
  BY <1>2, <1>3, <1>4, <1>5, OwnersAreTwo DEF Inv, NoOrphanClient
<1>10. QED
  BY <1>2, <1>4, <1>6, <1>7, <1>8, <1>9 DEF Inv

(* Nobody waits for the client any more, once its task has ended.          *)
LEMMA TaskEndedKeeps ==
    ASSUME Inv, NEW o \in Owner, TaskEnded(o)
    PROVE  Inv'
<1>1. PICK c : c = owner[o].client
  OBVIOUS
<1>2. /\ client[c].pc \notin Running /\ owner[o].pc = "awaiting"
      /\ owner' = [owner EXCEPT ![o] = Finished(o)]
      /\ UNCHANGED <<client, cloud_push, closed, sent, delivered>>
  BY <1>1, StatesDiffer DEF TaskEnded
<1>3. /\ owner' \in [Owner -> OwnerState] /\ owner'[o] = Finished(o)
      /\ \A p \in Owner \ {o} : owner'[p] = owner[p]
  BY <1>2, FinishedOwner DEF Inv, Types
<1>4. Types'
  BY <1>2, <1>3 DEF Inv, Types
<1>5. Owners'
  BY <1>2, <1>3, FinishedOwner, OwnersAreTwo DEF Inv, Owners, Owner
<1>6. OneRuns'
  BY <1>2 DEF Inv, OneRuns
<1>7. NoOrphanClient'
  <2>1. owner[Cleanup].pc # "done" => owner'[Cleanup].pc # "done" \/ closed
    BY <1>2, <1>3, OwnersAreTwo DEF Inv, Owners
  <2>2. ASSUME NEW d \in Client, client[d].pc \in Running
        PROVE  \/ cloud_push = d /\ owner'[Cleanup].pc # "done"
               \/ client[d].stop /\ \E p \in Owner : owner'[p].client = d
    <3>1. d # c
      BY <1>2, <2>2
    <3>2. CASE cloud_push = d /\ owner[Cleanup].pc # "done"
      BY <2>1, <3>2, CloudPushAssumption DEF Inv, Owners
    <3>3. CASE client[d].stop /\ \E p \in Owner : owner[p].client = d
      BY <1>1, <1>3, <3>1, <3>3
    <3>4. QED
      BY <2>2, <3>2, <3>3 DEF Inv, NoOrphanClient
  <2>3. QED
    BY <1>2, <2>2 DEF NoOrphanClient
<1>8. QED
  BY <1>2, <1>4, <1>5, <1>6, <1>7 DEF Inv

LEMMA StopsKeep ==
    ASSUME Inv, RefreshStops \/ BeginCleanup
    PROVE  Inv'
<1>1. CASE RefreshStops
  <2>1. owner[Refresh].client = None
    BY <1>1, OwnersAreTwo DEF RefreshStops, Inv, Owners
  <2>2. Stop(Refresh) /\ UNCHANGED <<closed, sent, delivered>>
    BY <1>1 DEF RefreshStops
  <2>3. closed' \in BOOLEAN /\ (closed => closed')
    BY <2>2 DEF Inv, Types
  <2>4. QED
    BY <2>1, <2>2, <2>3, OwnersAreTwo, StopKeeps
<1>2. CASE BeginCleanup
  <2>1. owner[Cleanup].client = None
    BY <1>2, OwnersAreTwo DEF BeginCleanup, Inv, Owners
  <2>2. Stop(Cleanup) /\ closed' = TRUE /\ UNCHANGED <<sent, delivered>>
    BY <1>2 DEF BeginCleanup
  <2>3. closed' \in BOOLEAN /\ (closed => closed') /\ closed'
    BY <2>2
  <2>4. QED
    BY <2>1, <2>2, <2>3, OwnersAreTwo, StopKeeps
<1>3. QED
  BY <1>1, <1>2

(* A client is started only when no other runs: neither owner is waiting   *)
(* for one.                                                                *)
LEMMA RefreshStartsKeeps ==
    ASSUME Inv, NEW credentials \in Credentials, RefreshStarts(credentials)
    PROVE  Inv'
<1>1. PICK c \in Free : /\ client' = [client EXCEPT ![c] = NewClient(credentials)]
                        /\ cloud_push' = c
  BY DEF RefreshStarts
<1>2. /\ c \in Client /\ cloud_push = None /\ ~ closed /\ owner[Refresh].pc = "idle"
      /\ UNCHANGED <<owner, closed, sent, delivered>>
  BY DEF RefreshStarts, Free
<1>3. \A o \in Owner : owner[o].client = None
  BY <1>2, OwnersAreTwo DEF Inv, Owners, Owner
<1>4. \A d \in Client : client[d].pc \notin Running
  BY <1>2, <1>3, CloudPushAssumption DEF Inv, NoOrphanClient
<1>5. PICK s : s = NewClient(credentials)
  OBVIOUS
<1>6. Fits(s) /\ s.inbox = << >> /\ s.pc = "connecting"
  BY <1>5, NewClientFits
<1>7. /\ client'[c] = s /\ \A d \in Client \ {c} : client'[d] = client[d]
      /\ client' \in [Client -> ClientState]
      /\ \A d \in Client : Fits(client'[d]) /\ InOrder(client'[d].inbox, delivered, sent)
  BY <1>1, <1>2, <1>5, <1>6, TouchedClients
<1>8. Types'
  BY <1>1, <1>2 DEF Inv, Types
<1>9. Owners'
  BY <1>2 DEF Inv, Owners
<1>10. OneRuns'
  BY <1>4, <1>7 DEF OneRuns
<1>11. NoOrphanClient'
  <2>1. owner[Cleanup].pc # "done"
    BY <1>2 DEF Inv, Owners
  <2>2. QED
    BY <1>1, <1>2, <1>4, <1>7, <2>1 DEF NoOrphanClient
<1>12. QED
  BY <1>2, <1>7, <1>8, <1>9, <1>10, <1>11 DEF Inv

LEMMA RotateKeeps ==
    ASSUME Inv, NEW credentials \in Credentials, Rotate(credentials)
    PROVE  Inv'
<1>1. PICK c, old : c = cloud_push /\ old = client[c]
  OBVIOUS
<1>2. /\ c \in Client /\ Fits(old) /\ old \in ClientState
      /\ owner[Refresh].pc = "idle" /\ ~ closed
      /\ UNCHANGED <<cloud_push, closed, sent, delivered>>
  BY <1>1 DEF Rotate, Inv, Types, Fits
<1>3. PICK s : s = WriterUnset([old EXCEPT !.credentials = credentials])
  OBVIOUS
<1>4. client' = [client EXCEPT ![c] = s]
  BY <1>1, <1>2, <1>3 DEF Rotate, Inv
<1>5. /\ Fits(s) /\ s.inbox = old.inbox /\ s.pc = old.pc /\ s.stop = old.stop
  <2>1. /\ s.pc = old.pc /\ s.loginAs = old.loginAs /\ s.inbox = old.inbox
        /\ s.stop = old.stop /\ s.writer = FALSE
    BY <1>2, <1>3 DEF ClientState, WriterUnset
  <2>2. s \in ClientState
    BY <1>2, <1>3 DEF ClientState, WriterUnset
  <2>3. QED
    BY <1>2, <2>1, <2>2 DEF Fits
<1>6. /\ client'[c] = s /\ \A d \in Client \ {c} : client'[d] = client[d]
      /\ client' \in [Client -> ClientState]
      /\ \A d \in Client : Fits(client'[d]) /\ InOrder(client'[d].inbox, delivered, sent)
  BY <1>1, <1>2, <1>4, <1>5, TouchedClients
<1>7. /\ owner' \in [Owner -> OwnerState] /\ owner'[Refresh].pc \in {"idle", "rotating"}
      /\ owner'[Cleanup] = owner[Cleanup]
      /\ \A p \in Owner : owner'[p].client = owner[p].client
  <2>1. CASE UNCHANGED owner
    BY <1>2, <2>1 DEF Inv, Types
  <2>2. CASE owner' = [owner EXCEPT ![Refresh].pc = "rotating"]
    BY <2>2, OwnersAreTwo DEF Inv, Types, OwnerState
  <2>3. QED
    BY <2>1, <2>2 DEF Rotate
<1>8. Types'
  BY <1>2, <1>7 DEF Inv, Types
<1>9. Owners'
  BY <1>2, <1>7, OwnersAreTwo DEF Inv, Owners, Owner
<1>10. OneRuns'
  BY <1>1, <1>5, <1>6 DEF Inv, OneRuns
<1>11. NoOrphanClient'
  BY <1>1, <1>2, <1>5, <1>6, <1>7 DEF Inv, NoOrphanClient
<1>12. QED
  BY <1>2, <1>6, <1>8, <1>9, <1>10, <1>11 DEF Inv

LEMMA RotationEndsKeeps ==
    ASSUME Inv, RotationEnds
    PROVE  Inv'
<1>1. /\ owner[Refresh].pc = "rotating" /\ owner' = [owner EXCEPT ![Refresh] = IdleOwner]
      /\ UNCHANGED <<client, cloud_push, closed, sent, delivered>>
  BY DEF RotationEnds
<1>2. owner[Refresh].client = None
  BY <1>1, OwnersAreTwo DEF Inv, Owners
<1>3. IdleOwner \in OwnerState /\ IdleOwner.pc = "idle" /\ IdleOwner.client = None
  BY DEF IdleOwner, OwnerState
<1>4. /\ owner' \in [Owner -> OwnerState] /\ owner'[Refresh].pc = "idle"
      /\ owner'[Cleanup] = owner[Cleanup]
      /\ \A p \in Owner : owner'[p].client = owner[p].client
  BY <1>1, <1>2, <1>3, OwnersAreTwo DEF Inv, Types
<1>5. Types'
  BY <1>1, <1>4 DEF Inv, Types
<1>6. Owners'
  BY <1>1, <1>2, <1>4, OwnersAreTwo DEF Inv, Owners, Owner
<1>7. OneRuns' /\ NoOrphanClient'
  BY <1>1, <1>4 DEF Inv, OneRuns, NoOrphanClient
<1>8. QED
  BY <1>1, <1>5, <1>6, <1>7 DEF Inv

LEMMA NextInv ==
    ASSUME Inv, Next
    PROVE  Inv'
<1>1. ASSUME NEW c \in Client, ClientStep(c) PROVE Inv'
  BY <1>1, OpenedKeeps, RunsOnKeeps, BackoffEndsKeeps, ReadKeeps, IdleKeeps, EndsKeeps
     DEF ClientStep
<1>2. ASSUME NEW c \in Client, ServerStep(c) PROVE Inv'
  BY <1>2, ArrivesKeeps DEF ServerStep
<1>3. CASE OwnerStep
  BY <1>3, StopsKeep, RotationEndsKeeps, RefreshStartsKeeps, RotateKeeps,
     CancelTaskKeeps, TaskEndedKeeps DEF OwnerStep
<1>4. QED
  BY <1>1, <1>2, <1>3 DEF Next

LEMMA InvHolds == Spec => []Inv
<1>1. Inv /\ [Next]_vars => Inv'
  <2>1. Inv /\ UNCHANGED vars => Inv'
    BY DEF Inv, vars, Types, Owners, OneRuns, NoOrphanClient
  <2>2. QED
    BY <2>1, NextInv
<1>2. QED
  BY <1>1, InitInv, PTL DEF Spec

---------------------------------------------------------------------------
(* The types hold, and only a client that reads has a writer               *)
(* (cloud_push.py:295-345).                                                *)
THEOREM PushTypeCorrect == Spec => []TypeOK
<1>1. Inv => TypeOK
  BY DEF Inv, Types, Fits, TypeOK
<1>2. QED
  BY <1>1, InvHolds, PTL

(* Whenever the credentials are rotated, no connection in use is one that  *)
(* was logged in with others (cloud_push.py:295-307, 431-441).             *)
THEOREM SessionsAreCurrent == Spec => []SessionUsesCurrentCredentials
<1>1. Inv => SessionUsesCurrentCredentials
  BY DEF Inv, Fits, SessionUsesCurrentCredentials
<1>2. QED
  BY <1>1, InvHolds, PTL

(* Whatever the order of refreshes and the clean-up, a client that runs    *)
(* has an owner (coordinator.py:339-348, 365-378).                         *)
THEOREM ClientsHaveOwners == Spec => []NoOrphanClient
<1>1. Inv => NoOrphanClient
  BY DEF Inv
<1>2. QED
  BY <1>1, InvHolds, PTL

(* An event is never delivered after a later one, also when the client has *)
(* changed in between (cloud_push.py:446-466).                             *)
THEOREM EventsKeepTheirOrder == Spec => EventsInOrder
<1>1. Inv /\ [Next]_vars => delivered' >= delivered
  <2>1. ASSUME Inv, NEW c \in Client, NEW accepted \in BOOLEAN, Read(c, accepted)
        PROVE  delivered' >= delivered
    <3>1. /\ client[c].inbox \in Seq(Packet) /\ client[c].inbox # << >>
          /\ InOrder(client[c].inbox, delivered, sent)
          /\ sent \in Nat /\ delivered \in Nat
      BY <2>1, CloudPushAssumption DEF Read, Inv, Fits, ClientState, Types
    <3>2. Head(client[c].inbox).event \in delivered..sent
      BY <3>1, FirstRead
    <3>3. delivered' \in {delivered, Head(client[c].inbox).event}
      BY <2>1 DEF Read
    <3>4. QED
      BY <3>1, <3>2, <3>3
  <2>2. ASSUME Inv, [Next]_vars,
               ~ \E c \in Client, accepted \in BOOLEAN : Read(c, accepted)
        PROVE  UNCHANGED delivered
    BY <2>2 DEF Next, ClientStep, ServerStep, OwnerStep, Opened, OpenFails, WriterClosed,
       BackoffEnds, Idle, Expires, StreamEnds, Arrives, RefreshStops, RotationEnds,
       BeginCleanup, RefreshStarts, Rotate, CancelTask, TaskEnded, vars
  <2>3. Inv => delivered \in Int
    BY CloudPushAssumption DEF Inv, Types
  <2>4. QED
    BY <2>1, <2>2, <2>3
<1>2. Spec => [][delivered' >= delivered]_delivered
  <2>1. Inv /\ [Next]_vars => [delivered' >= delivered]_delivered
    BY <1>1
  <2>2. QED
    BY <2>1, InvHolds, PTL DEF Spec
<1>3. QED
  BY <1>2 DEF EventsInOrder

=============================================================================
