---------------------------- MODULE LogStreamProofs ----------------------------
(***************************************************************************)
(* What the log viewer and its handlers guarantee for any bound on the     *)
(* text and any number of sockets: the viewer shows its own lines, without *)
(* a gap and within the bound, and no handler leaves its tail behind.      *)
(***************************************************************************)
EXTENDS LogStream, WellFoundedInduction, TLAPS

Lines == [sock : Nat, n : Nat]

TypeOK ==
  /\ opened \in Sockets \cup {NoSocket} /\ logSocket \in {opened, NoSocket}
  /\ text \in Seq(Lines) /\ starts \in SUBSET Nat
  /\ client \in [Sockets -> {"none", "connecting", "open", "failing", "closed"}]
  /\ pending \in [Sockets -> Seq(Lines)] /\ wire \in [Sockets -> Seq(Lines)]
  /\ flushing \in [Sockets -> BOOLEAN] /\ gone \in [Sockets -> BOOLEAN]
  /\ size \in [Sockets -> Nat] /\ got \in [Sockets -> Nat]
  /\ handler \in [Sockets -> {"none", "refused", "lookup", "spawn", "stream", "cleanup",
                              "wait", "done"}]
  /\ tail \in [Sockets -> {"none", "running", "exited", "reaped"}]
  /\ printed \in [Sockets -> Nat] /\ sent \in [Sockets -> Nat]

-----------------------------------------------------------------------------
(* The invariant.                                                            *)

\* A socket that was not opened yet is as it was at the start.
Untouched(k) ==
  k > opened =>
    /\ pending[k] = <<>> /\ wire[k] = <<>> /\ got[k] = 0 /\ size[k] = 0 /\ sent[k] = 0
    /\ ~gone[k] /\ handler[k] = "none"

\* All text of a socket is its own.
OwnText(k) ==
  /\ \A i \in DOMAIN pending[k] : pending[k][i].sock = k
  /\ \A i \in DOMAIN wire[k] : wire[k][i].sock = k

\* The frames that travel are the lines pump took and the viewer did not get yet, or
\* the one note of a handler that found no log; a connection that is gone loses them.
Frames(k) ==
  /\ gone[k] => wire[k] = <<>>
  /\ ~gone[k] =>
       \/ /\ sent[k] = got[k] + Len(wire[k])
          /\ \A i \in DOMAIN wire[k] : wire[k][i].n = got[k] + i
       \/ handler[k] = "done" /\ \A i \in DOMAIN wire[k] : wire[k][i].n = 0

\* A tail runs between the spawn and the finally, which waits for it.
TailOf(k) ==
  /\ handler[k] \in {"none", "refused", "lookup", "spawn"} => tail[k] = "none" /\ sent[k] = 0
  /\ handler[k] = "wait" => tail[k] = "exited"
  /\ handler[k] = "done" => tail[k] \in {"none", "reaped"}

\* After a line come the later ones, each once and in order.
Follow(lines, last) ==
  \A i \in DOMAIN lines : lines[i].n # 0 =>
    /\ lines[i].n <= last
    /\ \A j \in DOMAIN lines : i < j /\ lines[j].n # 0 =>
         lines[i].n < lines[j].n /\ lines[j].n <= last
    /\ \A m \in lines[i].n + 1..last : \E j \in DOMAIN lines : i < j /\ lines[j].n = m

\* size is the length of the text, the placeholder not counted; of more than one flush
\* it is within the bound.
TextInv ==
  /\ \A i \in DOMAIN text : text[i].sock = opened
  /\ \A c \in starts : c < Len(text)
  /\ opened = NoSocket => text = <<>>
  /\ opened # NoSocket => /\ Len(text) \in {size[opened], size[opened] + 1}
                          /\ starts \ {0} # {} => size[opened] <= LogMax

Inv ==
  /\ TypeOK /\ TextInv
  /\ \A k \in Sockets : Untouched(k) /\ OwnText(k) /\ Frames(k) /\ TailOf(k)
  /\ logSocket # NoSocket => Follow(text \o pending[logSocket], got[logSocket])

-----------------------------------------------------------------------------
(* Numbers and sequences.                                                    *)

LEMMA Least ==
  ASSUME NEW S \in SUBSET Nat, S # {}
  PROVE  \E x \in S : \A y \in S : x <= y
<1> DEFINE R == {ss \in Nat \X Nat : ss[1] < ss[2]}
<1>1. IsWellFoundedOn(R, Nat)
  BY NatLessThanWellFounded DEF OpToRel
<1> HIDE DEF R
<1>2. PICK x \in S : \A y \in S : ~ (<<y, x>> \in R)
  BY <1>1, WFMin
<1>3. \A y \in S : ~ (y < x)
  BY <1>2 DEF R
<1>4. QED
  BY <1>3

\* What flush cuts off is a number of lines at which a node starts.
LEMMA TrimmedType ==
  ASSUME NEW heads \in SUBSET Nat, NEW last \in heads, NEW total \in Nat
  PROVE  /\ Trimmed(heads, last, total) \in heads
         /\ total - Trimmed(heads, last, total) <= LogMax \/ Trimmed(heads, last, total) = last
<1>1. PICK enough \in SUBSET heads : enough = {c \in heads : total - c <= LogMax}
  OBVIOUS
<1>2. Trimmed(heads, last, total) = IF enough = {} THEN last ELSE Min(enough)
  BY <1>1 DEF Trimmed
<1>3. CASE enough = {}
  BY <1>2, <1>3
<1>4. CASE enough # {}
  <2>1. \E x \in enough : \A y \in enough : x <= y
    BY <1>4, Least
  <2>2. Min(enough) \in enough
    BY <2>1 DEF Min
  <2>3. QED
    BY <1>1, <1>2, <1>4, <2>2
<1>5. QED
  BY <1>3, <1>4

\* One more line follows the others if it has no number or the next one.
LEMMA FollowAppend ==
  ASSUME NEW s \in Seq(Lines), NEW t \in Seq(Lines), NEW last \in Nat, NEW next \in Nat,
         Follow(s, last), Len(t) = Len(s) + 1, \A i \in 1..Len(s) : t[i] = s[i],
         \/ t[Len(t)].n = 0 /\ next = last
         \/ t[Len(t)].n = last + 1 /\ next = last + 1
  PROVE  Follow(t, next)
<1>1. /\ Len(s) \in Nat /\ DOMAIN s = 1..Len(s) /\ DOMAIN t = 1..(Len(s) + 1)
      /\ \A i \in DOMAIN t : t[i].n \in Nat
      /\ \A i \in DOMAIN s : t[i] = s[i]
      /\ \/ t[Len(s) + 1].n = 0 /\ next = last
         \/ t[Len(s) + 1].n = last + 1 /\ next = last + 1
  <2>1. Len(s) \in Nat /\ DOMAIN s = 1..Len(s) /\ DOMAIN t = 1..(Len(s) + 1)
    OBVIOUS
  <2>2. \A i \in DOMAIN t : t[i] \in Lines
    BY <2>1
  <2>3. QED
    BY <2>1, <2>2 DEF Lines
<1>2. ASSUME NEW i \in DOMAIN t, t[i].n # 0
      PROVE  /\ t[i].n <= next
             /\ \A j \in DOMAIN t : i < j /\ t[j].n # 0 => t[i].n < t[j].n /\ t[j].n <= next
             /\ \A m \in t[i].n + 1..next : \E j \in DOMAIN t : i < j /\ t[j].n = m
  <2>1. CASE i = Len(s) + 1
    BY <1>1, <1>2, <2>1
  <2>2. CASE i # Len(s) + 1
    <3>1. /\ i \in DOMAIN s /\ s[i] = t[i] /\ i < Len(s) + 1
          /\ t[i].n <= last
          /\ \A j \in DOMAIN s : i < j /\ s[j].n # 0 => t[i].n < s[j].n /\ s[j].n <= last
          /\ \A m \in t[i].n + 1..last : \E j \in DOMAIN s : i < j /\ s[j].n = m
      BY <1>1, <1>2, <2>2 DEF Follow
    <3>2. ASSUME NEW j \in DOMAIN t, i < j, t[j].n # 0
          PROVE  t[i].n < t[j].n /\ t[j].n <= next
      <4>1. CASE j = Len(s) + 1
        BY <1>1, <3>1, <3>2, <4>1
      <4>2. CASE j # Len(s) + 1
        <5>1. j \in DOMAIN s /\ t[j] = s[j]
          BY <1>1, <4>2
        <5>2. QED
          BY <1>1, <3>1, <3>2, <5>1
      <4>3. QED
        BY <4>1, <4>2
    <3>3. ASSUME NEW m \in t[i].n + 1..next
          PROVE  \E j \in DOMAIN t : i < j /\ t[j].n = m
      <4>1. CASE m <= last
        <5>1. PICK j \in DOMAIN s : i < j /\ s[j].n = m
          BY <1>1, <3>1, <4>1
        <5>2. j \in DOMAIN t /\ t[j].n = m
          BY <1>1, <5>1
        <5>3. QED
          BY <5>1, <5>2
      <4>2. CASE m > last
        <5>1. Len(t) \in DOMAIN t /\ i < Len(t) /\ t[Len(t)].n = m
          BY <1>1, <2>2, <4>2
        <5>2. QED
          BY <5>1
      <4>3. QED
        BY <1>1, <4>1, <4>2
    <3>4. QED
      BY <1>1, <3>1, <3>2, <3>3
  <2>3. QED
    BY <2>1, <2>2
<1>3. QED
  BY <1>2 DEF Follow

\* The end of what follows follows.
LEMMA FollowEnd ==
  ASSUME NEW s \in Seq(Lines), NEW t \in Seq(Lines), NEW last \in Nat,
         Follow(s, last), NEW c \in Nat, c <= Len(s), Len(t) = Len(s) - c,
         \A i \in 1..Len(t) : t[i] = s[i + c]
  PROVE  Follow(t, last)
<1>1. /\ Len(s) \in Nat /\ DOMAIN s = 1..Len(s) /\ DOMAIN t = 1..(Len(s) - c)
      /\ \A i \in DOMAIN t : i + c \in DOMAIN s /\ t[i] = s[i + c]
  <2>1. /\ Len(s) \in Nat /\ DOMAIN s = 1..Len(s) /\ Len(t) \in Nat /\ DOMAIN t = 1..Len(t)
        /\ c + Len(t) = Len(s)
    OBVIOUS
  <2>2. \A i \in 1..Len(t) : i + c \in 1..Len(s)
    BY <2>1
  <2>3. QED
    BY <2>1, <2>2
<1>2. ASSUME NEW i \in DOMAIN t, t[i].n # 0
      PROVE  /\ t[i].n <= last
             /\ \A j \in DOMAIN t : i < j /\ t[j].n # 0 => t[i].n < t[j].n /\ t[j].n <= last
             /\ \A m \in t[i].n + 1..last : \E j \in DOMAIN t : i < j /\ t[j].n = m
  <2>1. /\ i + c \in DOMAIN s /\ t[i].n = s[i + c].n
        /\ t[i].n <= last
        /\ \A j \in DOMAIN s : i + c < j /\ s[j].n # 0 => t[i].n < s[j].n /\ s[j].n <= last
        /\ \A m \in t[i].n + 1..last : \E j \in DOMAIN s : i + c < j /\ s[j].n = m
    BY <1>1, <1>2 DEF Follow
  <2>2. \A j \in DOMAIN t : i < j => i + c < j + c
    BY <1>1
  <2>3. ASSUME NEW m \in t[i].n + 1..last
        PROVE  \E j \in DOMAIN t : i < j /\ t[j].n = m
    <3>1. PICK j \in DOMAIN s : i + c < j /\ s[j].n = m
      BY <2>1
    <3>2. j - c \in DOMAIN t /\ i < j - c /\ (j - c) + c = j
      BY <1>1, <3>1
    <3>3. t[j - c].n = m
      BY <1>1, <3>1, <3>2
    <3>4. QED
      BY <3>2, <3>3
  <2>4. QED
    BY <1>1, <2>1, <2>2, <2>3
<1>3. QED
  BY <1>2 DEF Follow

-----------------------------------------------------------------------------
(* The steps of a handler and its tail.                                      *)

LEMMA InitInv == Init => Inv
<1> SUFFICES ASSUME Init PROVE Inv
  OBVIOUS
<1>1. <<>> \in Seq(Lines)
  OBVIOUS
<1>2. TypeOK
  <2>1. /\ text \in Seq(Lines) /\ starts \in SUBSET Nat
        /\ pending \in [Sockets -> Seq(Lines)] /\ wire \in [Sockets -> Seq(Lines)]
    BY <1>1 DEF Init
  <2>2. /\ size \in [Sockets -> Nat] /\ got \in [Sockets -> Nat]
        /\ printed \in [Sockets -> Nat] /\ sent \in [Sockets -> Nat]
    BY DEF Init
  <2>3. QED
    BY <2>1, <2>2 DEF Init, TypeOK, NoSocket
<1>3. TextInv
  BY DEF Init, TextInv, NoSocket
<1>4. ASSUME NEW k \in Sockets PROVE Untouched(k) /\ OwnText(k) /\ Frames(k) /\ TailOf(k)
  <2>1. /\ pending[k] = <<>> /\ wire[k] = <<>> /\ got[k] = 0 /\ size[k] = 0 /\ sent[k] = 0
        /\ gone[k] = FALSE /\ handler[k] = "none" /\ tail[k] = "none"
    BY DEF Init
  <2>2. QED
    BY <2>1 DEF Untouched, OwnText, Frames, TailOf
<1>5. QED
  BY <1>2, <1>3, <1>4 DEF Inv, Init

LEMMA Bounds ==
  ASSUME TypeOK
  PROVE  /\ opened \in Nat /\ Sockets \subseteq Nat \ {0} /\ NoSocket = 0
         /\ logSocket \in Nat /\ (logSocket # NoSocket => logSocket \in Sockets /\ logSocket = opened)
BY LogAssumption DEF TypeOK, Sockets, NoSocket

\* A step that is about one socket and leaves the viewer alone.
LEMMA HandlerKeeps ==
  ASSUME Inv, TypeOK', UNCHANGED viewer, NEW k \in Sockets, k <= opened,
         \A j \in Sockets \ {k} : /\ wire'[j] = wire[j] /\ gone'[j] = gone[j]
                                  /\ handler'[j] = handler[j] /\ tail'[j] = tail[j]
                                  /\ sent'[j] = sent[j],
         \A i \in DOMAIN wire'[k] : wire'[k][i].sock = k, Frames(k)', TailOf(k)'
  PROVE  Inv'
<1>1. UNCHANGED <<opened, logSocket, text, starts, pending, size, got>>
  BY DEF viewer
<1>2. TextInv'
  BY <1>1 DEF Inv, TextInv
<1>3. logSocket' # NoSocket => Follow(text \o pending[logSocket], got[logSocket])'
  BY <1>1 DEF Inv, Follow
<1>4. ASSUME NEW j \in Sockets
      PROVE  Untouched(j)' /\ OwnText(j)' /\ Frames(j)' /\ TailOf(j)'
  <2>1. Untouched(j) /\ OwnText(j) /\ Frames(j) /\ TailOf(j)
    BY DEF Inv
  <2>2. CASE j = k
    <3>1. ~ (k > opened)
      BY Bounds DEF Inv
    <3>2. QED
      BY <1>1, <2>1, <2>2, <3>1 DEF Untouched, OwnText
  <2>3. CASE j # k
    BY <1>1, <2>1, <2>3 DEF Untouched, OwnText, Frames, TailOf
  <2>4. QED
    BY <2>2, <2>3
<1>5. QED
  BY <1>2, <1>3, <1>4 DEF Inv

\* Whose handler or tail has started is open.
LEMMA Started ==
  ASSUME Inv, NEW k \in Sockets, handler[k] # "none" \/ tail[k] = "running"
  PROVE  k <= opened
<1>1. handler[k] # "none"
  BY DEF Inv, TailOf
<1>2. k \in Nat /\ opened \in Nat
  BY Bounds DEF Inv
<1>3. QED
  BY <1>1, <1>2 DEF Inv, Untouched

LEMMA AppendFacts ==
  ASSUME NEW s \in Seq(Lines), NEW line \in Lines
  PROVE  /\ Append(s, line) \in Seq(Lines) /\ Len(Append(s, line)) = Len(s) + 1
         /\ Len(s) \in Nat /\ DOMAIN s = 1..Len(s)
         /\ DOMAIN Append(s, line) = 1..(Len(s) + 1)
         /\ \A i \in 1..Len(s) : Append(s, line)[i] = s[i]
         /\ Append(s, line)[Len(s) + 1] = line
OBVIOUS

\* What a frame sent does to the wire.
LEMMA SendAppends ==
  ASSUME TypeOK, NEW k \in Sockets, NEW line \in Lines, Send(k, line)
  PROVE  /\ wire' \in [Sockets -> Seq(Lines)]
         /\ \A j \in Sockets \ {k} : wire'[j] = wire[j]
         /\ wire'[k] = IF gone[k] THEN wire[k] ELSE Append(wire[k], line)
<1>1. wire[k] \in Seq(Lines) /\ Append(wire[k], line) \in Seq(Lines)
  BY AppendFacts DEF TypeOK
<1>2. QED
  BY <1>1 DEF Send, TypeOK

\* A frame of the socket is on its own wire.
LEMMA SendOwn ==
  ASSUME TypeOK, NEW k \in Sockets, OwnText(k), NEW line \in Lines, line.sock = k, Send(k, line)
  PROVE  \A i \in DOMAIN wire'[k] : wire'[k][i].sock = k
<1>1. PICK s \in Seq(Lines) : s = wire[k]
  BY DEF TypeOK
<1>2. \A i \in DOMAIN s : s[i].sock = k
  BY <1>1 DEF OwnText
<1>3. \A i \in DOMAIN Append(s, line) : Append(s, line)[i].sock = k
  BY <1>2, AppendFacts
<1>4. QED
  BY <1>1, <1>2, <1>3, SendAppends

LEMMA PathMissingKeeps == ASSUME Inv, NEW k \in Sockets, PathMissing(k) PROVE Inv'
<1>1. /\ TypeOK /\ OwnText(k) /\ Frames(k) /\ TailOf(k) /\ handler[k] = "lookup"
      /\ handler' = [handler EXCEPT ![k] = "done"]
      /\ UNCHANGED <<viewer, client, gone, tail, printed, sent>>
  BY DEF Inv, PathMissing, Goto
<1>2. PICK note \in Lines : note.sock = k /\ note.n = 0 /\ Send(k, note)
  <2>1. Note(k) \in Lines /\ Note(k).sock = k /\ Note(k).n = 0
    BY Bounds, <1>1 DEF Note, Line, Lines
  <2>2. QED
    BY <2>1 DEF PathMissing
<1>3. TypeOK'
  <2>1. wire' \in [Sockets -> Seq(Lines)]
    BY <1>1, <1>2, SendAppends
  <2>2. QED
    BY <1>1, <2>1 DEF TypeOK, viewer
<1>4. \A i \in DOMAIN wire'[k] : wire'[k][i].sock = k
  BY <1>1, <1>2, SendOwn
<1>5. handler'[k] = "done" /\ sent[k] = 0 /\ tail[k] = "none" /\ got' = got /\ gone' = gone
  BY <1>1 DEF TypeOK, TailOf, viewer
<1>6. Frames(k)'
  <2>1. CASE gone[k]
    <3>1. wire'[k] = <<>>
      BY <1>1, <1>2, <2>1, SendAppends DEF Frames
    <3>2. QED
      BY <1>5, <2>1, <3>1 DEF Frames
  <2>2. CASE ~gone[k]
    <3>1. PICK s \in Seq(Lines) : s = wire[k]
      BY <1>1 DEF TypeOK
    <3>2. Len(s) = 0
      <4>1. s = <<>> \/ sent[k] = got[k] + Len(s)
        BY <1>1, <2>2, <3>1 DEF Frames
      <4>2. Len(s) \in Nat /\ got[k] \in Nat
        BY <1>1 DEF TypeOK
      <4>3. QED
        BY <1>5, <4>1, <4>2
    <3>3. \A i \in DOMAIN Append(s, note) : Append(s, note)[i].n = 0
      BY <1>2, <3>2, AppendFacts
    <3>4. wire'[k] = Append(s, note)
      BY <1>1, <1>2, <2>2, <3>1, SendAppends
    <3>5. QED
      BY <1>5, <2>2, <3>3, <3>4 DEF Frames
  <2>3. QED
    BY <2>1, <2>2
<1>7. TailOf(k)'
  BY <1>1, <1>5 DEF TailOf
<1>8. \A j \in Sockets \ {k} : /\ wire'[j] = wire[j] /\ gone'[j] = gone[j]
                               /\ handler'[j] = handler[j] /\ tail'[j] = tail[j]
                               /\ sent'[j] = sent[j]
  BY <1>1, <1>2, SendAppends DEF TypeOK
<1>9. k <= opened
  BY <1>1, Started
<1>10. QED
  BY <1>1, <1>3, <1>4, <1>6, <1>7, <1>8, <1>9, HandlerKeeps

\* A line pump takes is the next one on the wire.
LEMMA PumpKeeps == ASSUME Inv, NEW k \in Sockets, Pump(k) PROVE Inv'
<1>1. /\ TypeOK /\ OwnText(k) /\ Frames(k) /\ TailOf(k) /\ handler[k] = "stream"
      /\ sent' = [sent EXCEPT ![k] = sent[k] + 1]
      /\ handler' = handler \/ handler' = [handler EXCEPT ![k] = "cleanup"]
      /\ UNCHANGED <<viewer, client, gone, tail, printed>>
  BY DEF Inv, Pump, Goto
<1>2. PICK line \in Lines : line.sock = k /\ line.n = sent[k] + 1 /\ Send(k, line)
  <2>1. k \in Nat /\ sent[k] + 1 \in Nat
    <3>1. k \in Nat
      BY <1>1, Bounds
    <3>2. sent[k] \in Nat
      BY <1>1 DEF TypeOK
    <3>3. QED
      BY <3>1, <3>2
  <2>2. /\ Line(k, sent[k] + 1) \in Lines
        /\ Line(k, sent[k] + 1).sock = k /\ Line(k, sent[k] + 1).n = sent[k] + 1
    BY <2>1 DEF Line, Lines
  <2>3. Send(k, Line(k, sent[k] + 1))
    BY DEF Pump
  <2>4. QED
    BY <2>2, <2>3
<1>3. /\ handler'[k] \in {"stream", "cleanup"} /\ sent'[k] = sent[k] + 1 /\ sent[k] \in Nat
      /\ gone' = gone /\ got' = got
  BY <1>1 DEF TypeOK, viewer
<1>4. TypeOK'
  <2>1. wire' \in [Sockets -> Seq(Lines)]
    BY <1>1, <1>2, SendAppends
  <2>2. sent' \in [Sockets -> Nat]
    BY <1>1, <1>3 DEF TypeOK
  <2>3. QED
    BY <1>1, <2>1, <2>2 DEF TypeOK, viewer
<1>5. \A i \in DOMAIN wire'[k] : wire'[k][i].sock = k
  BY <1>1, <1>2, SendOwn
<1>6. Frames(k)'
  <2>1. CASE gone[k]
    <3>1. wire'[k] = <<>>
      BY <1>1, <1>2, <2>1, SendAppends DEF Frames
    <3>2. QED
      BY <1>3, <2>1, <3>1 DEF Frames
  <2>2. CASE ~gone[k]
    <3>1. PICK s \in Seq(Lines) : s = wire[k]
      BY <1>1 DEF TypeOK
    <3>2. PICK g \in Nat : g = got[k]
      BY <1>1 DEF TypeOK
    <3>3. sent[k] = g + Len(s) /\ \A i \in DOMAIN s : s[i].n = g + i
      BY <1>1, <2>2, <3>1, <3>2 DEF Frames
    <3>4. sent[k] + 1 = g + Len(Append(s, line))
      BY <3>3, AppendFacts
    <3>5. \A i \in DOMAIN Append(s, line) : Append(s, line)[i].n = g + i
      BY <1>2, <3>3, AppendFacts
    <3>6. wire'[k] = Append(s, line)
      BY <1>1, <1>2, <2>2, <3>1, SendAppends
    <3>7. QED
      BY <1>3, <2>2, <3>2, <3>4, <3>5, <3>6 DEF Frames
  <2>3. QED
    BY <2>1, <2>2
<1>7. TailOf(k)'
  BY <1>1, <1>3 DEF TailOf
<1>8. \A j \in Sockets \ {k} : /\ wire'[j] = wire[j] /\ gone'[j] = gone[j]
                               /\ handler'[j] = handler[j] /\ tail'[j] = tail[j]
                               /\ sent'[j] = sent[j]
  BY <1>1, <1>2, SendAppends DEF TypeOK
<1>9. k <= opened
  BY <1>1, Started
<1>10. QED
  BY <1>1, <1>4, <1>5, <1>6, <1>7, <1>8, <1>9, HandlerKeeps

\* The other steps of a handler and its tail put nothing on the wire.
LEMMA ControlKeeps ==
  ASSUME Inv, NEW k \in Sockets,
         \/ Accept(k) \/ PathFound(k) \/ Spawned(k) \/ PumpEnds(k) \/ UntilDisconnect(k)
         \/ Cancelled(k) \/ Kill(k) \/ Reap(k) \/ TailPrints(k) \/ TailDies(k)
  PROVE  Inv'
<1>1. TypeOK /\ OwnText(k) /\ Frames(k) /\ TailOf(k) /\ UNCHANGED <<viewer, client, wire, gone, sent>>
  BY DEF Inv, Accept, PathFound, Spawned, PumpEnds, UntilDisconnect, Cancelled, Kill, Reap,
         TailPrints, TailDies
<1>2. /\ handler' \in [Sockets -> {"none", "refused", "lookup", "spawn", "stream", "cleanup",
                                   "wait", "done"}]
      /\ tail' \in [Sockets -> {"none", "running", "exited", "reaped"}]
      /\ \A j \in Sockets \ {k} : handler'[j] = handler[j] /\ tail'[j] = tail[j]
  BY <1>1 DEF Accept, PathFound, Spawned, PumpEnds, UntilDisconnect, Cancelled, Kill, Reap,
         TailPrints, TailDies, Goto, TypeOK
<1>3. printed' \in [Sockets -> Nat]
  <2>1. CASE TailPrints(k)
    BY <1>1, <2>1 DEF TailPrints, TypeOK
  <2>2. CASE ~TailPrints(k)
    BY <1>1, <2>2 DEF Accept, PathFound, Spawned, PumpEnds, UntilDisconnect, Cancelled, Kill,
       Reap, TailDies, TypeOK
  <2>3. QED
    BY <2>1, <2>2
<1>4. TypeOK'
  BY <1>1, <1>2, <1>3 DEF TypeOK, viewer
<1>5. TailOf(k)'
  <2>1. CASE Accept(k)
    BY <1>1, <2>1 DEF Accept, Goto, TailOf, TypeOK
  <2>2. CASE PathFound(k)
    BY <1>1, <2>2 DEF PathFound, Goto, TailOf, TypeOK
  <2>3. CASE Spawned(k)
    BY <1>1, <2>3 DEF Spawned, Goto, TailOf, TypeOK
  <2>4. CASE PumpEnds(k) \/ UntilDisconnect(k)
    BY <1>1, <2>4 DEF PumpEnds, UntilDisconnect, Goto, TailOf, TypeOK
  <2>5. CASE Cancelled(k)
    BY <1>1, <2>5 DEF Cancelled, Goto, TailOf, TypeOK
  <2>6. CASE Kill(k)
    BY <1>1, <2>6 DEF Kill, Goto, TailOf, TypeOK
  <2>7. CASE Reap(k)
    BY <1>1, <2>7 DEF Reap, Goto, TailOf, TypeOK
  <2>8. CASE TailPrints(k)
    BY <1>1, <2>8 DEF TailPrints, TailOf, TypeOK
  <2>9. CASE TailDies(k)
    BY <1>1, <2>9 DEF TailDies, TailOf, TypeOK
  <2>10. QED
    BY <2>1, <2>2, <2>3, <2>4, <2>5, <2>6, <2>7, <2>8, <2>9
<1>6. handler[k] = "done" => handler'[k] = "done"
  BY <1>1 DEF Accept, PathFound, Spawned, PumpEnds, UntilDisconnect, Cancelled, Kill, Reap,
         TailPrints, TailDies, Goto
<1>7. Frames(k)'
  BY <1>1, <1>6 DEF Frames, viewer
<1>8. k <= opened
  <2>1. CASE Accept(k)
    BY <2>1 DEF Accept
  <2>2. CASE ~Accept(k)
    <3>1. handler[k] # "none" \/ tail[k] = "running"
      BY <2>2 DEF PathFound, Spawned, PumpEnds, UntilDisconnect, Cancelled, Kill, Reap,
         TailPrints, TailDies
    <3>2. QED
      BY <3>1, Started
  <2>3. QED
    BY <2>1, <2>2
<1>9. QED
  BY <1>1, <1>2, <1>4, <1>5, <1>7, <1>8, HandlerKeeps DEF OwnText

-----------------------------------------------------------------------------
(* The steps of the viewer.                                                  *)

LEMMA ConcatFacts ==
  ASSUME NEW s \in Seq(Lines), NEW t \in Seq(Lines)
  PROVE  /\ s \o t \in Seq(Lines) /\ Len(s \o t) = Len(s) + Len(t)
         /\ Len(s) \in Nat /\ Len(t) \in Nat
         /\ DOMAIN (s \o t) = 1..(Len(s) + Len(t))
         /\ DOMAIN s = 1..Len(s) /\ DOMAIN t = 1..Len(t)
         /\ \A i \in 1..Len(s) : (s \o t)[i] = s[i]
         /\ \A i \in 1..Len(t) : (s \o t)[i + Len(s)] = t[i]
         /\ \A i \in 1..(Len(s) + Len(t)) :
              (s \o t)[i] = IF i <= Len(s) THEN s[i] ELSE t[i - Len(s)]
OBVIOUS

LEMMA SubSeqFacts ==
  ASSUME NEW s \in Seq(Lines), NEW c \in Nat, c <= Len(s)
  PROVE  /\ SubSeq(s, c + 1, Len(s)) \in Seq(Lines)
         /\ Len(SubSeq(s, c + 1, Len(s))) = Len(s) - c
         /\ \A i \in 1..(Len(s) - c) : i + c \in 1..Len(s) /\ SubSeq(s, c + 1, Len(s))[i] = s[i + c]
<1>1. Len(s) \in Nat /\ \A i \in 1..Len(s) : s[i] \in Lines
  OBVIOUS
<1>2. \A i \in 1..(Len(s) - c) : i + c \in 1..Len(s)
  BY <1>1
<1>3. SubSeq(s, c + 1, Len(s)) = [i \in 1..(Len(s) - c) |-> s[i + c]]
  BY <1>1
<1>4. Len(s) - c \in Nat
  BY <1>1
<1>5. QED
  BY <1>1, <1>2, <1>3, <1>4

\* A line that is buffered follows what is shown and buffered.
LEMMA AppendLineKeeps ==
  ASSUME Inv, NEW k \in Sockets, k = logSocket, NEW line \in Lines, line.sock = k,
         AppendLine(k, line), NEW next \in Nat,
         \/ line.n = 0 /\ next = got[k]
         \/ line.n = got[k] + 1 /\ next = got[k] + 1
  PROVE  /\ pending' \in [Sockets -> Seq(Lines)] /\ flushing' \in [Sockets -> BOOLEAN]
         /\ \A j \in Sockets \ {k} : pending'[j] = pending[j]
         /\ \A i \in DOMAIN pending'[k] : pending'[k][i].sock = k
         /\ Follow(text \o pending'[k], next)
<1>1. TypeOK /\ OwnText(k) /\ Follow(text \o pending[k], got[k])
  BY Bounds DEF Inv
<1>2. PICK s \in Seq(Lines) : s = pending[k]
  BY <1>1 DEF TypeOK
<1>3. PICK g \in Nat : g = got[k]
  BY <1>1 DEF TypeOK
<1>4. PICK t \in Seq(Lines) : t = text
  BY <1>1 DEF TypeOK
<1>5. Append(s, line) \in Seq(Lines)
  BY AppendFacts
<1>6. pending' = [pending EXCEPT ![k] = Append(s, line)]
  BY <1>2 DEF AppendLine
<1>7. /\ pending' \in [Sockets -> Seq(Lines)] /\ pending'[k] = Append(s, line)
      /\ \A j \in Sockets \ {k} : pending'[j] = pending[j]
  BY <1>1, <1>5, <1>6 DEF TypeOK
<1>8. \A i \in DOMAIN Append(s, line) : Append(s, line)[i].sock = k
  BY <1>1, <1>2, AppendFacts DEF OwnText
<1>9. Follow(t \o Append(s, line), next)
  <2>1. PICK u \in Seq(Lines) : u = t \o s
    BY ConcatFacts
  <2>2. PICK v \in Seq(Lines) : v = t \o Append(s, line)
    BY <1>5, ConcatFacts
  <2>3. /\ Len(u) = Len(t) + Len(s) /\ Len(v) = Len(t) + (Len(s) + 1)
        /\ Len(t) \in Nat /\ Len(s) \in Nat
    BY <1>5, <2>1, <2>2, ConcatFacts, AppendFacts
  <2>4. \A i \in 1..Len(u) : v[i] = u[i]
    <3>1. ASSUME NEW i \in 1..Len(u) PROVE v[i] = u[i]
      <4>1. u[i] = IF i <= Len(t) THEN t[i] ELSE s[i - Len(t)]
        BY <2>1, <2>3, <3>1, ConcatFacts
      <4>2. v[i] = IF i <= Len(t) THEN t[i] ELSE Append(s, line)[i - Len(t)]
        <5>1. PICK w \in Seq(Lines) : w = Append(s, line)
          BY <1>5
        <5>2. Len(w) = Len(s) + 1
          BY <5>1, AppendFacts
        <5>3. i \in 1..(Len(t) + Len(w))
          BY <2>3, <3>1, <5>2
        <5>4. v = t \o w
          BY <2>2, <5>1
        <5>5. v[i] = IF i <= Len(t) THEN t[i] ELSE w[i - Len(t)]
          BY <5>3, <5>4, ConcatFacts
        <5>6. QED
          BY <5>1, <5>5
      <4>3. i > Len(t) => i - Len(t) \in 1..Len(s)
        BY <2>3, <3>1
      <4>4. i > Len(t) => Append(s, line)[i - Len(t)] = s[i - Len(t)]
        BY <4>3, AppendFacts
      <4>5. i <= Len(t) \/ i > Len(t)
        BY <2>3
      <4>6. CASE i <= Len(t)
        BY <4>1, <4>2, <4>6
      <4>7. CASE ~ (i <= Len(t))
        BY <4>1, <4>2, <4>4, <4>5, <4>7
      <4>8. QED
        BY <4>6, <4>7
    <3>2. QED
      BY <3>1
  <2>5. v[Len(v)] = line
    <3>1. /\ Len(s) + 1 \in 1..Len(Append(s, line))
          /\ Append(s, line)[Len(s) + 1] = line
          /\ (Len(s) + 1) + Len(t) = Len(v)
      BY <2>3, AppendFacts
    <3>2. v[(Len(s) + 1) + Len(t)] = Append(s, line)[Len(s) + 1]
      BY <1>5, <2>2, <3>1, ConcatFacts
    <3>3. QED
      BY <3>1, <3>2
  <2>6. Follow(u, g)
    BY <1>1, <1>2, <1>3, <1>4, <2>1
  <2>7. Len(v) = Len(u) + 1
    BY <2>3
  <2>8. \/ line.n = 0 /\ next = g
        \/ line.n = g + 1 /\ next = g + 1
    BY <1>3
  <2>9. Follow(v, next)
    BY <2>4, <2>5, <2>6, <2>7, <2>8, FollowAppend
  <2>10. QED
    BY <2>2, <2>9
<1>10. QED
  BY <1>1, <1>4, <1>7, <1>8, <1>9 DEF AppendLine, TypeOK

\* A socket the viewer leaves is gone, with the frames on it.
LEMMA HangupKeeps ==
  ASSUME Inv, Hangup, UNCHANGED <<pending, got, size, server>>
  PROVE  /\ wire' \in [Sockets -> Seq(Lines)] /\ gone' \in [Sockets -> BOOLEAN]
         /\ \A j \in Sockets : OwnText(j)' /\ Frames(j)' /\ TailOf(j)'
         /\ \A j \in Sockets : j > opened =>
              /\ pending'[j] = <<>> /\ wire'[j] = <<>> /\ got'[j] = 0 /\ size'[j] = 0
              /\ sent'[j] = 0 /\ ~gone'[j] /\ handler'[j] = "none"
<1>1. TypeOK /\ UNCHANGED <<pending, got, size, handler, tail, printed, sent>> /\ <<>> \in Seq(Lines)
  BY DEF Inv, server
<1>2. wire' \in [Sockets -> Seq(Lines)] /\ gone' \in [Sockets -> BOOLEAN]
  BY <1>1 DEF Hangup, TypeOK
<1>3. \A j \in Sockets : /\ j = logSocket => wire'[j] = <<>> /\ gone'[j]
                         /\ j # logSocket => wire'[j] = wire[j] /\ gone'[j] = gone[j]
  BY <1>1 DEF Hangup, TypeOK
<1>4. ASSUME NEW j \in Sockets PROVE OwnText(j)' /\ Frames(j)' /\ TailOf(j)'
  <2>1. OwnText(j) /\ Frames(j) /\ TailOf(j)
    BY DEF Inv
  <2>2. CASE j = logSocket
    BY <1>1, <1>3, <2>1, <2>2 DEF OwnText, Frames, TailOf
  <2>3. CASE j # logSocket
    BY <1>1, <1>3, <2>1, <2>3 DEF OwnText, Frames, TailOf
  <2>4. QED
    BY <2>2, <2>3
<1>5. ASSUME NEW j \in Sockets, j > opened
      PROVE  /\ pending'[j] = <<>> /\ wire'[j] = <<>> /\ got'[j] = 0 /\ size'[j] = 0
             /\ sent'[j] = 0 /\ ~gone'[j] /\ handler'[j] = "none"
  <2>1. j # logSocket
    BY <1>1, <1>5, Bounds
  <2>2. Untouched(j)
    BY DEF Inv
  <2>3. QED
    BY <1>1, <1>3, <1>5, <2>1, <2>2 DEF Untouched
<1>6. QED
  BY <1>2, <1>4, <1>5

LEMMA OpenViewerKeeps == ASSUME Inv, OpenViewer PROVE Inv'
<1>1. PICK k \in Sockets : k = opened + 1
  BY DEF OpenViewer
<1>2. /\ TypeOK /\ Hangup /\ opened' = k /\ logSocket' = k
      /\ text' = <<Note(k)>> /\ starts' = {0}
      /\ client' = [j \in Sockets |-> IF j = k THEN "connecting"
                                      ELSE IF j = logSocket THEN "closed" ELSE client[j]]
      /\ UNCHANGED <<pending, flushing, size, got, server>>
  BY <1>1 DEF Inv, OpenViewer
<1>3. k \in Nat /\ k # 0 /\ opened \in Nat /\ k > opened /\ NoSocket = 0
  BY <1>1, <1>2, Bounds
<1>4. PICK note \in Lines : note = Note(k) /\ note.sock = k /\ note.n = 0
  <2>1. Note(k) \in Lines /\ Note(k).sock = k /\ Note(k).n = 0
    BY <1>3 DEF Note, Line, Lines
  <2>2. QED
    BY <2>1
<1>5. PICK t \in Seq(Lines) : t = <<note>> /\ Len(t) = 1 /\ t[1] = note /\ DOMAIN t = {1}
  <2>1. <<note>> \in Seq(Lines)
    OBVIOUS
  <2>2. Len(<<note>>) = 1 /\ <<note>>[1] = note
    OBVIOUS
  <2>3. DOMAIN <<note>> = {1}
    OBVIOUS
  <2>4. QED
    BY <2>1, <2>2, <2>3
<1>6. text' = t
  BY <1>2, <1>4, <1>5
<1>7. TypeOK'
  <2>1. client' \in [Sockets -> {"none", "connecting", "open", "failing", "closed"}]
    BY <1>2 DEF TypeOK
  <2>2. wire' \in [Sockets -> Seq(Lines)] /\ gone' \in [Sockets -> BOOLEAN]
    BY <1>2, HangupKeeps
  <2>3. starts' \in SUBSET Nat /\ opened' \in Sockets /\ logSocket' = opened'
    BY <1>2
  <2>4. text' \in Seq(Lines)
    BY <1>6
  <2>5. QED
    BY <1>2, <2>1, <2>2, <2>3, <2>4 DEF TypeOK, server
<1>8. /\ pending'[k] = <<>> /\ size'[k] = 0
      /\ \A j \in Sockets : Untouched(j)' /\ OwnText(j)' /\ Frames(j)' /\ TailOf(j)'
  <2>1. \A j \in Sockets : j > k => j > opened
    BY <1>3, Bounds, <1>2
  <2>2. QED
    BY <1>2, <1>3, <2>1, HangupKeeps DEF Untouched
<1>9. TextInv'
  BY <1>2, <1>3, <1>4, <1>5, <1>6, <1>8 DEF TextInv
<1>10. Follow(text \o pending[logSocket], got[logSocket])'
  <2>1. PICK u \in Seq(Lines) : u = t \o <<>>
    OBVIOUS
  <2>2. \A i \in DOMAIN u : u[i].n = 0
    BY <1>4, <1>5, <2>1
  <2>3. Follow(u, got'[k])
    BY <2>2 DEF Follow
  <2>4. QED
    BY <1>2, <1>6, <1>8, <2>1, <2>3
<1>11. QED
  BY <1>7, <1>8, <1>9, <1>10 DEF Inv

LEMMA CloseViewerKeeps == ASSUME Inv, CloseViewer PROVE Inv'
<1>1. /\ TypeOK /\ Hangup /\ logSocket' = NoSocket
      /\ client' = [client EXCEPT ![logSocket] = "closed"]
      /\ UNCHANGED <<opened, text, starts, pending, flushing, size, got, server>>
  BY DEF Inv, CloseViewer
<1>2. TypeOK'
  <2>1. client' \in [Sockets -> {"none", "connecting", "open", "failing", "closed"}]
    BY <1>1 DEF TypeOK
  <2>2. wire' \in [Sockets -> Seq(Lines)] /\ gone' \in [Sockets -> BOOLEAN]
    BY <1>1, HangupKeeps
  <2>3. QED
    BY <1>1, <2>1, <2>2 DEF TypeOK, server
<1>3. \A j \in Sockets : Untouched(j)' /\ OwnText(j)' /\ Frames(j)' /\ TailOf(j)'
  BY <1>1, HangupKeeps DEF Untouched
<1>4. TextInv'
  BY <1>1 DEF Inv, TextInv
<1>5. QED
  BY <1>1, <1>2, <1>3, <1>4 DEF Inv

\* An event of the viewer's socket that leaves the text alone.
LEMMA EventKeeps ==
  ASSUME Inv, TypeOK', NEW k \in Sockets, k = logSocket,
         UNCHANGED <<opened, logSocket, text, starts, size, server>>,
         \A j \in Sockets \ {k} : /\ pending'[j] = pending[j] /\ wire'[j] = wire[j]
                                  /\ got'[j] = got[j] /\ gone'[j] = gone[j],
         OwnText(k)', Frames(k)', Follow(text \o pending'[k], got'[k])
  PROVE  Inv'
<1>1. TypeOK /\ UNCHANGED <<handler, tail, printed, sent>> /\ ~ (k > opened) /\ k # NoSocket
  BY Bounds DEF Inv, server
<1>2. TextInv'
  BY <1>1 DEF Inv, TextInv
<1>3. ASSUME NEW j \in Sockets
      PROVE  Untouched(j)' /\ OwnText(j)' /\ Frames(j)' /\ TailOf(j)'
  <2>1. Untouched(j) /\ OwnText(j) /\ Frames(j) /\ TailOf(j)
    BY DEF Inv
  <2>2. CASE j = k
    BY <1>1, <2>1, <2>2 DEF Untouched, TailOf
  <2>3. CASE j # k
    BY <1>1, <2>1, <2>3 DEF Untouched, OwnText, Frames, TailOf
  <2>4. QED
    BY <2>2, <2>3
<1>4. QED
  BY <1>2, <1>3 DEF Inv

LEMMA NoteKeeps ==
  ASSUME Inv, NEW k \in Sockets, OnError(k) \/ OnClose(k)
  PROVE  Inv'
<1>1. /\ TypeOK /\ k = logSocket /\ AppendLine(k, Note(k))
      /\ client' \in [Sockets -> {"none", "connecting", "open", "failing", "closed"}]
      /\ UNCHANGED <<opened, logSocket, text, starts, size, got, server>>
  BY DEF Inv, OnError, OnClose, TypeOK
<1>2. PICK note \in Lines : note.sock = k /\ note.n = 0 /\ AppendLine(k, note)
  <2>1. Note(k) \in Lines /\ Note(k).sock = k /\ Note(k).n = 0
    BY Bounds, <1>1 DEF Note, Line, Lines
  <2>2. QED
    BY <1>1, <2>1
<1>3. got[k] \in Nat /\ <<>> \in Seq(Lines)
  BY <1>1 DEF TypeOK
<1>4. /\ pending' \in [Sockets -> Seq(Lines)] /\ flushing' \in [Sockets -> BOOLEAN]
      /\ \A j \in Sockets \ {k} : pending'[j] = pending[j]
      /\ \A i \in DOMAIN pending'[k] : pending'[k][i].sock = k
      /\ Follow(text \o pending'[k], got[k])
  BY <1>1, <1>2, <1>3, AppendLineKeeps
<1>5. /\ wire' \in [Sockets -> Seq(Lines)] /\ gone' \in [Sockets -> BOOLEAN]
      /\ \A j \in Sockets \ {k} : wire'[j] = wire[j] /\ gone'[j] = gone[j]
      /\ \/ wire'[k] = wire[k] /\ gone'[k] = gone[k]
         \/ wire'[k] = <<>> /\ gone'[k]
  <2>1. CASE OnError(k)
    BY <1>1, <1>3, <2>1 DEF OnError, TypeOK
  <2>2. CASE OnClose(k)
    BY <1>1, <2>2 DEF OnClose, TypeOK
  <2>3. QED
    BY <2>1, <2>2
<1>6. TypeOK'
  BY <1>1, <1>4, <1>5 DEF TypeOK, server
<1>7. OwnText(k)'
  BY <1>4, <1>5 DEF Inv, OwnText
<1>8. Frames(k)'
  BY <1>1, <1>5 DEF Inv, Frames, server
<1>9. QED
  BY <1>1, <1>4, <1>5, <1>6, <1>7, <1>8, EventKeeps

LEMMA OnMessageKeeps == ASSUME Inv, NEW k \in Sockets, OnMessage(k) PROVE Inv'
<1>1. /\ TypeOK /\ k = logSocket /\ wire[k] # <<>> /\ OwnText(k) /\ Frames(k)
      /\ wire' = [wire EXCEPT ![k] = Tail(wire[k])]
      /\ AppendLine(k, Head(wire[k]))
      /\ got' = [got EXCEPT ![k] = IF Head(wire[k]).n > got[k] THEN Head(wire[k]).n ELSE got[k]]
      /\ UNCHANGED <<opened, logSocket, text, starts, client, size, gone, server>>
  BY DEF Inv, OnMessage
<1>2. PICK s \in Seq(Lines) : s = wire[k]
  BY <1>1 DEF TypeOK
<1>3. PICK g \in Nat : g = got[k]
  BY <1>1 DEF TypeOK
<1>4. /\ s # <<>> /\ Len(s) \in Nat \ {0} /\ DOMAIN s = 1..Len(s)
      /\ Head(s) = s[1] /\ Head(s) \in Lines
      /\ Tail(s) \in Seq(Lines) /\ Len(Tail(s)) = Len(s) - 1
      /\ \A i \in 1..(Len(s) - 1) : Tail(s)[i] = s[i + 1]
  BY <1>1, <1>2
<1>5. /\ 1 \in DOMAIN s /\ DOMAIN Tail(s) = 1..(Len(s) - 1)
      /\ \A i \in DOMAIN Tail(s) : i + 1 \in DOMAIN s /\ i \in Nat
  BY <1>4
<1>6. PICK line \in Lines : line = s[1] /\ line = Head(s)
  BY <1>4
<1>7. PICK next \in Nat : next = IF line.n > g THEN line.n ELSE g
  BY DEF Lines
<1>8. /\ got' \in [Sockets -> Nat] /\ got'[k] = next
      /\ \A j \in Sockets \ {k} : got'[j] = got[j]
  BY <1>1, <1>2, <1>3, <1>6, <1>7 DEF TypeOK
<1>9. /\ wire' \in [Sockets -> Seq(Lines)] /\ wire'[k] = Tail(s)
      /\ \A j \in Sockets \ {k} : wire'[j] = wire[j]
  BY <1>1, <1>2, <1>4 DEF TypeOK
<1>10. ~gone[k] /\ gone' = gone /\ UNCHANGED <<handler, sent, tail, printed>>
  BY <1>1 DEF Frames, server
<1>11. line.sock = k /\ AppendLine(k, line)
  BY <1>1, <1>2, <1>5, <1>6 DEF OwnText
<1>12. /\ \/ line.n = 0 /\ next = g
          \/ line.n = g + 1 /\ next = g + 1
       /\ \/ sent[k] = next + Len(Tail(s)) /\ \A i \in DOMAIN Tail(s) : Tail(s)[i].n = next + i
          \/ handler[k] = "done" /\ \A i \in DOMAIN Tail(s) : Tail(s)[i].n = 0
  <2>1. CASE sent[k] = g + Len(s) /\ \A i \in DOMAIN s : s[i].n = g + i
    <3>1. line.n = g + 1
      BY <1>5, <1>6, <2>1
    <3>2. next = g + 1
      BY <1>7, <3>1
    <3>3. QED
      BY <1>4, <1>5, <2>1, <3>1, <3>2
  <2>2. CASE handler[k] = "done" /\ \A i \in DOMAIN s : s[i].n = 0
    <3>1. line.n = 0 /\ next = g
      BY <1>5, <1>6, <1>7, <2>2
    <3>2. QED
      BY <1>4, <1>5, <2>2, <3>1
  <2>3. QED
    BY <1>1, <1>2, <1>3, <1>10, <2>1, <2>2 DEF Frames
<1>13. /\ pending' \in [Sockets -> Seq(Lines)] /\ flushing' \in [Sockets -> BOOLEAN]
       /\ \A j \in Sockets \ {k} : pending'[j] = pending[j]
       /\ \A i \in DOMAIN pending'[k] : pending'[k][i].sock = k
       /\ Follow(text \o pending'[k], next)
  <2>1. \/ line.n = 0 /\ next = got[k]
        \/ line.n = got[k] + 1 /\ next = got[k] + 1
    BY <1>3, <1>12
  <2>2. QED
    BY <1>1, <1>11, <2>1, AppendLineKeeps
<1>14. TypeOK'
  BY <1>1, <1>8, <1>9, <1>13 DEF TypeOK, server
<1>15. OwnText(k)'
  <2>1. \A i \in DOMAIN Tail(s) : Tail(s)[i].sock = k
    BY <1>1, <1>2, <1>4, <1>5 DEF OwnText
  <2>2. QED
    BY <1>9, <1>13, <2>1 DEF OwnText
<1>16. Frames(k)'
  BY <1>8, <1>9, <1>10, <1>12 DEF Frames
<1>17. QED
  BY <1>1, <1>8, <1>9, <1>10, <1>13, <1>14, <1>15, <1>16, EventKeeps

\* A step that changes the text and the buffer of the viewer's socket.
LEMMA TextKeeps ==
  ASSUME Inv, TypeOK', TextInv', NEW k \in Sockets, k = logSocket,
         UNCHANGED <<opened, logSocket, got, wire, gone, server>>,
         \A j \in Sockets \ {k} : pending'[j] = pending[j] /\ size'[j] = size[j],
         \A i \in DOMAIN pending'[k] : pending'[k][i].sock = k,
         Follow(text' \o pending'[k], got[k])
  PROVE  Inv'
<1>1. TypeOK /\ UNCHANGED <<handler, tail, printed, sent>> /\ ~ (k > opened) /\ k # NoSocket
  BY Bounds DEF Inv, server
<1>2. ASSUME NEW j \in Sockets
      PROVE  Untouched(j)' /\ OwnText(j)' /\ Frames(j)' /\ TailOf(j)'
  <2>1. Untouched(j) /\ OwnText(j) /\ Frames(j) /\ TailOf(j)
    BY DEF Inv
  <2>2. CASE j = k
    BY <1>1, <2>1, <2>2 DEF Untouched, OwnText, Frames, TailOf
  <2>3. CASE j # k
    BY <1>1, <2>1, <2>3 DEF Untouched, OwnText, Frames, TailOf
  <2>4. QED
    BY <2>2, <2>3
<1>3. QED
  BY <1>2 DEF Inv

LEMMA OnOpenKeeps == ASSUME Inv, NEW k \in Sockets, OnOpen(k) PROVE Inv'
<1>1. /\ TypeOK /\ TextInv /\ k = logSocket /\ text' = <<>> /\ starts' = {}
      /\ client' = [client EXCEPT ![k] = "open"] /\ size' = [size EXCEPT ![k] = 0]
      /\ UNCHANGED <<opened, logSocket, pending, flushing, got, wire, gone, server>>
      /\ OwnText(k) /\ Follow(text \o pending[k], got[k])
  BY Bounds DEF Inv, OnOpen
<1>2. PICK t \in Seq(Lines) : t = text
  BY <1>1 DEF TypeOK
<1>3. PICK s \in Seq(Lines) : s = pending[k]
  BY <1>1 DEF TypeOK
<1>4. TypeOK'
  <2>1. text' \in Seq(Lines) /\ starts' \in SUBSET Nat
    BY <1>1
  <2>2. size' \in [Sockets -> Nat]
    BY <1>1 DEF TypeOK
  <2>3. QED
    BY <1>1, <2>1, <2>2 DEF TypeOK, server
<1>5. TextInv'
  <2>1. opened = k /\ opened # NoSocket /\ size'[opened] = 0
    BY <1>1, Bounds DEF TypeOK
  <2>2. QED
    BY <1>1, <2>1 DEF TextInv
<1>6. Follow(s, got[k])
  <2>1. PICK u \in Seq(Lines) : u = t \o s
    BY ConcatFacts
  <2>2. PICK g \in Nat : g = got[k]
    BY <1>1 DEF TypeOK
  <2>3. /\ Len(t) \in Nat /\ Len(t) <= Len(u) /\ Len(s) = Len(u) - Len(t)
        /\ \A i \in 1..Len(s) : s[i] = u[i + Len(t)]
    BY <2>1, ConcatFacts
  <2>4. Follow(u, g)
    BY <1>1, <1>2, <1>3, <2>1, <2>2
  <2>5. QED
    BY <2>2, <2>3, <2>4, FollowEnd
<1>7. <<>> \o s = s
  OBVIOUS
<1>8. Follow(text' \o pending'[k], got[k])
  BY <1>1, <1>3, <1>6, <1>7
<1>9. \A j \in Sockets \ {k} : pending'[j] = pending[j] /\ size'[j] = size[j]
  BY <1>1 DEF TypeOK
<1>10. QED
  BY <1>1, <1>4, <1>5, <1>8, <1>9, TextKeeps DEF OwnText

\* flush cuts whole nodes off the front, and counts them.
LEMMA AppendTextKeeps ==
  ASSUME Inv, NEW k \in Sockets, k = logSocket, pending[k] # <<>>, AppendText(k),
         flushing' = [flushing EXCEPT ![k] = FALSE],
         UNCHANGED <<opened, logSocket, client, got, wire, gone, server>>
  PROVE  Inv'
<1>1. /\ TypeOK /\ TextInv /\ OwnText(k) /\ opened = k /\ opened # NoSocket
      /\ Follow(text \o pending[k], got[k]) /\ LogMax \in Nat /\ opened' = opened
  BY Bounds, LogAssumption DEF Inv
<1>2. PICK t \in Seq(Lines) : t = text
  BY <1>1 DEF TypeOK
<1>3. PICK s \in Seq(Lines) : s = pending[k]
  BY <1>1 DEF TypeOK
<1>4. PICK z \in Nat : z = size[k]
  BY <1>1 DEF TypeOK
<1>5. Len(t) \in Nat /\ Len(s) \in Nat /\ Len(s) > 0
  BY <1>3
<1>6. PICK lines \in Seq(Lines) : lines = t \o s
  BY ConcatFacts
<1>7. PICK last \in Nat : last = Len(t)
  BY <1>5
<1>8. PICK heads \in SUBSET Nat : heads = starts \cup {last}
  BY <1>1 DEF TypeOK
<1>9. PICK total \in Nat : total = z + Len(s)
  BY <1>5
<1>10. PICK cut \in Nat : cut \in heads /\ cut = Trimmed(heads, last, total)
  BY <1>8, TrimmedType
<1>11. PICK t2 \in Seq(Lines) : t2 = SubSeq(lines, cut + 1, Len(lines))
  <2>1. cut <= last /\ last <= Len(lines)
    <3>1. cut <= last
      BY <1>1, <1>2, <1>7, <1>8, <1>10 DEF TextInv
    <3>2. Len(lines) = Len(t) + Len(s)
      BY <1>6, ConcatFacts
    <3>3. QED
      BY <1>5, <1>7, <3>1, <3>2
  <2>2. cut <= Len(lines)
    BY <2>1
  <2>3. QED
    BY <2>2, SubSeqFacts
<1>12. /\ pending' = [pending EXCEPT ![k] = <<>>]
       /\ text' = t2
       /\ starts' = {c - cut : c \in {c \in heads : c >= cut}}
       /\ size' = [size EXCEPT ![k] = total - cut]
  BY <1>2, <1>3, <1>4, <1>6, <1>7, <1>8, <1>9, <1>10, <1>11 DEF AppendText
<1>13. /\ \A c \in heads : c <= last
       /\ last = z \/ last = z + 1
       /\ total - cut <= LogMax \/ cut = last
       /\ Len(lines) = last + Len(s)
       /\ cut <= last
  <2>1. \A c \in heads : c <= last
    BY <1>1, <1>2, <1>7, <1>8 DEF TextInv
  <2>2. last = z \/ last = z + 1
    BY <1>1, <1>2, <1>4, <1>7 DEF TextInv
  <2>3. total - cut <= LogMax \/ cut = last
    BY <1>8, <1>10, TrimmedType
  <2>4. Len(lines) = last + Len(s)
    BY <1>6, <1>7, ConcatFacts
  <2>5. QED
    BY <1>10, <2>1, <2>2, <2>3, <2>4
<1>14. PICK n2 \in Nat : n2 = total - cut
  <2>1. PICK ls \in Nat : ls = Len(s) /\ ls > 0
    BY <1>5
  <2>2. total = z + ls /\ (last = z \/ last = z + 1) /\ cut <= last
    BY <1>9, <1>13, <2>1
  <2>3. total - cut \in Nat
    BY <2>1, <2>2
  <2>4. QED
    BY <2>3
<1>15. /\ Len(t2) = Len(lines) - cut
       /\ \A i \in 1..Len(t2) : i + cut \in 1..Len(lines) /\ t2[i] = lines[i + cut]
  <2>1. cut <= Len(lines)
    BY <1>5, <1>13
  <2>2. QED
    BY <1>11, <1>13, <2>1, SubSeqFacts
<1>16. Len(t2) = n2 \/ Len(t2) = n2 + 1
  <2>1. PICK ls \in Nat : ls = Len(s)
    BY <1>5
  <2>2. /\ total = z + ls /\ (last = z \/ last = z + 1) /\ n2 = total - cut
        /\ Len(t2) = (last + ls) - cut
    BY <1>9, <1>13, <1>14, <1>15, <2>1
  <2>3. CASE last = z
    BY <2>2, <2>3
  <2>4. CASE last = z + 1
    <3>1. (last + ls) - cut = n2 + 1
      BY <2>2, <2>4
    <3>2. QED
      BY <2>2, <3>1
  <2>5. QED
    BY <2>2, <2>3, <2>4
<1>17. /\ pending' \in [Sockets -> Seq(Lines)] /\ pending'[k] = <<>>
       /\ size' \in [Sockets -> Nat] /\ size'[k] = n2
       /\ \A j \in Sockets \ {k} : pending'[j] = pending[j] /\ size'[j] = size[j]
  <2>1. <<>> \in Seq(Lines)
    OBVIOUS
  <2>2. QED
    BY <1>1, <1>12, <1>14, <2>1 DEF TypeOK
<1>18. starts' \in SUBSET Nat
  <2>1. ASSUME NEW c \in heads, c >= cut PROVE c - cut \in Nat
    BY <1>13, <2>1
  <2>2. QED
    BY <1>12, <2>1
<1>19. TypeOK'
  <2>1. text' \in Seq(Lines)
    BY <1>12
  <2>2. flushing' \in [Sockets -> BOOLEAN]
    BY <1>1 DEF TypeOK
  <2>3. QED
    BY <1>1, <1>17, <1>18, <2>1, <2>2 DEF TypeOK, server
<1>20. TextInv'
  <2>1. ASSUME NEW i \in DOMAIN t2 PROVE t2[i].sock = k
    <3>1. i \in 1..Len(t2)
      BY <2>1
    <3>2. PICK j \in 1..Len(lines) : t2[i] = lines[j]
      BY <1>15, <3>1
    <3>3. lines[j] = IF j <= last THEN t[j] ELSE s[j - last]
      BY <1>6, <1>7, <1>13, <3>2, ConcatFacts
    <3>4. CASE j <= last
      <4>1. j \in DOMAIN t
        BY <1>5, <1>7, <3>2, <3>4
      <4>2. QED
        BY <1>1, <1>2, <3>2, <3>3, <3>4, <4>1 DEF TextInv
    <3>5. CASE ~ (j <= last)
      <4>1. j - last \in DOMAIN s
        BY <1>5, <1>13, <3>2, <3>5
      <4>2. QED
        BY <1>1, <1>3, <3>2, <3>3, <3>5, <4>1 DEF OwnText
    <3>6. QED
      BY <3>4, <3>5
  <2>2. ASSUME NEW c \in starts' PROVE c < Len(t2)
    <3>1. PICK d \in heads : d >= cut /\ c = d - cut
      BY <1>12, <2>2
    <3>2. d \in Nat /\ d <= last
      BY <1>13, <3>1
    <3>3. QED
      BY <1>5, <1>13, <1>15, <3>1, <3>2
  <2>3. starts' \ {0} # {} => n2 <= LogMax
    <3>1. SUFFICES ASSUME NEW c \in starts', c # 0 PROVE n2 <= LogMax
      OBVIOUS
    <3>2. PICK d \in heads : d >= cut /\ c = d - cut
      BY <1>12, <3>1
    <3>3. d \in Nat /\ d <= last /\ d # cut
      BY <1>13, <3>1, <3>2
    <3>4. cut # last
      BY <1>13, <3>2, <3>3
    <3>5. QED
      BY <1>13, <1>14, <3>4
  <2>4. \A i \in DOMAIN text' : text'[i].sock = opened
    BY <1>1, <1>12, <2>1
  <2>5. Len(text') \in {size'[opened], size'[opened] + 1}
    BY <1>1, <1>12, <1>16, <1>17
  <2>6. QED
    BY <1>1, <1>12, <1>17, <2>2, <2>3, <2>4, <2>5 DEF TextInv
<1>21. Follow(text' \o pending'[k], got[k])
  <2>1. PICK g \in Nat : g = got[k]
    BY <1>1 DEF TypeOK
  <2>2. Follow(lines, g)
    BY <1>1, <1>2, <1>3, <1>6, <2>1
  <2>3. cut <= Len(lines)
    BY <1>5, <1>13
  <2>4. Follow(t2, g)
    BY <1>13, <1>15, <2>2, <2>3, FollowEnd
  <2>5. t2 \o <<>> = t2
    OBVIOUS
  <2>6. QED
    BY <1>12, <1>17, <2>1, <2>4, <2>5
<1>22. \A i \in DOMAIN pending'[k] : pending'[k][i].sock = k
  BY <1>17
<1>23. QED
  BY <1>17, <1>19, <1>20, <1>21, <1>22, TextKeeps

LEMMA FlushKeeps == ASSUME Inv, NEW k \in Sockets, Flush(k) PROVE Inv'
<1>1. /\ flushing' = [flushing EXCEPT ![k] = FALSE]
      /\ UNCHANGED <<opened, logSocket, client, got, wire, gone, server>>
      /\ \/ UNCHANGED <<text, starts, pending, size>>
         \/ k = logSocket /\ pending[k] # <<>> /\ AppendText(k)
  BY DEF Flush
<1>2. CASE UNCHANGED <<text, starts, pending, size>>
  <2>1. TypeOK'
    BY <1>1, <1>2 DEF Inv, TypeOK, server
  <2>2. TextInv'
    BY <1>1, <1>2 DEF Inv, TextInv
  <2>3. \A j \in Sockets : Untouched(j)' /\ OwnText(j)' /\ Frames(j)' /\ TailOf(j)'
    BY <1>1, <1>2 DEF Inv, Untouched, OwnText, Frames, TailOf, server
  <2>4. logSocket' # NoSocket => Follow(text \o pending[logSocket], got[logSocket])'
    BY <1>1, <1>2 DEF Inv
  <2>5. QED
    BY <2>1, <2>2, <2>3, <2>4 DEF Inv
<1>3. CASE k = logSocket /\ pending[k] # <<>> /\ AppendText(k)
  BY <1>1, <1>3, AppendTextKeeps
<1>4. QED
  BY <1>1, <1>2, <1>3

-----------------------------------------------------------------------------
(* The theorems.                                                             *)

\* The conjunction the others rest on, which every step keeps.
THEOREM Invariant == Spec => []Inv
<1>1. ASSUME Inv, [Next]_vars PROVE Inv'
  <2>1. CASE OpenViewer
    BY <1>1, <2>1, OpenViewerKeeps
  <2>2. CASE CloseViewer
    BY <1>1, <2>2, CloseViewerKeeps
  <2>3. ASSUME NEW k \in Sockets, Browser(k) PROVE Inv'
    BY <1>1, <2>3, OnOpenKeeps, OnMessageKeeps, NoteKeeps, FlushKeeps DEF Browser
  <2>4. ASSUME NEW k \in Sockets, Handler(k) \/ TailPrints(k) \/ TailDies(k) PROVE Inv'
    BY <1>1, <2>4, PathMissingKeeps, PumpKeeps, ControlKeeps DEF Handler
  <2>5. CASE UNCHANGED vars
    <3>1. UNCHANGED <<opened, logSocket, text, starts, client, pending, flushing, size, got,
                      wire, gone, handler, tail, printed, sent>>
      BY <2>5 DEF vars, viewer, server
    <3>2. TypeOK' /\ TextInv'
      BY <1>1, <3>1 DEF Inv, TypeOK, TextInv
    <3>3. \A j \in Sockets : Untouched(j)' /\ OwnText(j)' /\ Frames(j)' /\ TailOf(j)'
      BY <1>1, <3>1 DEF Inv, Untouched, OwnText, Frames, TailOf
    <3>4. logSocket' # NoSocket => Follow(text \o pending[logSocket], got[logSocket])'
      BY <1>1, <3>1 DEF Inv, Follow
    <3>5. QED
      BY <3>2, <3>3, <3>4 DEF Inv
  <2>6. QED
    BY <1>1, <2>1, <2>2, <2>3, <2>4, <2>5 DEF Next
<1>2. QED
  BY <1>1, InitInv, PTL DEF Spec

\* The viewer, its sockets and the handlers keep their types.
THEOREM StreamTypeCorrect == Spec => []TypeOK
<1>1. Inv => TypeOK
  BY DEF Inv
<1>2. QED
  BY <1>1, Invariant, PTL

\* closeLogSocket and the test in flush keep the text of an old socket out of the viewer
\* of the next container.
THEOREM ShowsItsOwn == Spec => []OwnLines
<1>1. Inv => OwnLines
  BY Bounds DEF Inv, TextInv, OwnLines
<1>2. QED
  BY <1>1, Invariant, PTL

\* From the pump to the <pre>, lines keep their order and only the oldest are dropped.
THEOREM ShowsTheEnd == Spec => []NoGap
<1>1. ASSUME Inv PROVE NoGap
  <2>1. SUFFICES ASSUME logSocket # NoSocket, NEW lines, lines = text \o pending[logSocket],
                        NEW i \in DOMAIN lines, lines[i].n # 0
                 PROVE  /\ lines[i].n <= got[logSocket]
                        /\ {lines[j].n : j \in i + 1..Len(lines)} \ {0}
                             = lines[i].n + 1..got[logSocket]
    BY DEF NoGap
  <2>2. logSocket \in Sockets /\ TypeOK
    BY <1>1, <2>1, Bounds DEF Inv
  <2>3. PICK s \in Seq(Lines) : s = lines
    <3>1. text \in Seq(Lines) /\ pending[logSocket] \in Seq(Lines)
      BY <2>2 DEF TypeOK
    <3>2. QED
      BY <2>1, <3>1, ConcatFacts
  <2>4. PICK g \in Nat : g = got[logSocket]
    BY <2>2 DEF TypeOK
  <2>5. /\ s[i].n <= g
        /\ \A j \in DOMAIN s : i < j /\ s[j].n # 0 => s[i].n < s[j].n /\ s[j].n <= g
        /\ \A m \in s[i].n + 1..g : \E j \in DOMAIN s : i < j /\ s[j].n = m
    <3>1. Follow(s, g)
      BY <1>1, <2>1, <2>3, <2>4 DEF Inv
    <3>2. i \in DOMAIN s /\ s[i].n # 0
      BY <2>1, <2>3
    <3>3. QED
      BY <3>1, <3>2 DEF Follow
  <2>6. /\ DOMAIN s = 1..Len(s) /\ Len(s) \in Nat /\ i \in 1..Len(s)
        /\ \A j \in DOMAIN s : s[j].n \in Nat
    <3>1. DOMAIN s = 1..Len(s) /\ Len(s) \in Nat /\ i \in 1..Len(s)
      BY <2>1, <2>3
    <3>2. \A j \in DOMAIN s : s[j] \in Lines
      BY <3>1
    <3>3. QED
      BY <3>1, <3>2 DEF Lines
  <2>7. ASSUME NEW m \in {s[j].n : j \in i + 1..Len(s)} \ {0}
        PROVE  m \in s[i].n + 1..g
    <3>1. PICK j \in i + 1..Len(s) : m = s[j].n
      BY <2>7
    <3>2. j \in DOMAIN s /\ i < j
      BY <2>6, <3>1
    <3>3. QED
      BY <2>5, <2>6, <2>7, <3>1, <3>2
  <2>8. ASSUME NEW m \in s[i].n + 1..g
        PROVE  m \in {s[j].n : j \in i + 1..Len(s)} \ {0}
    <3>1. PICK j \in DOMAIN s : i < j /\ s[j].n = m
      BY <2>5
    <3>2. j \in i + 1..Len(s)
      BY <2>6, <3>1
    <3>3. m # 0
      BY <2>6
    <3>4. QED
      BY <3>1, <3>2, <3>3
  <2>9. QED
    BY <2>3, <2>4, <2>5, <2>7, <2>8
<1>2. QED
  BY <1>1, Invariant, PTL

\* However chatty the container, the text of more than one flush fits LOG_MAX_CHARS.
THEOREM TextStaysBounded == Spec => []TextBounded
<1>1. ASSUME Inv PROVE TextBounded
  <2>1. SUFFICES ASSUME starts \ {0} # {} PROVE Len(text) <= LogMax + 1
    BY DEF TextBounded
  <2>2. TypeOK /\ TextInv /\ LogMax \in Nat
    BY <1>1, LogAssumption DEF Inv
  <2>3. opened # NoSocket
    <3>1. SUFFICES ASSUME opened = NoSocket PROVE FALSE
      OBVIOUS
    <3>2. text = <<>>
      BY <2>2, <3>1 DEF TextInv
    <3>3. Len(text) = 0
      BY <3>2
    <3>4. PICK c \in starts : c \in Nat
      BY <2>1, <2>2 DEF TypeOK
    <3>5. c < Len(text)
      BY <2>2, <3>4 DEF TextInv
    <3>6. QED
      BY <3>3, <3>4, <3>5
  <2>4. PICK z \in Nat : z = size[opened]
    BY <2>2, <2>3 DEF TypeOK
  <2>5. z <= LogMax /\ Len(text) \in {z, z + 1}
    BY <2>1, <2>2, <2>3, <2>4 DEF TextInv
  <2>6. QED
    BY <2>2, <2>5
<1>2. QED
  BY <1>1, Invariant, PTL

\* The finally of container_logs leaves no tail running or unreaped.
THEOREM NoTailLeft == Spec => []NoOrphan
<1>1. Inv => NoOrphan
  BY DEF Inv, TailOf, NoOrphan
<1>2. QED
  BY <1>1, Invariant, PTL
=============================================================================
