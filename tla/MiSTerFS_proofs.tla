--------------------------- MODULE MiSTerFS_proofs ---------------------------
(***************************************************************************)
(* The chain of INT 2Fh, directory searches and transfers of the           *)
(* shared-folder driver, for every number of marks and tokens, every size  *)
(* of a chunk and everything DOS is asked within TaskAssumption.           *)
(***************************************************************************)
EXTENDS MiSTerFS, SequenceTheorems, TLAPS

op == driver.call.op
Calling == driver.pc # 0

-----------------------------------------------------------------------------
(* The handshake of sendquery with the host. *)

Answered == driver.pc = 4 /\ (host.pc = "mark" \/ (host.pc = "watch" /\ host.seen = flag))
Asking == driver.pc \in 2 .. 4 /\ ~Answered

HandInv ==
    /\ driver.pc \in 0 .. 4 /\ flag \in 0 .. Marks /\ host.pc \in {"watch", "work", "mark"}
    /\ driver.pc = 0 => host.pc = "watch" /\ (host.seen = flag \/ flag = Enable)
    /\ driver.pc \in 1 .. 3 => host.pc = "watch" /\ host.seen = flag
    /\ driver.pc \in 3 .. 4 /\ ~(Answered /\ host.pc = "watch") => reply = Special
    /\ driver.pc = 4 => flag # Enable
    /\ host.pc # "watch" => host.seen = flag
    /\ Answered /\ host.pc = "watch" => reply = flag

TokenAfter(t) == IF t + 1 = Tokens THEN 0 ELSE t + 1

\* The token of the search that begins is the one before ff_token.
Begins(t) == t \in 0 .. Tokens - 1 /\ ff_token = TokenAfter(t)

FrameInv ==
    Asking => IF op = "FINDFIRST"
              THEN \E t \in 0 .. Tokens - 1 :
                      Begins(t) /\ frame = [op |-> op, token |-> t, tmpl |-> driver.call.tmpl]
              ELSE frame = Query(driver.call, driver.done)

-----------------------------------------------------------------------------
(* Transfers. *)

DriverFields == {"pc", "call", "done", "ax", "cf", "cx"}
SftFields == {"count", "mode", "drive", "size", "pos"}
HostFields == {"seen", "pc", "file", "lists"}

Shapes ==
    /\ task \in Tasks
    /\ driver = [f \in DriverFields |-> driver[f]]
    /\ sft = [f \in SftFields |-> sft[f]] /\ sft.pos \in Nat
    /\ host = [f \in HostFields |-> host[f]] /\ host.file \in Seq(Nat)
    /\ Calling => /\ driver.call \in task.calls /\ op \in supportedfunctions
                  /\ ~AsksNothing(driver.call) /\ driver.cf = FALSE

\* DOS knows the size of the open file, and is where there is room or a byte.
FileInv ==
    sft.count > 0 => /\ (Calling /\ op = "WRITEFIL") \/ sft.size = Len(host.file)
                     /\ sft.pos < MaxSize \/ sft.pos <= sft.size

ReadInv ==
    Calling /\ op = "READFIL" =>
        LET c == driver.call
            n == Least(ChunkLength(c, driver.done), Beyond(before.file, before.pos + driver.done))
        IN  /\ before.file = host.file /\ before.pos = sft.pos /\ before.cx = c.cx /\ driver.cx = c.cx
            /\ driver.done \in 0 .. c.cx - 1 /\ driver.done <= Beyond(before.file, before.pos)
            /\ buffer = Bytes(before.file, before.pos, driver.done)
            /\ Answered => frame \in Failures \cup
                   {[len |-> n, ax |-> 0, data |-> Bytes(before.file, before.pos + driver.done, n)]}

\* The file when so many bytes of the call are written.
Written(done) == Overwritten(before.file, before.pos, SubSeq(driver.call.data, 1, done))

WriteInv ==
    Calling /\ op = "WRITEFIL" =>
        LET c == driver.call
            n == Least(ChunkLength(c, driver.done), Room(sft.pos))
        IN  /\ sft.count > 0 /\ before.file \in Seq(Nat) /\ before.pos \in Nat
            /\ driver.done \in 0 .. c.cx - 1 /\ sft.pos = before.pos + driver.done
            /\ sft.size = Len(Written(driver.done))
            /\ ~Answered => host.file = Written(driver.done)
            /\ Answered => \/ frame \in Failures /\ host.file = Written(driver.done)
                           \/ frame = [len |-> 2, ax |-> 0, n |-> n] /\ host.file = Written(driver.done + n)

OpenInv ==
    Calling /\ op \in Opens =>
        /\ sft.count = 0
        /\ Answered => frame \in Failures \cup
               {[len |-> 25, ax |-> 0, size |-> Len(host.file), mode |-> driver.call.mode]}

-----------------------------------------------------------------------------
(* Searches. *)

DtaFields == {"drive", "par_clstr", "dir_entry"}
ListedFields == {"tmpl", "names", "done", "failed", "younger"}

Beginning(s) == Calling /\ op = "FINDFIRST" /\ driver.call.search = s
Ahead == IF driver.pc \in 2 .. 4 /\ op = "FINDFIRST" THEN 1 ELSE 0

ListsInv ==
    /\ ff_token \in 0 .. Tokens - 1
    /\ host.lists \in [0 .. Tokens - 1 -> Seq(STRING)]
    /\ dta = [s \in Search |-> [f \in DtaFields |-> dta[s][f]]]
    /\ listed = [s \in Search |-> [f \in ListedFields |-> listed[s][f]]]
    /\ \A s \in Search : /\ listed[s].names \in Seq(STRING) /\ listed[s].done \in BOOLEAN
                         /\ Len(listed[s].names) <= Len(Entries(listed[s].tmpl))
    /\ task.programs => \A s \in Search : listed[s].done
    /\ Calling /\ op = "FINDNEXT" => ~listed[driver.call.search].done

\* Token x was given; since then y others were.
Since(x, y) == ff_token = x + 1 + y \/ ff_token = x + 1 + y - Tokens

\* A search that goes on: the host has the list of its token, and fewer than
\* all tokens were given since.
LiveInv ==
    \A s \in Search : ~listed[s].done /\ ~Beginning(s) =>
        /\ dta[s].par_clstr \in 0 .. Tokens - 1 /\ dta[s].dir_entry = Len(listed[s].names)
        /\ host.lists[dta[s].par_clstr] = Entries(listed[s].tmpl)
        /\ listed[s].younger \in Nat
        /\ listed[s].younger + (IF Calling /\ op = "FINDFIRST" THEN 1 ELSE 0) < Tokens
        /\ Since(dta[s].par_clstr, listed[s].younger + Ahead)

FindInv ==
    Answered /\ op \in Finds /\ frame \notin Failures =>
        IF op = "FINDFIRST"
        THEN \E t \in 0 .. Tokens - 1 :
                /\ Begins(t) /\ host.lists[t] = Entries(driver.call.tmpl)
                /\ frame = Found([token |-> t], Entries(driver.call.tmpl), 1)
        ELSE LET d == dta[driver.call.search]
             IN  frame = Found([token |-> d.par_clstr], host.lists[d.par_clstr], d.dir_entry + 1)

-----------------------------------------------------------------------------
(* The chain. *)

ChainShape ==
    \/ vector = "dos"
    \/ vector = "us" /\ (prev["us"] = "dos" \/ (prev["us"] = "other" /\ prev["other"] = "dos"))
    \/ vector = "other" /\ (prev["other"] = "dos" \/ (prev["other"] = "us" /\ prev["us"] = "dos"))

ChainInv ==
    /\ ChainShape
    /\ prev = [h \in {"us", "other"} |-> prev[h]]
    /\ cds = [d \in Drive |-> cds[d]]
    /\ ChainSound

\* All but the chain.
Inside == /\ Shapes /\ HandInv /\ FrameInv /\ FileInv /\ ReadInv /\ WriteInv /\ OpenInv
          /\ ListsInv /\ LiveInv /\ FindInv /\ SearchesExact

-----------------------------------------------------------------------------
(* Files. *)

\* The part of a sequence after k elements, n long.
LEMMA PartIs ==
    ASSUME NEW d \in Seq(Nat), NEW k \in Nat, NEW n \in Nat, k + n <= Len(d)
    PROVE  /\ SubSeq(d, k + 1, k + n) \in Seq(Nat) /\ Len(SubSeq(d, k + 1, k + n)) = n
           /\ \A i \in 1 .. n : SubSeq(d, k + 1, k + n)[i] = d[k + i]
<1> DEFINE s == SubSeq(d, k + 1, k + n)
<1>1. \A i \in (k + 1) .. (k + n) : d[i] \in Nat
  BY ElementOfSeq
<1>2. /\ s \in Seq(Nat) /\ Len(s) = IF k + 1 <= k + n THEN (k + n) - (k + 1) + 1 ELSE 0
      /\ \A i \in 1 .. (k + n) - (k + 1) + 1 : s[i] = d[(k + 1) + i - 1]
  BY <1>1, SubSeqProperties
<1> HIDE DEF s
<1>3. \A i \in 1 .. n : s[i] = d[k + i]
  <2> TAKE i \in 1 .. n
  <2>1. i \in 1 .. (k + n) - (k + 1) + 1 /\ (k + 1) + i - 1 = k + i
    OBVIOUS
  <2> QED
    BY <1>2, <2>1
<1>4. s \in Seq(Nat) /\ Len(s) = n
  BY <1>2
<1> QED
  BY <1>3, <1>4 DEF s

LEMMA FirstIs ==
    ASSUME NEW d \in Seq(Nat), NEW n \in Nat, n <= Len(d)
    PROVE  /\ SubSeq(d, 1, n) \in Seq(Nat) /\ Len(SubSeq(d, 1, n)) = n
           /\ \A i \in 1 .. n : SubSeq(d, 1, n)[i] = d[i]
<1>1. SubSeq(d, 0 + 1, 0 + n) = SubSeq(d, 1, n)
  OBVIOUS
<1>2. \A i \in 1 .. n : d[0 + i] = d[i]
  OBVIOUS
<1> QED
  BY <1>1, <1>2, PartIs

LEMMA BytesAre ==
    ASSUME NEW f \in Seq(Nat), NEW at \in Nat, NEW n \in Nat
    PROVE  /\ Bytes(f, at, n) \in Seq(Nat) /\ Len(Bytes(f, at, n)) = n
           /\ \A i \in 1 .. n : Bytes(f, at, n)[i] = IF i + at <= Len(f) THEN f[i + at] ELSE 0
<1> DEFINE e(i) == IF i + at <= Len(f) THEN f[i + at] ELSE 0
<1>1. \A i \in 1 .. n : e(i) \in Nat
  <2> TAKE i \in 1 .. n
  <2>1. CASE i + at <= Len(f)
    <3>1. Len(f) \in Nat /\ i + at \in 1 .. Len(f)
      BY <2>1, LenProperties
    <3> QED
      BY <2>1, <3>1, ElementOfSeq
  <2> QED
    BY <2>1
<1> HIDE DEF e
<1>2. [i \in 1 .. n |-> e(i)] \in Seq(Nat) /\ Len([i \in 1 .. n |-> e(i)]) = n
  BY <1>1, IsASeq
<1> QED
  BY <1>2 DEF Bytes, e

LEMMA BytesNone == ASSUME NEW f, NEW at PROVE Bytes(f, at, 0) = <<>>
  BY DEF Bytes

LEMMA BytesAll ==
    ASSUME NEW f \in Seq(Nat), NEW at \in Nat, NEW n \in Nat
    PROVE  SubSeq(Bytes(f, at, n), 1, n) = Bytes(f, at, n)
<1>1. Bytes(f, at, n) \in Seq(Nat) /\ Len(Bytes(f, at, n)) = n
  BY BytesAre
<1> QED
  BY <1>1, SubSeqFull

\* What is read in two parts.
LEMMA BytesJoin ==
    ASSUME NEW f \in Seq(Nat), NEW at \in Nat, NEW k \in Nat, NEW n \in Nat
    PROVE  Bytes(f, at, k) \o Bytes(f, at + k, n) = Bytes(f, at, k + n)
<1>p. PICK p \in Nat : p = at + k
  OBVIOUS
<1>q. PICK q \in Nat : q = k + n
  OBVIOUS
<1> DEFINE a == Bytes(f, at, k)
           b == Bytes(f, p, n)
           c == Bytes(f, at, q)
<1>1. /\ a \in Seq(Nat) /\ Len(a) = k
      /\ \A i \in 1 .. k : a[i] = IF i + at <= Len(f) THEN f[i + at] ELSE 0
  BY BytesAre
<1>2p. /\ Bytes(f, p, n) \in Seq(Nat) /\ Len(Bytes(f, p, n)) = n
       /\ \A i \in 1 .. n : Bytes(f, p, n)[i] = IF i + p <= Len(f) THEN f[i + p] ELSE 0
  BY BytesAre
<1>2. b \in Seq(Nat) /\ Len(b) = n
  BY <1>2p
<1>2e. \A i \in 1 .. n : b[i] = IF i + p <= Len(f) THEN f[i + p] ELSE 0
  BY <1>2p
<1>3q. /\ Bytes(f, at, q) \in Seq(Nat) /\ Len(Bytes(f, at, q)) = q
       /\ \A i \in 1 .. q : Bytes(f, at, q)[i] = IF i + at <= Len(f) THEN f[i + at] ELSE 0
  BY BytesAre
<1>3. c \in Seq(Nat) /\ Len(c) = q
  BY <1>3q
<1>3e. \A i \in 1 .. q : c[i] = IF i + at <= Len(f) THEN f[i + at] ELSE 0
  BY <1>3q
<1> HIDE DEF a, b, c
<1>5. /\ a \o b \in Seq(Nat) /\ Len(a \o b) = q
      /\ \A i \in 1 .. q : (a \o b)[i] = IF i <= k THEN a[i] ELSE b[i - k]
  <2>1. a \in Seq(Nat) /\ Len(a) = k
    BY <1>1
  <2>2. /\ a \o b \in Seq(Nat) /\ Len(a \o b) = Len(a) + Len(b)
        /\ \A i \in 1 .. Len(a) + Len(b) : (a \o b)[i] = IF i <= Len(a) THEN a[i] ELSE b[i - Len(a)]
    BY <1>2, <2>1, ConcatProperties
  <2>3. Len(a) + Len(b) = q
    BY <1>2, <1>q, <2>1
  <2> QED
    BY <2>1, <2>2, <2>3
<1>6. \A i \in 1 .. q : (a \o b)[i] = c[i]
  <2> TAKE i \in 1 .. q
  <2>1. CASE i <= k
    <3>1. i \in 1 .. k
      BY <2>1
    <3>2. (a \o b)[i] = a[i]
      BY <1>5, <2>1
    <3> QED
      BY <1>1, <1>3e, <3>1, <3>2
  <2>2. CASE i > k
    <3>1. PICK j \in 1 .. n : j = i - k /\ j + p = i + at
      BY <1>p, <1>q, <2>2
    <3>2. (a \o b)[i] = b[i - k]
      <4>1. (a \o b)[i] = IF i <= k THEN a[i] ELSE b[i - k]
        BY <1>5
      <4> QED
        BY <2>2, <4>1
    <3>3. b[j] = IF i + at <= Len(f) THEN f[i + at] ELSE 0
      BY <1>2e, <3>1
    <3> QED
      BY <1>3e, <3>1, <3>2, <3>3
  <2>3. i <= k \/ i > k
    OBVIOUS
  <2> QED
    BY <2>1, <2>2, <2>3
<1>7. a \o b = c
  BY <1>3, <1>5, <1>6, SeqEqual
<1> QED
  BY <1>p, <1>q, <1>7 DEF a, b, c

LongEnough(file, at, n) == IF n = 0 \/ at + n <= Len(file) THEN Len(file) ELSE at + n

LEMMA OverwrittenIs ==
    ASSUME NEW f \in Seq(Nat), NEW at \in Nat, NEW d \in Seq(Nat)
    PROVE  /\ Overwritten(f, at, d) \in Seq(Nat)
           /\ Len(Overwritten(f, at, d)) = LongEnough(f, at, Len(d))
           /\ \A i \in 1 .. LongEnough(f, at, Len(d)) :
                 Overwritten(f, at, d)[i] = IF i > at /\ i <= at + Len(d) THEN d[i - at]
                                            ELSE IF i <= Len(f) THEN f[i] ELSE 0
<1>0. Len(f) \in Nat /\ Len(d) \in Nat
  BY LenProperties
<1>1. CASE d = <<>>
  BY <1>0, <1>1 DEF Overwritten, LongEnough
<1>2. CASE d # <<>>
  <2> DEFINE a == Bytes(f, 0, at)
             s == SubSeq(f, at + Len(d) + 1, Len(f))
             o == (a \o d) \o s
  <2>1. Len(d) > 0
    BY <1>0, <1>2, EmptySeq
  <2>2. /\ a \in Seq(Nat) /\ Len(a) = at
        /\ \A i \in 1 .. at : a[i] = IF i <= Len(f) THEN f[i] ELSE 0
    <3>1. /\ a \in Seq(Nat) /\ Len(a) = at
          /\ \A i \in 1 .. at : a[i] = IF i + 0 <= Len(f) THEN f[i + 0] ELSE 0
      <4>1. 0 \in Nat
        OBVIOUS
      <4> HIDE DEF a
      <4> QED
        BY <4>1, BytesAre DEF a
    <3> HIDE DEF a
    <3>2. \A i \in 1 .. at : i + 0 = i
      OBVIOUS
    <3> QED
      BY <3>1, <3>2
  <2>p. PICK p \in Nat : p = at + Len(d)
    BY <1>0
  <2>l. LongEnough(f, at, Len(d)) = IF p <= Len(f) THEN Len(f) ELSE p
    BY <1>0, <2>1, <2>p DEF LongEnough
  <2>q. PICK q \in Nat : q = LongEnough(f, at, Len(d)) /\ (q = IF p <= Len(f) THEN Len(f) ELSE p)
    BY <1>0, <2>l
  <2>n. q \in Nat /\ q >= p
    BY <1>0, <2>q
  <2>r. PICK r \in Nat : r = q - p
    BY <2>n
  <2>4. /\ s \in Seq(Nat) /\ Len(s) = r
        /\ \A i \in 1 .. r : s[i] = f[p + i]
    <3>1. \A i \in (p + 1) .. Len(f) : f[i] \in Nat
      BY <1>0, ElementOfSeq
    <3>2. s = SubSeq(f, p + 1, Len(f))
      BY <2>p
    <3> HIDE DEF s
    <3>3. /\ s \in Seq(Nat)
          /\ Len(s) = IF p + 1 <= Len(f) THEN Len(f) - (p + 1) + 1 ELSE 0
          /\ \A i \in 1 .. (Len(f) - (p + 1) + 1) : s[i] = f[(p + 1) + i - 1]
      <4>1. p + 1 \in Int /\ Len(f) \in Int
        BY <1>0
      <4> QED
        BY <3>1, <3>2, <4>1, SubSeqProperties
    <3>4. Len(s) = r
      BY <1>0, <2>q, <2>r, <3>3
    <3>5. \A i \in 1 .. r : s[i] = f[p + i]
      <4> TAKE i \in 1 .. r
      <4>1. i \in 1 .. (Len(f) - (p + 1) + 1) /\ (p + 1) + i - 1 = p + i
        BY <1>0, <2>q, <2>r
      <4> QED
        BY <3>3, <4>1
    <3> QED
      BY <3>3, <3>4, <3>5
  <2> HIDE DEF a, s
  <2>5. /\ a \o d \in Seq(Nat) /\ Len(a \o d) = p
        /\ \A i \in 1 .. p : (a \o d)[i] = IF i <= at THEN a[i] ELSE d[i - at]
    <3>1. a \in Seq(Nat) /\ Len(a) = at
      BY <2>2
    <3>2. /\ a \o d \in Seq(Nat) /\ Len(a \o d) = Len(a) + Len(d)
          /\ \A i \in 1 .. Len(a) + Len(d) : (a \o d)[i] = IF i <= Len(a) THEN a[i] ELSE d[i - Len(a)]
      BY <3>1, ConcatProperties
    <3>3. Len(a) + Len(d) = p
      BY <2>p, <3>1
    <3> QED
      BY <3>1, <3>2, <3>3
  <2> DEFINE ad == a \o d
  <2> HIDE DEF ad
  <2>6. /\ o \in Seq(Nat) /\ Len(o) = q
        /\ \A i \in 1 .. q : o[i] = IF i <= p THEN ad[i] ELSE s[i - p]
    <3>1. ad \in Seq(Nat) /\ Len(ad) = p
      BY <2>5 DEF ad
    <3>2. s \in Seq(Nat) /\ Len(s) = r
      BY <2>4
    <3>3. /\ ad \o s \in Seq(Nat) /\ Len(ad \o s) = Len(ad) + Len(s)
          /\ \A i \in 1 .. Len(ad) + Len(s) : (ad \o s)[i] = IF i <= Len(ad) THEN ad[i] ELSE s[i - Len(ad)]
      BY <3>1, <3>2, ConcatProperties
    <3>4. Len(ad) + Len(s) = q
      BY <2>q, <2>r, <3>1, <3>2
    <3>5. o = ad \o s
      BY DEF ad
    <3> HIDE DEF o
    <3> QED
      BY <3>1, <3>3, <3>4, <3>5
  <2> HIDE DEF o
  <2>8. \A i \in 1 .. q :
            o[i] = IF i > at /\ i <= p THEN d[i - at] ELSE IF i <= Len(f) THEN f[i] ELSE 0
    <3> TAKE i \in 1 .. q
    <3>1. CASE i <= at
      <4>1. i \in 1 .. at /\ i \in 1 .. p
        BY <1>0, <2>p, <3>1
      <4>2. o[i] = ad[i] /\ ad[i] = a[i]
        BY <2>5, <2>6, <3>1, <4>1 DEF ad
      <4> QED
        BY <1>0, <2>2, <3>1, <4>1, <4>2
    <3>2. CASE i > at /\ i <= p
      <4>1. i \in 1 .. p
        BY <3>2
      <4>2. o[i] = ad[i] /\ ad[i] = d[i - at]
        BY <2>5, <2>6, <3>2, <4>1 DEF ad
      <4> QED
        BY <3>2, <4>2
    <3>3. CASE i > p
      <4>1. PICK j \in 1 .. r : j = i - p /\ p + j = i
        BY <2>r, <3>3
      <4>2. i <= Len(f)
        BY <1>0, <2>q, <3>3
      <4>3. o[i] = s[j] /\ s[j] = f[i]
        BY <2>4, <2>6, <3>3, <4>1
      <4> QED
        BY <3>3, <4>2, <4>3
    <3> QED
      BY <3>1, <3>2, <3>3
  <2>9. Overwritten(f, at, d) = o
    BY <1>2 DEF Overwritten, a, s, o
  <2> QED
    BY <2>6, <2>8, <2>9, <2>p, <2>q
<1> QED
  BY <1>1, <1>2

\* What is written in two parts.
LEMMA OverwrittenTwice ==
    ASSUME NEW f \in Seq(Nat), NEW at \in Nat, NEW d \in Seq(Nat), NEW k \in 0 .. Len(d),
           NEW m \in 0 .. Len(d) - k, NEW n \in 0 .. m
    PROVE  Overwritten(Overwritten(f, at, SubSeq(d, 1, k)), at + k, SubSeq(SubSeq(d, k + 1, k + m), 1, n))
           = Overwritten(f, at, SubSeq(d, 1, k + n))
<1> DEFINE d1 == SubSeq(d, 1, k)
           dm == SubSeq(d, k + 1, k + m)
           d2 == SubSeq(dm, 1, n)
           d3 == SubSeq(d, 1, k + n)
<1>0. Len(d) \in Nat /\ k \in Nat /\ m \in Nat /\ n \in Nat /\ at \in Nat /\ Len(f) \in Nat
  BY LenProperties
<1>1. d1 \in Seq(Nat) /\ Len(d1) = k /\ \A i \in 1 .. k : d1[i] = d[i]
  BY <1>0, FirstIs
<1>2. dm \in Seq(Nat) /\ Len(dm) = m /\ \A i \in 1 .. m : dm[i] = d[k + i]
  <2>1. k + m <= Len(d)
    BY <1>0
  <2> QED
    BY <1>0, <2>1, PartIs
<1> HIDE DEF dm
<1>3. d2 \in Seq(Nat) /\ Len(d2) = n /\ \A i \in 1 .. n : d2[i] = d[k + i]
  <2>1. dm \in Seq(Nat) /\ n <= Len(dm)
    BY <1>0, <1>2
  <2>2. d2 \in Seq(Nat) /\ Len(d2) = n /\ \A i \in 1 .. n : d2[i] = dm[i]
    BY <1>0, <2>1, FirstIs
  <2>3. \A i \in 1 .. n : dm[i] = d[k + i]
    <3> TAKE i \in 1 .. n
    <3>1. i \in 1 .. m
      BY <1>0
    <3> QED
      BY <1>2, <3>1
  <2> HIDE DEF d2
  <2> QED
    BY <2>2, <2>3
<1>p. PICK p \in Nat : p = at + k
  BY <1>0
<1>q. PICK q \in Nat : q = k + n
  BY <1>0
<1>4. d3 \in Seq(Nat) /\ Len(d3) = q /\ \A i \in 1 .. q : d3[i] = d[i]
  <2>1. q <= Len(d) /\ d3 = SubSeq(d, 1, q)
    BY <1>0, <1>q
  <2> HIDE DEF d3
  <2> QED
    BY <2>1, FirstIs
<1> HIDE DEF d1, d2, d3
<1> DEFINE g == Overwritten(f, at, d1)
           h == Overwritten(g, p, d2)
           w == Overwritten(f, at, d3)
<1>5. /\ g \in Seq(Nat) /\ Len(g) = LongEnough(f, at, k)
      /\ \A i \in 1 .. LongEnough(f, at, k) :
            g[i] = IF i > at /\ i <= p THEN d1[i - at] ELSE IF i <= Len(f) THEN f[i] ELSE 0
  <2>1. d1 \in Seq(Nat) /\ Len(d1) = k
    BY <1>1
  <2> HIDE DEF g
  <2>2. /\ g \in Seq(Nat) /\ Len(g) = LongEnough(f, at, Len(d1))
        /\ \A i \in 1 .. LongEnough(f, at, Len(d1)) :
            g[i] = IF i > at /\ i <= at + Len(d1) THEN d1[i - at] ELSE IF i <= Len(f) THEN f[i] ELSE 0
    BY <2>1, OverwrittenIs DEF g
  <2> QED
    BY <1>p, <2>1, <2>2
<1> HIDE DEF g
<1>6. /\ h \in Seq(Nat) /\ Len(h) = LongEnough(g, p, n)
      /\ \A i \in 1 .. LongEnough(g, p, n) :
            h[i] = IF i > p /\ i <= p + n THEN d2[i - p] ELSE IF i <= Len(g) THEN g[i] ELSE 0
  <2>1. d2 \in Seq(Nat) /\ Len(d2) = n
    BY <1>3
  <2>2. /\ h \in Seq(Nat) /\ Len(h) = LongEnough(g, p, Len(d2))
        /\ \A i \in 1 .. LongEnough(g, p, Len(d2)) :
            h[i] = IF i > p /\ i <= p + Len(d2) THEN d2[i - p] ELSE IF i <= Len(g) THEN g[i] ELSE 0
    <3>1. g \in Seq(Nat)
      BY <1>5
    <3> HIDE DEF h
    <3> QED
      BY <2>1, <3>1, OverwrittenIs DEF h
  <2> HIDE DEF h
  <2> QED
    BY <2>1, <2>2
<1>7. /\ w \in Seq(Nat) /\ Len(w) = LongEnough(f, at, q)
      /\ \A i \in 1 .. LongEnough(f, at, q) :
            w[i] = IF i > at /\ i <= at + q THEN d3[i - at] ELSE IF i <= Len(f) THEN f[i] ELSE 0
  <2>1. d3 \in Seq(Nat) /\ Len(d3) = q
    BY <1>4
  <2> HIDE DEF w
  <2>2. /\ w \in Seq(Nat) /\ Len(w) = LongEnough(f, at, Len(d3))
        /\ \A i \in 1 .. LongEnough(f, at, Len(d3)) :
            w[i] = IF i > at /\ i <= at + Len(d3) THEN d3[i - at] ELSE IF i <= Len(f) THEN f[i] ELSE 0
    BY <2>1, OverwrittenIs DEF w
  <2> QED
    BY <2>1, <2>2
<1> HIDE DEF h, w
<1>8. LongEnough(g, p, n) = LongEnough(f, at, q) /\ LongEnough(f, at, q) \in Nat
  <2>1. Len(g) = LongEnough(f, at, k)
    BY <1>5
  <2>2. LongEnough(f, at, k) = IF k = 0 \/ p <= Len(f) THEN Len(f) ELSE p
    BY <1>p DEF LongEnough
  <2>3. LongEnough(f, at, q) = IF q = 0 \/ at + q <= Len(f) THEN Len(f) ELSE at + q
    BY DEF LongEnough
  <2>4. LongEnough(g, p, n) = IF n = 0 \/ p + n <= Len(g) THEN Len(g) ELSE p + n
    BY DEF LongEnough
  <2>5. at + q = p + n /\ (q = 0 <=> k = 0 /\ n = 0) /\ at \in Nat /\ p >= at
    BY <1>0, <1>p, <1>q
  <2>6. CASE n = 0
    BY <1>0, <1>p, <1>q, <2>1, <2>2, <2>3, <2>4, <2>6
  <2>7. CASE n # 0 /\ k = 0
    BY <1>0, <1>p, <1>q, <2>1, <2>2, <2>3, <2>4, <2>7
  <2>8. CASE n # 0 /\ k # 0
    <3>1. Len(g) = IF p <= Len(f) THEN Len(f) ELSE p
      BY <2>1, <2>2, <2>8
    <3>2. LongEnough(f, at, q) = IF p + n <= Len(f) THEN Len(f) ELSE p + n
      BY <2>3, <2>5, <2>8
    <3> QED
      BY <1>0, <2>4, <2>8, <3>1, <3>2
  <2> QED
    BY <2>6, <2>7, <2>8
<1>r. PICK r \in Nat : r = LongEnough(f, at, q)
  BY <1>8
<1>9. \A i \in 1 .. r : h[i] = w[i]
  <2> TAKE i \in 1 .. r
  <2>h. h[i] = IF i > p /\ i <= p + n THEN d2[i - p] ELSE IF i <= Len(g) THEN g[i] ELSE 0
    BY <1>6, <1>8, <1>r
  <2>w. w[i] = IF i > at /\ i <= at + q THEN d3[i - at] ELSE IF i <= Len(f) THEN f[i] ELSE 0
    BY <1>7, <1>r
  <2>l. Len(g) = LongEnough(f, at, k) /\ Len(g) \in Nat
    BY <1>0, <1>5 DEF LongEnough
  <2>g. i <= Len(g) => g[i] = IF i > at /\ i <= p THEN d1[i - at] ELSE IF i <= Len(f) THEN f[i] ELSE 0
    BY <1>5, <2>l
  <2>1. CASE i > p /\ i <= p + n
    <3>1. PICK j \in 1 .. n : j = i - p
      BY <2>1
    <3>2. PICK l \in 1 .. q : l = i - at /\ l = k + j
      BY <1>0, <1>p, <1>q, <2>1, <3>1
    <3>3. h[i] = d2[j] /\ w[i] = d3[l]
      BY <1>0, <1>p, <1>q, <2>1, <2>h, <2>w, <3>1, <3>2
    <3> QED
      BY <1>3, <1>4, <3>2, <3>3
  <2>2. CASE i > at /\ i <= p
    <3>1. PICK l \in 1 .. k : l = i - at
      BY <1>0, <1>p, <2>2
    <3>2. l \in 1 .. q /\ i <= Len(g) /\ i <= at + q /\ ~(i > p)
      BY <1>0, <1>p, <1>q, <2>2, <2>l, <3>1 DEF LongEnough
    <3>3. h[i] = d1[l] /\ w[i] = d3[l]
      BY <2>2, <2>h, <2>w, <2>g, <3>1, <3>2
    <3> QED
      BY <1>1, <1>4, <3>1, <3>2, <3>3
  <2>3. CASE i <= at \/ i > p + n
    <3>1. ~(i > at /\ i <= at + q) /\ ~(i > p /\ i <= p + n) /\ ~(i > at /\ i <= p)
      BY <1>0, <1>p, <1>q, <2>3
    <3>2. i > Len(g) => i > Len(f)
      BY <1>0, <2>l DEF LongEnough
    <3> QED
      BY <1>0, <2>h, <2>w, <2>g, <2>l, <3>1, <3>2
  <2>4. (i > p /\ i <= p + n) \/ (i > at /\ i <= p) \/ (i <= at \/ i > p + n)
    BY <1>0, <1>p
  <2> QED
    BY <2>1, <2>2, <2>3, <2>4
<1>10. h = w
  <2>1. h \in Seq(Nat) /\ Len(h) = r
    BY <1>6, <1>8, <1>r
  <2>2. w \in Seq(Nat) /\ Len(w) = r
    BY <1>7, <1>r
  <2> QED
    BY <1>9, <2>1, <2>2, SeqEqual
<1> QED
  BY <1>10, <1>p, <1>q DEF g, h, w, d1, d2, d3, dm

-----------------------------------------------------------------------------
(* The chain of INT 2Fh, by its five shapes. *)

LEMMA ReachedFrom ==
    ASSUME prev = [h \in {"us", "other"} |-> prev[h]]
    PROVE  /\ vector = "dos" => Reached = {"dos"}
           /\ vector = "us" /\ prev["us"] = "dos" => Reached = {"us", "dos"}
           /\ vector = "other" /\ prev["other"] = "dos" => Reached = {"other", "dos"}
           /\ vector = "us" /\ prev["us"] = "other" /\ prev["other"] = "dos" => Reached = {"us", "other", "dos"}
           /\ vector = "other" /\ prev["other"] = "us" /\ prev["us"] = "dos" => Reached = {"other", "us", "dos"}
<1>1. Down["dos"] = "dos" /\ Down["us"] = prev["us"] /\ Down["other"] = prev["other"]
  BY DEF Down
<1> QED
  BY <1>1 DEF Reached

LEMMA ChainStart == ASSUME Init PROVE ChainInv
<1>1. prev = [us |-> "dos", other |-> "dos"] /\ prev["us"] = "dos" /\ prev["other"] = "dos"
  BY DEF Init
<1>2. prev = [h \in {"us", "other"} |-> prev[h]]
  BY <1>1
<1>3. /\ vector = IF task.drive = "none" THEN "dos" ELSE "us"
      /\ memory = {"dos", vector} /\ task \in Tasks
      /\ cds = [d \in Drive |-> IF d = task.drive THEN "net" ELSE IF d = "A" THEN "local" ELSE "free"]
  BY DEF Init
<1>4. task.drive \in Drive \cup {"none"} /\ "none" \notin Drive
  BY <1>3, TaskAssumption
<1>5. Reached = memory
  BY <1>1, <1>2, <1>3, ReachedFrom
<1>6. (\E d \in Drive : cds[d] = "net") <=> Resident
  BY <1>1, <1>2, <1>3, <1>4, ReachedFrom DEF Resident
<1>7. cds = [d \in Drive |-> cds[d]]
  BY <1>3
<1> QED
  BY <1>1, <1>2, <1>3, <1>5, <1>6, <1>7 DEF ChainInv, ChainShape, ChainSound

LEMMA ChainStays == ASSUME ChainInv, UNCHANGED chain PROVE ChainInv'
<1>1. vector' = vector /\ prev' = prev /\ memory' = memory /\ cds' = cds
  BY DEF chain
<1> QED
  BY <1>1 DEF ChainInv, ChainShape, ChainSound, Reached, Resident, Down

LEMMA ChainInstalls == ASSUME ChainInv, MainInstalls PROVE ChainInv'
<1>1. PICK d \in Drive : cds[d] = "free" /\ cds' = [cds EXCEPT ![d] = "net"]
  BY DEF MainInstalls
<1>2. /\ "us" \notin Reached /\ memory' = memory \cup {"us"} /\ vector' = "us"
      /\ prev' = [prev EXCEPT !["us"] = vector]
  BY DEF MainInstalls, Resident
<1>3. prev' = [h \in {"us", "other"} |-> prev'[h]] /\ prev'["us"] = vector /\ prev'["other"] = prev["other"]
  BY <1>2 DEF ChainInv, ChainShape
<1>4. vector = "dos" \/ (vector = "other" /\ prev["other"] = "dos")
  <2>1. vector # "us"
    BY <1>2 DEF Reached
  <2>2. ~(vector = "other" /\ prev["other"] = "us")
    <3>1. Down["other"] = prev["other"]
      BY DEF Down
    <3> QED
      BY <1>2, <3>1 DEF Reached
  <2> QED
    <3>1. ChainShape
      BY DEF ChainInv
    <3> QED
      BY <2>1, <2>2, <3>1 DEF ChainShape
<1>5. memory = Reached
  BY DEF ChainInv, ChainShape, ChainSound
<1>6. /\ (vector' = "us" /\ prev'["us"] = "dos" => Reached' = {"us", "dos"})
      /\ (vector' = "us" /\ prev'["us"] = "other" /\ prev'["other"] = "dos" => Reached' = {"us", "other", "dos"})
  <2>1. /\ Down'["dos"] = "dos" /\ Down'["us"] = prev'["us"] /\ Down'["other"] = prev'["other"]
    BY DEF Down
  <2> QED
    BY <2>1 DEF Reached
<1>7. Reached' = memory' /\ Resident'
  BY <1>2, <1>3, <1>4, <1>5, <1>6, ReachedFrom DEF ChainInv, ChainShape, Resident
<1>8. cds' = [e \in Drive |-> cds'[e]] /\ cds'[d] = "net"
  BY <1>1 DEF ChainInv, ChainShape
<1> QED
  BY <1>2, <1>3, <1>4, <1>7, <1>8 DEF ChainInv, ChainShape, ChainSound

LEMMA ChainUnloads == ASSUME ChainInv, MainUnloads PROVE ChainInv'
<1>1. /\ vector = "us" /\ vector' = prev["us"] /\ memory' = memory \ {"us"} /\ prev' = prev
      /\ cds' = [d \in Drive |-> IF cds[d] = "net" THEN "free" ELSE cds[d]]
  BY DEF MainUnloads, AtTop
<1>2. memory = Reached
  BY DEF ChainInv, ChainShape, ChainSound
<1>3. Down'["dos"] = "dos" /\ Down'["us"] = prev["us"] /\ Down'["other"] = prev["other"]
  BY <1>1 DEF Down
<1>4. /\ prev["us"] = "dos" => Reached = {"us", "dos"} /\ Reached' = {"dos"}
      /\ prev["us"] = "other" /\ prev["other"] = "dos" =>
            Reached = {"us", "other", "dos"} /\ Reached' = {"other", "dos"}
  BY <1>1, <1>3, ReachedFrom DEF ChainInv, ChainShape, Reached
<1>5. prev["us"] = "dos" \/ (prev["us"] = "other" /\ prev["other"] = "dos")
  BY <1>1 DEF ChainInv, ChainShape
<1>6. Reached' = memory' /\ "us" \notin Reached'
  BY <1>1, <1>2, <1>4, <1>5
<1>7. ~(\E d \in Drive : cds'[d] = "net")
  BY <1>1
<1> QED
  BY <1>1, <1>5, <1>6, <1>7 DEF ChainInv, ChainShape, ChainSound, Resident

LEMMA OtherComesChain == ASSUME ChainInv, OtherComes PROVE ChainInv'
<1>1. /\ "other" \notin Reached /\ vector' = "other" /\ prev' = [prev EXCEPT !["other"] = vector]
      /\ memory' = memory \cup {"other"} /\ cds' = cds
  BY DEF OtherComes
<1>2. prev' = [h \in {"us", "other"} |-> prev'[h]] /\ prev'["other"] = vector /\ prev'["us"] = prev["us"]
  BY <1>1 DEF ChainInv, ChainShape
<1>3. Down["us"] = prev["us"]
  BY DEF Down
<1>4. vector = "dos" \/ (vector = "us" /\ prev["us"] = "dos")
  BY <1>1, <1>3 DEF ChainInv, ChainShape, Reached
<1>5. Down'["dos"] = "dos" /\ Down'["us"] = prev'["us"] /\ Down'["other"] = prev'["other"]
  BY DEF Down
<1>6. /\ (vector = "dos" => Reached = {"dos"} /\ Reached' = {"other", "dos"})
      /\ (vector = "us" /\ prev["us"] = "dos" => Reached = {"us", "dos"} /\ Reached' = {"other", "us", "dos"})
  BY <1>1, <1>2, <1>5, ReachedFrom DEF ChainInv, ChainShape, Reached
<1>7. Reached' = memory' /\ (Resident' <=> Resident)
  BY <1>1, <1>4, <1>6 DEF ChainInv, ChainShape, ChainSound, Resident
<1> QED
  BY <1>1, <1>2, <1>4, <1>7 DEF ChainInv, ChainShape, ChainSound

LEMMA OtherLeavesChain == ASSUME ChainInv, OtherLeaves PROVE ChainInv'
<1>1. /\ vector = "other" /\ vector' = prev["other"] /\ memory' = memory \ {"other"}
      /\ prev' = prev /\ cds' = cds
  BY DEF OtherLeaves
<1>2. prev["other"] = "dos" \/ (prev["other"] = "us" /\ prev["us"] = "dos")
  BY <1>1 DEF ChainInv, ChainShape
<1>3. Down'["dos"] = "dos" /\ Down'["us"] = prev["us"] /\ Down'["other"] = prev["other"]
  BY <1>1 DEF Down
<1>4. /\ prev["other"] = "dos" => Reached = {"other", "dos"} /\ Reached' = {"dos"}
      /\ prev["other"] = "us" /\ prev["us"] = "dos" =>
            Reached = {"other", "us", "dos"} /\ Reached' = {"us", "dos"}
  BY <1>1, <1>3, ReachedFrom DEF ChainInv, ChainShape, Reached
<1>5. Reached' = memory' /\ (Resident' <=> Resident)
  BY <1>1, <1>2, <1>4 DEF ChainInv, ChainShape, ChainSound, Resident
<1> QED
  BY <1>1, <1>2, <1>5 DEF ChainInv, ChainShape, ChainSound

LEMMA ChainStep == ASSUME ChainInv, [Next]_vars PROVE ChainInv'
<1>1. CASE UNCHANGED chain
  BY <1>1, ChainStays
<1>2. CASE MainInstalls \/ MainUnloads \/ OtherComes \/ OtherLeaves
  BY <1>2, ChainInstalls, ChainUnloads, OtherComesChain, OtherLeavesChain
<1>3. CASE \E c \in task.calls : Call(c)
  BY <1>1, <1>3 DEF Call
<1>4. CASE SendQuery
  <2>1. CASE FillFrame \/ Arm \/ Post \/ Spin
    BY <1>1, <2>1 DEF FillFrame, Arm, Post, Spin, vars
  <2>2. CASE TakeAnswer
    BY <1>1, <2>2 DEF TakeAnswer
  <2> QED
    BY <1>4, <2>1, <2>2 DEF SendQuery
<1>5. CASE Host \/ MainFails \/ Seek
  BY <1>1, <1>5 DEF Host, HostSees, HostWorks, HostMarks, MainFails, Seek
<1>6. CASE UNCHANGED vars
  BY <1>1, <1>6 DEF vars
<1> QED
  BY <1>2, <1>3, <1>4, <1>5, <1>6 DEF Next

\* The driver cannot be unloaded under another program, nor left in the chain
\* without its memory: whoever comes and leaves, the handlers that INT 2Fh
\* runs through are those whose memory is allocated, and DOS has a drive of the
\* redirector exactly while the driver is among them (main, findfreemultiplex
\* and the unloading by /u of MiSTerFS.C).
THEOREM FsChainSound == Spec => []ChainSound
<1>1. ChainInv => ChainSound
  BY DEF ChainInv, ChainShape
<1> QED
  BY <1>1, ChainStart, ChainStep, PTL DEF Spec

-----------------------------------------------------------------------------
(* What a step that neither answers nor takes an answer leaves as it was. *)

\* The call that is carried out is the same, and so is what is known of it.
SameCall == /\ driver'.call = driver.call /\ driver'.done = driver.done /\ driver'.cx = driver.cx
            /\ (Calling' <=> Calling) /\ (Answered' <=> Answered)
            /\ Answered => frame' = frame

LEMMA TransfersStay ==
    ASSUME FileInv, ReadInv, WriteInv, OpenInv, SameCall, UNCHANGED <<sft, before, buffer>>,
           host'.file = host.file
    PROVE  FileInv' /\ ReadInv' /\ WriteInv' /\ OpenInv'
<1>1. /\ driver'.call = driver.call /\ driver'.done = driver.done /\ driver'.cx = driver.cx
      /\ sft' = sft /\ before' = before /\ buffer' = buffer /\ host'.file = host.file
      /\ (Calling' <=> Calling) /\ (Answered' <=> Answered)
      /\ Answered => frame' = frame
  BY DEF SameCall
<1>2. op' = op
  BY <1>1 DEF op
<1>3. FileInv'
  BY <1>1, <1>2 DEF FileInv
<1>4. ReadInv'
  BY <1>1, <1>2 DEF ReadInv
<1>5. \A n : Written(n)' = Written(n)
  BY <1>1 DEF Written
<1>6. WriteInv'
  BY <1>1, <1>2, <1>5 DEF WriteInv
<1>7. OpenInv'
  BY <1>1, <1>2 DEF OpenInv
<1> QED
  BY <1>3, <1>4, <1>6, <1>7

LEMMA SearchesStay ==
    ASSUME ListsInv, LiveInv, FindInv, SearchesExact, SameCall, Ahead' = Ahead,
           UNCHANGED <<task, dta, listed, ff_token>>, host'.lists = host.lists
    PROVE  ListsInv' /\ LiveInv' /\ FindInv' /\ SearchesExact'
<1>1. /\ driver'.call = driver.call /\ (Calling' <=> Calling) /\ (Answered' <=> Answered)
      /\ task' = task /\ dta' = dta /\ listed' = listed /\ ff_token' = ff_token /\ host'.lists = host.lists
      /\ Answered => frame' = frame
  BY DEF SameCall
<1>2. op' = op
  BY <1>1 DEF op
<1>4. \A t : Entries(t)' = Entries(t)
  BY <1>1 DEF Entries
<1>3. ListsInv'
  BY <1>1, <1>2, <1>4 DEF ListsInv
<1>5. \A s : Beginning(s)' <=> Beginning(s)
  BY <1>1, <1>2 DEF Beginning
<1>6. LiveInv'
  BY <1>1, <1>2, <1>4, <1>5 DEF LiveInv, Since
<1>7. FindInv'
  BY <1>1, <1>2, <1>4 DEF FindInv, Begins
<1>8. SearchesExact'
  BY <1>1, <1>4 DEF SearchesExact
<1> QED
  BY <1>3, <1>6, <1>7, <1>8

LEMMA FrameStays ==
    ASSUME FrameInv, SameCall, Asking' => Asking, UNCHANGED <<frame, sft, dta, ff_token>>
    PROVE  FrameInv'
<1>1. /\ driver'.call = driver.call /\ driver'.done = driver.done /\ frame' = frame
      /\ sft' = sft /\ dta' = dta /\ ff_token' = ff_token
  BY DEF SameCall
<1>2. op' = op
  BY <1>1 DEF op
<1>3. Query(driver.call, driver.done)' = Query(driver.call, driver.done)
  BY <1>1 DEF Query, ReadOffset
<1> QED
  BY <1>1, <1>2, <1>3 DEF FrameInv, Begins

LEMMA ShapesStay ==
    ASSUME Shapes, UNCHANGED <<task, sft>>, host' = [f \in HostFields |-> host'[f]], host'.file = host.file,
           driver' = [f \in DriverFields |-> driver'[f]], driver'.call = driver.call, driver'.cf = driver.cf,
           Calling' <=> Calling
    PROVE  Shapes'
<1>1. op' = op
  BY DEF op
<1> QED
  BY <1>1 DEF Shapes

LEMMA InsideStays ==
    ASSUME Inside, UNCHANGED <<task, flag, reply, frame, driver, sft, dta, ff_token, buffer, host, before, listed>>
    PROVE  Inside'
<1>1. /\ task' = task /\ flag' = flag /\ reply' = reply /\ frame' = frame /\ driver' = driver /\ sft' = sft
      /\ dta' = dta /\ ff_token' = ff_token /\ buffer' = buffer /\ host' = host /\ before' = before /\ listed' = listed
  OBVIOUS
<1>2. HandInv' /\ (Answered' <=> Answered) /\ (Asking' <=> Asking) /\ (Calling' <=> Calling) /\ op' = op
  BY <1>1 DEF Inside, HandInv, Answered, Asking, Calling, op
<1>3. Ahead' = Ahead
  BY <1>1, <1>2 DEF Ahead
<1>4. SameCall
  BY <1>1, <1>2 DEF SameCall
<1>5. FileInv' /\ ReadInv' /\ WriteInv' /\ OpenInv'
  BY <1>1, <1>4, TransfersStay DEF Inside
<1>6. ListsInv' /\ LiveInv' /\ FindInv' /\ SearchesExact'
  BY <1>1, <1>3, <1>4, SearchesStay DEF Inside
<1>7. FrameInv'
  BY <1>1, <1>2, <1>4, FrameStays DEF Inside
<1>8. Shapes'
  BY <1>1, <1>2 DEF Inside, Shapes
<1> QED
  BY <1>2, <1>5, <1>6, <1>7, <1>8 DEF Inside

-----------------------------------------------------------------------------
(* The query is prepared and posted. *)

LEMMA AtIs ==
    /\ At("fill") => driver.pc = 1
    /\ At("arm") => driver.pc = 2
    /\ At("post") => driver.pc = 3
    /\ Waiting = 4
<1>1. Protocol = <<"fill", "arm", "post">> /\ DOMAIN Protocol = 1 .. 3 /\ Len(Protocol) = 3
  BY DEF Protocol
<1>2. Protocol[1] = "fill" /\ Protocol[2] = "arm" /\ Protocol[3] = "post"
  BY DEF Protocol
<1> QED
  BY <1>1, <1>2 DEF At, Waiting

LEMMA AdvanceIs ==
    ASSUME Shapes, Advance, driver.pc \in 1 .. 3
    PROVE  /\ driver' = [f \in DriverFields |-> driver'[f]] /\ driver'.pc = driver.pc + 1
           /\ driver'.call = driver.call /\ driver'.done = driver.done /\ driver'.cx = driver.cx /\ driver'.cf = driver.cf
           /\ op' = op /\ Calling /\ Calling'
<1>1. driver = [f \in DriverFields |-> driver[f]]
  BY DEF Shapes
<1>2. driver' = [driver EXCEPT !.pc = driver.pc + 1]
  BY DEF Advance
<1>3. driver' = [f \in DriverFields |-> driver'[f]] /\ driver'.pc = driver.pc + 1
  BY <1>1, <1>2 DEF DriverFields
<1>4. driver'.call = driver.call /\ driver'.done = driver.done /\ driver'.cx = driver.cx /\ driver'.cf = driver.cf
  BY <1>1, <1>2 DEF DriverFields
<1> QED
  BY <1>3, <1>4 DEF op, Calling

LEMMA MarkMoves == ASSUME flag \in 0 .. Marks PROVE NextMark(flag) \in 0 .. Marks - 1 /\ NextMark(flag) # flag
<1>1. CASE flag = Enable
  BY <1>1, MiSTerFSAssumption DEF NextMark, Enable
<1>2. CASE flag # Enable
  <2>1. flag \in 0 .. Marks - 1 /\ Marks \in Nat /\ Marks > 1
    BY <1>2, MiSTerFSAssumption DEF Enable
  <2>2. (flag + 1) % Marks = IF flag + 1 = Marks THEN 0 ELSE flag + 1
    BY <2>1
  <2> QED
    BY <1>2, <2>1, <2>2 DEF NextMark
<1> QED
  BY <1>1, <1>2

LEMMA ArmStep == ASSUME Inside, Arm PROVE Inside'
<1>1. driver.pc = 2 /\ Advance /\ reply' = Special
  BY AtIs DEF Arm
<1>2. UNCHANGED <<task, flag, frame, sft, dta, buffer, ff_token, host, before, listed>>
  BY DEF Arm, dos
<1>3. /\ driver' = [f \in DriverFields |-> driver'[f]] /\ driver'.pc = 3
      /\ driver'.call = driver.call /\ driver'.done = driver.done /\ driver'.cx = driver.cx /\ driver'.cf = driver.cf
      /\ op' = op /\ Calling /\ Calling'
  BY <1>1, AdvanceIs DEF Inside
<1>4. ~Answered /\ ~Answered' /\ Asking
  BY <1>1, <1>3 DEF Answered, Asking
<1>5. HandInv'
  BY <1>1, <1>2, <1>3, <1>4 DEF Inside, HandInv, Answered
<1>6. SameCall /\ Ahead' = Ahead
  BY <1>1, <1>3, <1>4 DEF SameCall, Ahead
<1>7. FileInv' /\ ReadInv' /\ WriteInv' /\ OpenInv'
  BY <1>2, <1>6, TransfersStay DEF Inside
<1>8. ListsInv' /\ LiveInv' /\ FindInv' /\ SearchesExact'
  BY <1>2, <1>6, SearchesStay DEF Inside
<1>9. FrameInv'
  BY <1>2, <1>4, <1>6, FrameStays DEF Inside
<1>10. Shapes'
  BY <1>2, <1>3, ShapesStay DEF Inside, Shapes
<1> QED
  BY <1>5, <1>7, <1>8, <1>9, <1>10 DEF Inside

LEMMA PostStep == ASSUME Inside, Post PROVE Inside'
<1>1. driver.pc = 3 /\ Advance /\ flag' = NextMark(flag)
  BY AtIs DEF Post
<1>2. UNCHANGED <<task, reply, frame, sft, dta, buffer, ff_token, host, before, listed>>
  BY DEF Post, dos
<1>3. /\ driver' = [f \in DriverFields |-> driver'[f]] /\ driver'.pc = 4
      /\ driver'.call = driver.call /\ driver'.done = driver.done /\ driver'.cx = driver.cx /\ driver'.cf = driver.cf
      /\ op' = op /\ Calling /\ Calling'
  BY <1>1, AdvanceIs DEF Inside
<1>4. flag \in 0 .. Marks /\ host.pc = "watch" /\ host.seen = flag /\ reply = Special
  BY <1>1 DEF Inside, HandInv, Answered
<1>5. flag' \in 0 .. Marks /\ flag' # host.seen /\ flag' # Enable
  BY <1>1, <1>4, MarkMoves, MiSTerFSAssumption DEF Enable
<1>6. ~Answered /\ ~Answered' /\ Asking
  BY <1>1, <1>2, <1>4, <1>5 DEF Answered, Asking
<1>7. HandInv'
  BY <1>2, <1>3, <1>4, <1>5, <1>6 DEF HandInv
<1>8. SameCall /\ Ahead' = Ahead
  BY <1>1, <1>3, <1>6 DEF SameCall, Ahead
<1>9. FileInv' /\ ReadInv' /\ WriteInv' /\ OpenInv'
  BY <1>2, <1>8, TransfersStay DEF Inside
<1>10. ListsInv' /\ LiveInv' /\ FindInv' /\ SearchesExact'
  BY <1>2, <1>8, SearchesStay DEF Inside
<1>11. FrameInv'
  BY <1>2, <1>6, <1>8, FrameStays DEF Inside
<1>12. Shapes'
  BY <1>2, <1>3, ShapesStay DEF Inside, Shapes
<1> QED
  BY <1>7, <1>9, <1>10, <1>11, <1>12 DEF Inside

LEMMA SeesStep == ASSUME Inside, HostSees PROVE Inside'
<1>1. host.pc = "watch" /\ flag # host.seen
  BY DEF HostSees
<1>2. UNCHANGED <<task, flag, reply, frame, driver, sft, dta, buffer, ff_token, before, listed>>
  BY DEF HostSees, window, dos
<1>3. /\ host' = [f \in HostFields |-> host'[f]] /\ host'.seen = flag
      /\ host'.pc = (IF flag = Enable THEN "watch" ELSE "work")
  BY DEF HostSees, Inside, Shapes, HostFields
<1>4. host'.file = host.file /\ host'.lists = host.lists
  BY DEF HostSees, Inside, Shapes, HostFields
<1>5. driver'.pc = driver.pc /\ (Calling' <=> Calling) /\ op' = op
  BY <1>2 DEF Calling, op
<1>6. /\ driver.pc \in {0, 4} /\ flag \in 0 .. Marks
      /\ driver.pc = 0 => flag = Enable
      /\ driver.pc = 4 => reply = Special /\ flag # Enable
  BY <1>1 DEF Inside, HandInv, Answered
<1>7. ~Answered /\ ~Answered'
  BY <1>1, <1>2, <1>3, <1>5, <1>6 DEF Answered
<1>8. HandInv'
  BY <1>2, <1>3, <1>6, <1>7 DEF HandInv
<1>9. SameCall /\ Ahead' = Ahead
  BY <1>2, <1>5, <1>7 DEF SameCall, Ahead
<1>10. FileInv' /\ ReadInv' /\ WriteInv' /\ OpenInv'
  BY <1>2, <1>4, <1>9, TransfersStay DEF Inside
<1>11. ListsInv' /\ LiveInv' /\ FindInv' /\ SearchesExact'
  BY <1>2, <1>4, <1>9, SearchesStay DEF Inside
<1>12. Asking' => Asking
  BY <1>5, <1>7 DEF Asking
<1>13. FrameInv'
  BY <1>2, <1>9, <1>12, FrameStays DEF Inside
<1>14. Shapes'
  BY <1>2, <1>3, <1>4, <1>5, ShapesStay DEF Inside, Shapes
<1> QED
  BY <1>8, <1>10, <1>11, <1>13, <1>14 DEF Inside

LEMMA MarksStep == ASSUME Inside, HostMarks PROVE Inside'
<1>1. host.pc = "mark" /\ reply' = host.seen
  BY DEF HostMarks
<1>2. UNCHANGED <<task, flag, frame, driver, sft, dta, buffer, ff_token, before, listed>>
  BY DEF HostMarks, dos
<1>3. host' = [f \in HostFields |-> host'[f]] /\ host'.seen = host.seen /\ host'.pc = "watch"
  BY DEF HostMarks, Inside, Shapes, HostFields
<1>4. host'.file = host.file /\ host'.lists = host.lists
  BY DEF HostMarks, Inside, Shapes, HostFields
<1>5. driver'.pc = driver.pc /\ (Calling' <=> Calling) /\ op' = op
  BY <1>2 DEF Calling, op
<1>6. driver.pc = 4 /\ host.seen = flag /\ flag \in 0 .. Marks /\ flag # Enable
  BY <1>1 DEF Inside, HandInv
<1>7. Answered /\ Answered'
  BY <1>1, <1>2, <1>3, <1>5, <1>6 DEF Answered
<1>8. HandInv'
  BY <1>1, <1>2, <1>3, <1>6, <1>7 DEF HandInv
<1>9. SameCall /\ Ahead' = Ahead
  BY <1>2, <1>5, <1>7 DEF SameCall, Ahead
<1>10. FileInv' /\ ReadInv' /\ WriteInv' /\ OpenInv'
  BY <1>2, <1>4, <1>9, TransfersStay DEF Inside
<1>11. ListsInv' /\ LiveInv' /\ FindInv' /\ SearchesExact'
  BY <1>2, <1>4, <1>9, SearchesStay DEF Inside
<1>12. Asking' => Asking
  BY <1>7 DEF Asking
<1>13. FrameInv'
  BY <1>2, <1>9, <1>12, FrameStays DEF Inside
<1>14. Shapes'
  BY <1>2, <1>3, <1>4, <1>5, ShapesStay DEF Inside, Shapes
<1> QED
  BY <1>8, <1>10, <1>11, <1>13, <1>14 DEF Inside

LEMMA TokenMoves ==
    ASSUME ff_token \in 0 .. Tokens - 1
    PROVE  (ff_token + 1) % Tokens = TokenAfter(ff_token) /\ TokenAfter(ff_token) \in 0 .. Tokens - 1
<1>1. PICK t \in 0 .. Tokens - 1 : t = ff_token
  OBVIOUS
<1>2. Tokens \in Nat /\ Tokens > 1
  BY MiSTerFSAssumption
<1>3. (t + 1) % Tokens = IF t + 1 = Tokens THEN 0 ELSE t + 1
  BY <1>2
<1> QED
  BY <1>1, <1>2, <1>3 DEF TokenAfter

LEMMA FillStep == ASSUME Inside, FillFrame PROVE Inside'
<1>1. driver.pc = 1 /\ Advance /\ frame' = Query(driver.call, driver.done) /\ ff_token' = NextToken(driver.call)
  BY AtIs DEF FillFrame
<1>2. UNCHANGED <<task, flag, reply, sft, dta, buffer, host, before, listed>>
  BY DEF FillFrame, dos
<1>3. /\ driver' = [f \in DriverFields |-> driver'[f]] /\ driver'.pc = 2
      /\ driver'.call = driver.call /\ driver'.done = driver.done /\ driver'.cx = driver.cx /\ driver'.cf = driver.cf
      /\ op' = op /\ Calling /\ Calling'
  BY <1>1, AdvanceIs DEF Inside
<1>4. ~Answered /\ ~Answered'
  BY <1>1, <1>3 DEF Answered
<1>5. HandInv'
  BY <1>1, <1>2, <1>3, <1>4 DEF Inside, HandInv
<1>6. SameCall
  BY <1>1, <1>3, <1>4 DEF SameCall
<1>7. FileInv' /\ ReadInv' /\ WriteInv' /\ OpenInv'
  BY <1>2, <1>6, TransfersStay DEF Inside
<1>8. Shapes'
  BY <1>2, <1>3, ShapesStay DEF Inside, Shapes
<1>9. ff_token \in 0 .. Tokens - 1
  BY DEF Inside, ListsInv
<1>10. CASE op = "FINDFIRST"
  <2>1. ff_token' = TokenAfter(ff_token) /\ ff_token' \in 0 .. Tokens - 1
    BY <1>1, <1>9, <1>10, TokenMoves DEF NextToken, op
  <2>2. frame' = [op |-> op, token |-> ff_token, tmpl |-> driver.call.tmpl]
    BY <1>1, <1>10 DEF Query, op, Opens
  <2>3. FrameInv'
    BY <1>3, <1>9, <1>10, <2>1, <2>2 DEF FrameInv, Begins
  <2>5. \A t : Entries(t)' = Entries(t)
    BY <1>2 DEF Entries
  <2>4. ListsInv'
    BY <1>2, <1>3, <1>10, <2>1, <2>5 DEF Inside, ListsInv
  <2>6. LiveInv'
    <3> SUFFICES ASSUME NEW s \in Search, ~listed[s].done, ~Beginning(s)
                 PROVE  /\ dta[s].par_clstr \in 0 .. Tokens - 1 /\ dta[s].dir_entry = Len(listed[s].names)
                        /\ host.lists[dta[s].par_clstr] = Entries(listed[s].tmpl)
                        /\ listed[s].younger \in Nat /\ listed[s].younger + 1 < Tokens
                        /\ Since(dta[s].par_clstr, listed[s].younger + 1)'
      BY <1>2, <1>3, <1>10, <2>5 DEF LiveInv, Beginning, Ahead
    <3>1. /\ dta[s].par_clstr \in 0 .. Tokens - 1 /\ dta[s].dir_entry = Len(listed[s].names)
          /\ host.lists[dta[s].par_clstr] = Entries(listed[s].tmpl)
          /\ listed[s].younger \in Nat /\ listed[s].younger + 1 < Tokens
          /\ Since(dta[s].par_clstr, listed[s].younger + 0)
      BY <1>1, <1>3, <1>10 DEF Inside, LiveInv, Ahead
    <3>2. PICK x \in 0 .. Tokens - 1, y \in Nat : x = dta[s].par_clstr /\ y = listed[s].younger
      BY <3>1
    <3>3. y + 1 < Tokens /\ (ff_token = x + 1 + y \/ ff_token = x + 1 + y - Tokens)
      BY <3>1, <3>2 DEF Since
    <3>4. ff_token' = x + 1 + (y + 1) \/ ff_token' = x + 1 + (y + 1) - Tokens
      <4>1. PICK t \in 0 .. Tokens - 1 : t = ff_token
        BY <1>9
      <4>2. t = x + 1 + y \/ t = x + 1 + y - Tokens
        BY <3>3, <4>1
      <4>3. Tokens \in Nat /\ x <= Tokens - 1 /\ y + 1 <= Tokens - 1
        BY <3>2, <3>3, MiSTerFSAssumption
      <4>4. CASE t + 1 = Tokens
        <5>1. ff_token' = 0
          BY <2>1, <4>1, <4>4 DEF TokenAfter
        <5>2. x + 1 + (y + 1) - Tokens = 0
          BY <4>2, <4>3, <4>4
        <5> QED
          BY <5>1, <5>2
      <4>5. CASE t + 1 # Tokens
        <5>1. ff_token' = t + 1
          BY <2>1, <4>1, <4>5 DEF TokenAfter
        <5>2. t + 1 = x + 1 + (y + 1) \/ t + 1 = x + 1 + (y + 1) - Tokens
          BY <4>2, <4>3
        <5> QED
          BY <5>1, <5>2
      <4> QED
        BY <4>4, <4>5
    <3> QED
      BY <1>2, <3>1, <3>2, <3>4 DEF Since
  <2>7. FindInv'
    BY <1>4 DEF FindInv
  <2>8. SearchesExact'
    BY <1>2, <2>5 DEF Inside, SearchesExact
  <2> QED
    BY <1>5, <1>7, <1>8, <2>3, <2>4, <2>6, <2>7, <2>8 DEF Inside
<1>11. CASE op # "FINDFIRST"
  <2>1. ff_token' = ff_token
    BY <1>1, <1>11 DEF NextToken, op
  <2>2. Ahead' = Ahead
    BY <1>3, <1>11 DEF Ahead
  <2>3. ListsInv' /\ LiveInv' /\ FindInv' /\ SearchesExact'
    BY <1>2, <1>6, <2>1, <2>2, SearchesStay DEF Inside
  <2>4. Query(driver.call, driver.done)' = Query(driver.call, driver.done)
    BY <1>2, <1>3, <2>1 DEF Query, ReadOffset
  <2>5. FrameInv'
    BY <1>1, <1>3, <1>11, <2>4 DEF FrameInv
  <2> QED
    BY <1>5, <1>7, <1>8, <2>3, <2>5 DEF Inside
<1> QED
  BY <1>10, <1>11

-----------------------------------------------------------------------------
(* What the host may answer. *)

LEMMA ReadOutcome ==
    ASSUME NEW q, q.op = "READFIL", NEW o \in Outcomes(q)
    PROVE  LET n == Least(q.len, Beyond(host.file, q.at))
           IN  /\ o.file = host.file /\ o.lists = host.lists
               /\ o.answer \in Failures \cup {[len |-> n, ax |-> 0, data |-> Bytes(host.file, q.at, n)]}
  BY DEF Outcomes, Opens

LEMMA WriteOutcome ==
    ASSUME NEW q, q.op = "WRITEFIL", NEW o \in Outcomes(q)
    PROVE  LET n == Least(Len(q.data), Room(q.at))
           IN  /\ o.lists = host.lists
               /\ \/ o.answer \in Failures /\ o.file = host.file
                  \/ /\ o.answer = [len |-> 2, ax |-> 0, n |-> n]
                     /\ o.file = Overwritten(host.file, q.at, SubSeq(q.data, 1, n))
  BY DEF Outcomes, Opens

LEMMA OpenOutcome ==
    ASSUME NEW q, q.op \in Opens, NEW o \in Outcomes(q)
    PROVE  /\ o.lists = host.lists /\ o.file \in {host.file, <<>>}
           /\ o.answer \in Failures \cup {[len |-> 25, ax |-> 0, size |-> Len(o.file), mode |-> q.mode]}
<1>1. q.op # "READFIL" /\ q.op # "WRITEFIL"
  BY DEF Opens
<1>2. Outcomes(q) = {[answer |-> [len |-> 25, ax |-> 0, size |-> Len(f), mode |-> q.mode],
                      lists |-> host.lists, file |-> f] :
                         f \in {host.file} \cup (IF q.op = "OPEN" THEN {} ELSE {<<>>})}
                    \cup {[answer |-> a, file |-> host.file, lists |-> host.lists] : a \in Failures}
  BY <1>1 DEF Outcomes, Opens
<1> QED
  BY <1>2

LEMMA FirstOutcome ==
    ASSUME NEW q, q.op = "FINDFIRST", NEW o \in Outcomes(q)
    PROVE  /\ o.file = host.file
           /\ \/ /\ o.lists = [host.lists EXCEPT ![q.token] = Entries(q.tmpl)]
                 /\ o.answer = Found(q, Entries(q.tmpl), 1)
              \/ o.lists = host.lists /\ o.answer \in Failures
<1>1. Outcomes(q) = {[answer |-> Found(q, Entries(q.tmpl), 1), file |-> host.file,
                      lists |-> [host.lists EXCEPT ![q.token] = Entries(q.tmpl)]]}
                    \cup {[answer |-> a, file |-> host.file, lists |-> host.lists] : a \in Failures}
  BY DEF Outcomes, Opens
<1> QED
  BY <1>1

LEMMA NextOutcome ==
    ASSUME NEW q, q.op = "FINDNEXT", NEW o \in Outcomes(q)
    PROVE  /\ o.file = host.file /\ o.lists = host.lists
           /\ o.answer = Found(q, host.lists[q.token], q.entry + 1) \/ o.answer \in Failures
<1>1. Outcomes(q) = {[answer |-> a, file |-> host.file, lists |-> host.lists] :
                         a \in {Found(q, host.lists[q.token], q.entry + 1)} \cup Failures}
  BY DEF Outcomes, Opens
<1> QED
  BY <1>1

LEMMA OtherOutcome ==
    ASSUME NEW q, q.op \notin {"READFIL", "WRITEFIL", "FINDFIRST", "FINDNEXT"} \cup Opens, NEW o \in Outcomes(q)
    PROVE  o.file = host.file /\ o.lists = host.lists
  BY DEF Outcomes, Opens

LEMMA WorksIs ==
    ASSUME Inside, HostWorks
    PROVE  /\ driver.pc = 4 /\ Asking /\ ~Answered /\ Answered' /\ ~Asking' /\ Calling /\ Calling' /\ op' = op
           /\ UNCHANGED <<task, flag, reply, driver, sft, dta, buffer, ff_token, before, listed>>
           /\ \E o \in Outcomes(frame) : frame' = o.answer /\ host'.file = o.file /\ host'.lists = o.lists
           /\ HandInv' /\ host' = [f \in HostFields |-> host'[f]]
<1>1. host.pc = "work"
  BY DEF HostWorks
<1>2. PICK o \in Outcomes(frame) :
         frame' = o.answer /\ host' = [host EXCEPT !.pc = "mark", !.file = o.file, !.lists = o.lists]
  BY DEF HostWorks
<1>3. host = [f \in HostFields |-> host[f]]
  BY DEF Inside, Shapes
<1>4. /\ host' = [f \in HostFields |-> host'[f]] /\ host'.pc = "mark" /\ host'.seen = host.seen
      /\ host'.file = o.file /\ host'.lists = o.lists
  BY <1>2, <1>3 DEF HostFields
<1>5. UNCHANGED <<task, flag, reply, driver, sft, dta, buffer, ff_token, before, listed>>
  BY DEF HostWorks, dos
<1>6. driver.pc = 4 /\ host.seen = flag /\ reply = Special /\ flag \in 0 .. Marks /\ flag # Enable
  BY <1>1 DEF Inside, HandInv, Answered
<1>7. Asking /\ ~Answered
  BY <1>1, <1>6 DEF Asking, Answered
<1>8. driver'.pc = 4 /\ Answered' /\ ~Asking' /\ Calling /\ Calling' /\ op' = op
  BY <1>4, <1>5, <1>6 DEF Asking, Answered, Calling, op
<1>9. HandInv'
  BY <1>4, <1>5, <1>6, <1>8 DEF HandInv
<1> QED
  BY <1>2, <1>4, <1>5, <1>6, <1>7, <1>8, <1>9

\* An answer that is neither for a transfer nor for an open: the file stays.
LEMMA FilesKept ==
    ASSUME Inside, HostWorks, op \notin {"READFIL", "WRITEFIL"} \cup Opens, host'.file = host.file
    PROVE  Shapes' /\ FrameInv' /\ FileInv' /\ ReadInv' /\ WriteInv' /\ OpenInv'
<1>1. /\ ~Asking' /\ Calling /\ Calling' /\ op' = op /\ host' = [f \in HostFields |-> host'[f]]
      /\ driver' = driver /\ sft' = sft /\ task' = task
  BY WorksIs
<1>2. FrameInv' /\ ReadInv' /\ WriteInv' /\ OpenInv'
  BY <1>1 DEF FrameInv, ReadInv, WriteInv, OpenInv
<1>3. FileInv'
  BY <1>1 DEF Inside, FileInv
<1>4. Shapes'
  BY <1>1, ShapesStay DEF Inside, Shapes
<1> QED
  BY <1>2, <1>3, <1>4

\* An answer that is for no search: the lists stay.
LEMMA ListsKept ==
    ASSUME Inside, HostWorks, op \notin Finds, host'.lists = host.lists
    PROVE  ListsInv' /\ LiveInv' /\ FindInv' /\ SearchesExact'
<1>1. /\ Calling /\ Calling' /\ op' = op /\ driver' = driver
      /\ task' = task /\ dta' = dta /\ ff_token' = ff_token /\ listed' = listed
  BY WorksIs
<1>2. \A t : Entries(t)' = Entries(t)
  BY <1>1 DEF Entries
<1>3. ListsInv'
  BY <1>1, <1>2 DEF Inside, ListsInv
<1>4. \A s : Beginning(s)' <=> Beginning(s)
  BY <1>1 DEF Beginning
<1>5. Ahead' = Ahead
  BY <1>1 DEF Ahead
<1>6. LiveInv'
  BY <1>1, <1>2, <1>4, <1>5 DEF Inside, LiveInv, Since
<1>7. FindInv'
  BY <1>1 DEF FindInv
<1>8. SearchesExact'
  BY <1>1, <1>2 DEF Inside, SearchesExact
<1> QED
  BY <1>3, <1>6, <1>7, <1>8

-----------------------------------------------------------------------------
(* The host answers. *)

LEMMA WorksRead == ASSUME Inside, HostWorks, op = "READFIL" PROVE Inside'
<1>1. /\ Asking /\ ~Answered /\ Answered' /\ ~Asking' /\ Calling /\ Calling' /\ op' = op
      /\ UNCHANGED <<task, flag, reply, driver, sft, dta, buffer, ff_token, before, listed>>
      /\ HandInv' /\ host' = [f \in HostFields |-> host'[f]]
  BY WorksIs
<1>2. PICK o \in Outcomes(frame) : frame' = o.answer /\ host'.file = o.file /\ host'.lists = o.lists
  BY WorksIs
<1>3. frame = [op |-> "READFIL", at |-> sft.pos + driver.done, len |-> ChunkLength(driver.call, driver.done)]
  <2>1. frame = Query(driver.call, driver.done) /\ driver.call.op = "READFIL"
    BY <1>1 DEF Inside, FrameInv, op
  <2> QED
    BY <2>1 DEF Query, ReadOffset, Opens
<1>4. LET n == Least(ChunkLength(driver.call, driver.done), Beyond(host.file, sft.pos + driver.done))
      IN  /\ o.file = host.file /\ o.lists = host.lists
          /\ o.answer \in Failures \cup {[len |-> n, ax |-> 0, data |-> Bytes(host.file, sft.pos + driver.done, n)]}
  BY <1>3, ReadOutcome
<1>5. host'.file = host.file /\ host'.lists = host.lists
  BY <1>2, <1>4
<1>6. ListsInv' /\ LiveInv' /\ FindInv' /\ SearchesExact'
  BY <1>5, ListsKept DEF Finds
<1>7. ReadInv'
  <2>1. /\ before.file = host.file /\ before.pos = sft.pos /\ before.cx = driver.call.cx /\ driver.cx = driver.call.cx
        /\ driver.done \in 0 .. driver.call.cx - 1 /\ driver.done <= Beyond(before.file, before.pos)
        /\ buffer = Bytes(before.file, before.pos, driver.done)
    BY <1>1 DEF Inside, ReadInv
  <2> QED
    BY <1>1, <1>2, <1>4, <1>5, <2>1 DEF ReadInv
<1>8. FileInv'
  BY <1>1, <1>5 DEF Inside, FileInv
<1>9. FrameInv' /\ WriteInv' /\ OpenInv'
  BY <1>1 DEF FrameInv, WriteInv, OpenInv, Opens
<1>10. Shapes'
  BY <1>1, <1>5, ShapesStay DEF Inside, Shapes
<1> QED
  BY <1>1, <1>6, <1>7, <1>8, <1>9, <1>10 DEF Inside

LEMMA CallIs ==
    ASSUME Shapes, Calling
    PROVE  /\ driver.call \in task.calls /\ task \in Tasks /\ ~AsksNothing(driver.call) /\ op \in supportedfunctions
           /\ op = "READFIL" => driver.call.cx \in Nat \ {0}
           /\ op = "WRITEFIL" => /\ driver.call.data \in Seq(Nat) /\ driver.call.cx = Len(driver.call.data)
                                 /\ driver.call.cx \in Nat \ {0}
           /\ op \in Finds => driver.call.search \in Search
<1>1. driver.call \in task.calls /\ task \in Tasks /\ ~AsksNothing(driver.call) /\ op \in supportedfunctions
  BY DEF Shapes
<1>2. /\ op = "READFIL" => driver.call.cx \in Nat
      /\ op = "WRITEFIL" => driver.call.data \in Seq(Nat) /\ driver.call.cx = Len(driver.call.data)
      /\ op \in Finds => driver.call.search \in Search
  BY <1>1, TaskAssumption DEF op, Finds, Search
<1>3. op \in {"READFIL", "WRITEFIL"} => driver.call.cx # 0
  BY <1>1 DEF AsksNothing, op
<1>4. op = "WRITEFIL" => Len(driver.call.data) \in Nat
  BY <1>2, LenProperties
<1> QED
  BY <1>1, <1>2, <1>3, <1>4

LEMMA WrittenIs ==
    ASSUME NEW f \in Seq(Nat), NEW at \in Nat, NEW d \in Seq(Nat), NEW k \in 0 .. Len(d)
    PROVE  /\ Overwritten(f, at, SubSeq(d, 1, k)) \in Seq(Nat)
           /\ Len(Overwritten(f, at, SubSeq(d, 1, k))) = LongEnough(f, at, k)
<1>1. Len(d) \in Nat /\ k \in Nat /\ k <= Len(d)
  BY LenProperties
<1> DEFINE s == SubSeq(d, 1, k)
<1>2. s \in Seq(Nat) /\ Len(s) = k
  BY <1>1, FirstIs
<1> HIDE DEF s
<1>3. Overwritten(f, at, s) \in Seq(Nat) /\ Len(Overwritten(f, at, s)) = LongEnough(f, at, Len(s))
  BY <1>2, OverwrittenIs
<1> QED
  BY <1>2, <1>3 DEF s

LEMMA WorksWrite == ASSUME Inside, HostWorks, op = "WRITEFIL" PROVE Inside'
<1>1. /\ Asking /\ ~Answered /\ Answered' /\ ~Asking' /\ Calling /\ Calling' /\ op' = op
      /\ UNCHANGED <<task, flag, reply, driver, sft, dta, buffer, ff_token, before, listed>>
      /\ HandInv' /\ host' = [f \in HostFields |-> host'[f]]
  BY WorksIs
<1>2. PICK o \in Outcomes(frame) : frame' = o.answer /\ host'.file = o.file /\ host'.lists = o.lists
  BY WorksIs
<1> DEFINE c == driver.call
           dn == driver.done
           part == SubSeq(c.data, dn + 1, dn + ChunkLength(c, dn))
           n == Least(ChunkLength(c, dn), Room(sft.pos))
<1>3. frame = [op |-> "WRITEFIL", at |-> sft.pos, data |-> part]
  <2>1. frame = Query(driver.call, driver.done) /\ driver.call.op = "WRITEFIL"
    BY <1>1 DEF Inside, FrameInv, op
  <2> QED
    BY <2>1 DEF Query, Opens
<1>4. /\ c.data \in Seq(Nat) /\ c.cx = Len(c.data) /\ c.cx \in Nat \ {0}
  BY <1>1, CallIs DEF Inside
<1>5. /\ sft.count > 0 /\ before.file \in Seq(Nat) /\ before.pos \in Nat
      /\ dn \in 0 .. c.cx - 1 /\ sft.pos = before.pos + dn
      /\ sft.size = Len(Written(dn)) /\ host.file = Written(dn)
  BY <1>1 DEF Inside, WriteInv
<1>6. PICK m \in Nat : m = ChunkLength(c, dn) /\ m \in 0 .. Len(c.data) - dn
  BY <1>4, <1>5, MiSTerFSAssumption, SMTT(30) DEF ChunkLength, Least
<1>7. part \in Seq(Nat) /\ Len(part) = m
  <2>1. dn \in Nat /\ dn + m <= Len(c.data)
    BY <1>4, <1>5, <1>6
  <2> HIDE DEF c, dn
  <2> QED
    BY <1>4, <1>6, <2>1, PartIs DEF part
<1>8. n \in 0 .. m
  BY <1>5, <1>6, MiSTerFSAssumption DEF Least, Room
<1>9. /\ o.lists = host.lists
      /\ \/ o.answer \in Failures /\ o.file = host.file
         \/ /\ o.answer = [len |-> 2, ax |-> 0, n |-> n]
            /\ o.file = Overwritten(host.file, sft.pos, SubSeq(part, 1, n))
  <2> HIDE DEF part
  <2>1. frame.op = "WRITEFIL" /\ frame.at = sft.pos /\ frame.data = part
    BY <1>3
  <2>2. Least(Len(frame.data), Room(frame.at)) = n
    BY <1>6, <1>7, <2>1
  <2> QED
    BY <2>1, <2>2, WriteOutcome
<1>10. Overwritten(host.file, sft.pos, SubSeq(part, 1, n)) = Written(dn + n)
  <2>1. dn \in 0 .. Len(c.data)
    BY <1>4, <1>5
  <2>2. PICK f \in Seq(Nat), at \in Nat, d \in Seq(Nat) : f = before.file /\ at = before.pos /\ d = c.data
    BY <1>4, <1>5
  <2>3. PICK k \in 0 .. Len(d) : k = dn
    BY <2>1, <2>2
  <2>4. PICK l \in 0 .. m : l = n
    BY <1>8
  <2>5. m \in 0 .. Len(d) - k
    BY <1>6, <2>2, <2>3
  <2>6. Overwritten(Overwritten(f, at, SubSeq(d, 1, k)), at + k, SubSeq(SubSeq(d, k + 1, k + m), 1, l))
           = Overwritten(f, at, SubSeq(d, 1, k + l))
    BY <2>5, OverwrittenTwice
  <2>7. Written(dn) = Overwritten(f, at, SubSeq(d, 1, k)) /\ Written(dn + n) = Overwritten(f, at, SubSeq(d, 1, k + l))
    BY <2>2, <2>3, <2>4 DEF Written
  <2>8. part = SubSeq(d, k + 1, k + m) /\ sft.pos = at + k
    BY <1>5, <1>6, <2>2, <2>3 DEF part
  <2> HIDE DEF n, dn, part
  <2> QED
    BY <1>5, <2>4, <2>6, <2>7, <2>8
<1> HIDE DEF part
<1>11. WriteInv'
  <2>1. /\ driver' = driver /\ sft' = sft /\ before' = before /\ Answered' /\ Calling' /\ op' = op
    BY <1>1
  <2>2. \A x : Written(x)' = Written(x)
    BY <2>1 DEF Written
  <2>3. \/ frame' \in Failures /\ host'.file = Written(dn)
        \/ frame' = [len |-> 2, ax |-> 0, n |-> n] /\ host'.file = Written(dn + n)
    BY <1>2, <1>5, <1>9, <1>10
  <2> QED
    BY <1>5, <2>1, <2>2, <2>3 DEF WriteInv
<1>12. FileInv'
  BY <1>1 DEF Inside, FileInv
<1>13. FrameInv' /\ ReadInv' /\ OpenInv'
  BY <1>1 DEF FrameInv, ReadInv, OpenInv, Opens
<1>14. host'.file \in Seq(Nat)
  <2>1. \A x \in 0 .. Len(c.data) : Written(x) \in Seq(Nat)
    BY <1>4, <1>5, WrittenIs DEF Written
  <2>2. dn \in 0 .. Len(c.data) /\ dn + n \in 0 .. Len(c.data)
    BY <1>4, <1>5, <1>6, <1>8, SMTT(30)
  <2> QED
    BY <1>2, <1>5, <1>9, <1>10, <2>1, <2>2
<1>15. Shapes'
  BY <1>1, <1>14 DEF Inside, Shapes
<1>16. ListsInv' /\ LiveInv' /\ FindInv' /\ SearchesExact'
  BY <1>2, <1>9, ListsKept DEF Finds
<1> QED
  BY <1>1, <1>11, <1>12, <1>13, <1>15, <1>16 DEF Inside

LEMMA WorksOpen == ASSUME Inside, HostWorks, op \in Opens PROVE Inside'
<1>1. /\ Asking /\ ~Answered /\ Answered' /\ ~Asking' /\ Calling /\ Calling' /\ op' = op
      /\ UNCHANGED <<task, flag, reply, driver, sft, dta, buffer, ff_token, before, listed>>
      /\ HandInv' /\ host' = [f \in HostFields |-> host'[f]]
  BY WorksIs
<1>2. PICK o \in Outcomes(frame) : frame' = o.answer /\ host'.file = o.file /\ host'.lists = o.lists
  BY WorksIs
<1>3. frame = [op |-> op, mode |-> driver.call.mode]
  BY <1>1 DEF Inside, FrameInv, Query, op, Opens
<1>4. /\ o.lists = host.lists /\ o.file \in {host.file, <<>>}
      /\ o.answer \in Failures \cup {[len |-> 25, ax |-> 0, size |-> Len(o.file), mode |-> driver.call.mode]}
  BY <1>3, OpenOutcome
<1>5. ListsInv' /\ LiveInv' /\ FindInv' /\ SearchesExact'
  BY <1>2, <1>4, ListsKept DEF Finds, Opens
<1>6. sft.count = 0
  BY <1>1 DEF Inside, OpenInv
<1>7. OpenInv'
  BY <1>1, <1>2, <1>4, <1>6 DEF OpenInv
<1>8. FileInv'
  BY <1>1, <1>6 DEF FileInv
<1>9. FrameInv' /\ ReadInv' /\ WriteInv'
  BY <1>1 DEF FrameInv, ReadInv, WriteInv, Opens
<1>10. host'.file \in Seq(Nat)
  <2>1. <<>> \in Seq(Nat)
    OBVIOUS
  <2> QED
    BY <1>2, <1>4, <2>1 DEF Inside, Shapes
<1>11. Shapes'
  BY <1>1, <1>10 DEF Inside, Shapes
<1> QED
  BY <1>1, <1>5, <1>7, <1>8, <1>9, <1>11 DEF Inside

LEMMA WorksOther == ASSUME Inside, HostWorks, op \notin {"READFIL", "WRITEFIL"} \cup Opens \cup Finds PROVE Inside'
<1>1. /\ Asking /\ HandInv' /\ Calling
  BY WorksIs
<1>2. PICK o \in Outcomes(frame) : frame' = o.answer /\ host'.file = o.file /\ host'.lists = o.lists
  BY WorksIs
<1>3. frame = Query(driver.call, driver.done)
  BY <1>1 DEF Inside, FrameInv, Finds
<1>4. frame.op \notin {"READFIL", "WRITEFIL", "FINDFIRST", "FINDNEXT"} \cup Opens
  <2>1. frame \in {[op |-> op], [op |-> "DISKSPACE"]}
    BY <1>3 DEF Query, op, Opens, Finds
  <2> QED
    BY <2>1 DEF Opens, Finds
<1>5. host'.file = host.file /\ host'.lists = host.lists
  BY <1>2, <1>4, OtherOutcome
<1>6. Shapes' /\ FrameInv' /\ FileInv' /\ ReadInv' /\ WriteInv' /\ OpenInv'
  BY <1>5, FilesKept
<1>7. ListsInv' /\ LiveInv' /\ FindInv' /\ SearchesExact'
  BY <1>5, ListsKept
<1> QED
  BY <1>1, <1>6, <1>7 DEF Inside

\* Tokens given apart are not the same.
LEMMA TokensApart ==
    ASSUME NEW t \in 0 .. Tokens - 1, NEW x \in 0 .. Tokens - 1, NEW y \in Nat, y + 1 < Tokens,
           Begins(t), Since(x, y + 1)
    PROVE  x # t
<1>1. Tokens \in Nat /\ Tokens > 1
  BY MiSTerFSAssumption
<1>2. PICK u : u = ff_token
  OBVIOUS
<1>3. u = IF t + 1 = Tokens THEN 0 ELSE t + 1
  BY <1>2 DEF Begins, TokenAfter
<1>4. u = x + 1 + (y + 1) \/ u = x + 1 + (y + 1) - Tokens
  BY <1>2 DEF Since
<1>5. CASE t + 1 = Tokens
  BY <1>1, <1>3, <1>4, <1>5
<1>6. CASE t + 1 # Tokens
  BY <1>1, <1>3, <1>4, <1>6
<1> QED
  BY <1>5, <1>6

LEMMA EntriesSeq == ASSUME task \in Tasks, NEW t PROVE Entries(t) \in Seq(STRING)
<1>1. <<>> \in Seq(STRING)
  OBVIOUS
<1> QED
  BY <1>1, TaskAssumption DEF Entries

\* A search the host could not carry out leaves all as it was.
LEMMA WorksFails ==
    ASSUME Inside, HostWorks, op \in Finds, frame' \in Failures, host'.file = host.file, host'.lists = host.lists
    PROVE  Inside'
<1>1. /\ driver.pc = 4 /\ Asking /\ ~Answered /\ Answered' /\ ~Asking' /\ Calling /\ Calling' /\ op' = op
      /\ UNCHANGED <<task, flag, reply, driver, sft, dta, buffer, ff_token, before, listed>>
      /\ HandInv'
  BY WorksIs
<1>2. op \notin {"READFIL", "WRITEFIL"} \cup Opens
  BY DEF Finds, Opens
<1>3. Shapes' /\ FrameInv' /\ FileInv' /\ ReadInv' /\ WriteInv' /\ OpenInv'
  BY <1>2, FilesKept
<1>4. \A x : Entries(x)' = Entries(x)
  BY <1>1 DEF Entries
<1>5. ListsInv'
  BY <1>1, <1>4 DEF Inside, ListsInv
<1>6. FindInv'
  BY DEF FindInv, Failures
<1>7. LiveInv'
  <2>1. (\A s : Beginning(s)' <=> Beginning(s)) /\ Ahead' = Ahead
    BY <1>1 DEF Beginning, Ahead
  <2> QED
    BY <1>1, <1>4, <2>1 DEF Inside, LiveInv, Since
<1>8. SearchesExact'
  BY <1>1, <1>4 DEF Inside, SearchesExact
<1> QED
  BY <1>1, <1>3, <1>5, <1>6, <1>7, <1>8 DEF Inside

LEMMA WorksFirst == ASSUME Inside, HostWorks, op = "FINDFIRST" PROVE Inside'
<1>1. /\ driver.pc = 4 /\ Asking /\ ~Answered /\ Answered' /\ ~Asking' /\ Calling /\ Calling' /\ op' = op
      /\ UNCHANGED <<task, flag, reply, driver, sft, dta, buffer, ff_token, before, listed>>
      /\ HandInv'
  BY WorksIs
<1>2. PICK o \in Outcomes(frame) : frame' = o.answer /\ host'.file = o.file /\ host'.lists = o.lists
  BY WorksIs
<1>3. PICK t \in 0 .. Tokens - 1 :
         Begins(t) /\ frame = [op |-> "FINDFIRST", token |-> t, tmpl |-> driver.call.tmpl]
  BY <1>1 DEF Inside, FrameInv
<1> DEFINE all == Entries(driver.call.tmpl)
<1>f. /\ o.file = host.file
      /\ \/ o.lists = [host.lists EXCEPT ![t] = all] /\ o.answer = Found(frame, all, 1)
         \/ o.lists = host.lists /\ o.answer \in Failures
  <2>1. frame.op = "FINDFIRST" /\ frame.token = t /\ frame.tmpl = driver.call.tmpl
    BY <1>3
  <2> QED
    BY <2>1, FirstOutcome
<1> SUFFICES ASSUME o.lists = [host.lists EXCEPT ![t] = all], o.answer = Found(frame, all, 1)
             PROVE  Inside'
  BY <1>2, <1>f, WorksFails DEF Finds
<1>4. /\ o.file = host.file /\ o.lists = [host.lists EXCEPT ![t] = all]
      /\ o.answer = Found(frame, all, 1)
  BY <1>f
<1>5. Shapes' /\ FrameInv' /\ FileInv' /\ ReadInv' /\ WriteInv' /\ OpenInv'
  BY <1>2, <1>4, FilesKept DEF Opens
<1>6. all \in Seq(STRING)
  BY EntriesSeq DEF Inside, Shapes
<1>7. \A x : Entries(x)' = Entries(x)
  BY <1>1 DEF Entries
<1> HIDE DEF all
<1>8. host'.lists = [host.lists EXCEPT ![t] = all] /\ host.lists \in [0 .. Tokens - 1 -> Seq(STRING)]
  BY <1>2, <1>4 DEF Inside, ListsInv
<1>9. ListsInv'
  <2>1. host'.lists \in [0 .. Tokens - 1 -> Seq(STRING)]
    BY <1>6, <1>8
  <2> QED
    BY <1>1, <1>7, <2>1 DEF Inside, ListsInv
<1>10. FindInv'
  <2>1. host'.lists[t] = all /\ Begins(t)'
    BY <1>1, <1>3, <1>8 DEF Begins
  <2>2. frame' = Found([token |-> t], all, 1)
    BY <1>2, <1>3, <1>4 DEF Found
  <2>3. all = Entries(driver.call.tmpl)' /\ driver'.call = driver.call
    BY <1>1, <1>7 DEF all
  <2> QED
    BY <1>1, <2>1, <2>2, <2>3 DEF FindInv
<1>11. LiveInv'
  <2> SUFFICES ASSUME NEW s \in Search, ~listed[s].done, ~Beginning(s)
               PROVE  /\ dta[s].par_clstr \in 0 .. Tokens - 1 /\ dta[s].dir_entry = Len(listed[s].names)
                      /\ host'.lists[dta[s].par_clstr] = Entries(listed[s].tmpl)
                      /\ listed[s].younger \in Nat /\ listed[s].younger + 1 < Tokens
                      /\ Since(dta[s].par_clstr, listed[s].younger + 1)
    BY <1>1, <1>7 DEF LiveInv, Beginning, Ahead, Since
  <2>1. /\ dta[s].par_clstr \in 0 .. Tokens - 1 /\ dta[s].dir_entry = Len(listed[s].names)
        /\ host.lists[dta[s].par_clstr] = Entries(listed[s].tmpl)
        /\ listed[s].younger \in Nat /\ listed[s].younger + 1 < Tokens
        /\ Since(dta[s].par_clstr, listed[s].younger + 1)
    BY <1>1 DEF Inside, LiveInv, Ahead
  <2>2. dta[s].par_clstr # t
    BY <1>3, <2>1, TokensApart
  <2> QED
    BY <1>8, <2>1, <2>2
<1>12. SearchesExact'
  BY <1>1, <1>7 DEF Inside, SearchesExact
<1> QED
  BY <1>1, <1>5, <1>9, <1>10, <1>11, <1>12 DEF Inside

LEMMA WorksNext == ASSUME Inside, HostWorks, op = "FINDNEXT" PROVE Inside'
<1>1. /\ driver.pc = 4 /\ Asking /\ ~Answered /\ Answered' /\ ~Asking' /\ Calling /\ Calling' /\ op' = op
      /\ UNCHANGED <<task, flag, reply, driver, sft, dta, buffer, ff_token, before, listed>>
      /\ HandInv'
  BY WorksIs
<1>2. PICK o \in Outcomes(frame) : frame' = o.answer /\ host'.file = o.file /\ host'.lists = o.lists
  BY WorksIs
<1> DEFINE d == dta[driver.call.search]
<1>3. frame = [op |-> "FINDNEXT", token |-> d.par_clstr, entry |-> d.dir_entry]
  <2>1. frame = Query(driver.call, driver.done) /\ driver.call.op = "FINDNEXT"
    BY <1>1 DEF Inside, FrameInv, op
  <2> QED
    BY <2>1 DEF Query, Opens
<1>f. /\ o.file = host.file /\ o.lists = host.lists
      /\ o.answer = Found(frame, host.lists[d.par_clstr], d.dir_entry + 1) \/ o.answer \in Failures
  <2>1. frame.op = "FINDNEXT" /\ frame.token = d.par_clstr /\ frame.entry = d.dir_entry
    BY <1>3
  <2> QED
    BY <2>1, NextOutcome
<1> SUFFICES ASSUME o.answer = Found(frame, host.lists[d.par_clstr], d.dir_entry + 1)
             PROVE  Inside'
  BY <1>2, <1>f, WorksFails DEF Finds
<1>4. /\ o.file = host.file /\ o.lists = host.lists
      /\ o.answer = Found(frame, host.lists[d.par_clstr], d.dir_entry + 1)
  BY <1>f
<1>5. Shapes' /\ FrameInv' /\ FileInv' /\ ReadInv' /\ WriteInv' /\ OpenInv'
  BY <1>2, <1>4, FilesKept DEF Opens
<1>6. host'.lists = host.lists
  BY <1>2, <1>4
<1>7. \A x : Entries(x)' = Entries(x)
  BY <1>1 DEF Entries
<1>8. ListsInv'
  BY <1>1, <1>6, <1>7 DEF Inside, ListsInv
<1>9. FindInv'
  <2>1. frame' = Found([token |-> d.par_clstr], host.lists[d.par_clstr], d.dir_entry + 1)
    BY <1>2, <1>3, <1>4 DEF Found
  <2> QED
    BY <1>1, <1>6, <2>1 DEF FindInv
<1>10. LiveInv'
  <2>1. (\A s : Beginning(s)' <=> Beginning(s)) /\ Ahead' = Ahead
    BY <1>1 DEF Beginning, Ahead
  <2> QED
    BY <1>1, <1>6, <1>7, <2>1 DEF Inside, LiveInv, Since
<1>11. SearchesExact'
  BY <1>1, <1>7 DEF Inside, SearchesExact
<1> QED
  BY <1>1, <1>5, <1>8, <1>9, <1>10, <1>11 DEF Inside

LEMMA WorksStep == ASSUME Inside, HostWorks PROVE Inside'
<1>1. CASE op \in {"READFIL", "WRITEFIL"} \cup Opens
  BY <1>1, WorksRead, WorksWrite, WorksOpen
<1>2. CASE op \in Finds
  BY <1>2, WorksFirst, WorksNext DEF Finds
<1> QED
  BY <1>1, <1>2, WorksOther

-----------------------------------------------------------------------------
(* The answer is taken. *)

\* Between calls, and before a query is filled in, nothing is known of a frame.
LEMMA NotAsking == ASSUME driver'.pc \in 0 .. 1 PROVE ~Asking' /\ ~Answered' /\ FrameInv' /\ FindInv'
  BY DEF Asking, Answered, FrameInv, FindInv

LEMMA AtRest == ASSUME driver'.pc = 0 PROVE FrameInv' /\ ReadInv' /\ WriteInv' /\ OpenInv' /\ FindInv'
  BY DEF Asking, Answered, Calling, FrameInv, ReadInv, WriteInv, OpenInv, FindInv

\* No search is under way, before and after.
LEMMA ListsRest ==
    ASSUME ListsInv, LiveInv, SearchesExact, UNCHANGED <<task, dta, listed, ff_token>>, host'.lists = host.lists,
           ~(Calling /\ op \in Finds), ~(Calling' /\ op' \in Finds)
    PROVE  ListsInv' /\ LiveInv' /\ SearchesExact'
<1>1. /\ task' = task /\ dta' = dta /\ listed' = listed /\ ff_token' = ff_token
      /\ ~(Calling /\ op = "FINDFIRST") /\ ~(Calling' /\ op' = "FINDFIRST") /\ ~(Calling' /\ op' = "FINDNEXT")
  BY DEF Finds
<1>2. \A t : Entries(t)' = Entries(t)
  BY <1>1 DEF Entries
<1>3. ListsInv'
  BY <1>1, <1>2 DEF ListsInv
<1>4. Ahead = 0 /\ Ahead' = 0
  BY <1>1 DEF Ahead, Calling
<1>5. \A s : ~Beginning(s) /\ ~Beginning(s)'
  BY <1>1 DEF Beginning
<1>6. LiveInv'
  BY <1>1, <1>2, <1>4, <1>5 DEF LiveInv, Since
<1>7. SearchesExact'
  BY <1>1, <1>2 DEF SearchesExact
<1> QED
  BY <1>3, <1>6, <1>7

LEMMA TakeIs ==
    ASSUME Inside, TakeAnswer
    PROVE  /\ driver.pc = 4 /\ Calling /\ Answered /\ host.pc = "watch" /\ host.seen = flag
           /\ UNCHANGED <<task, flag, reply, frame, ff_token, host, before>>
           /\ driver'.pc \in 0 .. 1 => HandInv'
<1>1. driver.pc = 4 /\ reply = flag
  BY AtIs DEF TakeAnswer
<1>2. UNCHANGED <<task, flag, reply, frame, ff_token, host, before>>
  BY DEF TakeAnswer, window
<1>3. flag \in 0 .. Marks /\ flag # Special
  BY MiSTerFSAssumption DEF Inside, HandInv, Special
<1>4. Answered /\ host.pc = "watch" /\ host.seen = flag
  BY <1>1, <1>3 DEF Inside, HandInv, Answered
<1>5. driver'.pc \in 0 .. 1 => HandInv'
  BY <1>2, <1>3, <1>4 DEF HandInv, Answered
<1> QED
  BY <1>1, <1>2, <1>4, <1>5 DEF Calling

\* A call that ends.
LEMMA TakeEnds ==
    ASSUME Shapes, NEW c, NEW a, Take(c, a)
    PROVE  /\ driver'.pc = 0 /\ driver'.cf = Result(c, a).cf /\ driver'.call = driver.call /\ op' = op /\ ~Calling'
           /\ driver' = [f \in DriverFields |-> driver'[f]]
<1>1. driver = [f \in DriverFields |-> driver[f]]
  BY DEF Shapes
<1>2. driver' = [driver EXCEPT !.pc = 0, !.ax = Result(c, a).ax, !.cf = Result(c, a).cf]
  BY DEF Take
<1>3. driver'.pc = 0 /\ driver'.cf = Result(c, a).cf /\ driver'.call = driver.call
  BY <1>1, <1>2 DEF DriverFields
<1>4. driver' = [f \in DriverFields |-> driver'[f]]
  BY <1>1, <1>2 DEF DriverFields
<1> QED
  BY <1>3, <1>4 DEF op, Calling

LEMMA ReadTaken ==
    ASSUME Inside, TakeAnswer, op = "READFIL"
    PROVE  Inside' /\ (driver'.pc = 0 => ReadExact)
<1>1. /\ driver.pc = 4 /\ Calling /\ Answered
      /\ UNCHANGED <<task, flag, reply, frame, ff_token, host, before>>
      /\ driver'.pc \in 0 .. 1 => HandInv'
  BY TakeIs
<1>2. TakeRead(driver.call, frame) /\ UNCHANGED <<dta, listed>>
  BY DEF TakeAnswer, op, Opens, Finds
<1> DEFINE c == driver.call
           d == driver.done
           n == Least(ChunkLength(c, d), Beyond(before.file, before.pos + d))
<1>3. /\ before.file = host.file /\ before.pos = sft.pos /\ before.cx = c.cx /\ driver.cx = c.cx
      /\ d \in 0 .. c.cx - 1 /\ d <= Beyond(before.file, before.pos)
      /\ buffer = Bytes(before.file, before.pos, d)
      /\ frame \in Failures \cup {[len |-> n, ax |-> 0, data |-> Bytes(before.file, before.pos + d, n)]}
  BY <1>1 DEF Inside, ReadInv
<1>4. c.cx \in Nat \ {0}
  BY <1>1, CallIs DEF Inside
<1>5. sft.pos \in Nat /\ host.file \in Seq(Nat) /\ Len(host.file) \in Nat
  BY LenProperties DEF Inside, Shapes
<1>6. c.op = "READFIL" /\ Result(c, frame) = ReadResult(frame)
  BY DEF Result, op, Opens, Finds
<1>s. /\ driver = [f \in DriverFields |-> driver[f]] /\ sft = [f \in SftFields |-> sft[f]]
      /\ host = [f \in HostFields |-> host[f]] /\ task \in Tasks /\ c \in task.calls
      /\ ~AsksNothing(c) /\ driver.cf = FALSE /\ op \in supportedfunctions
  BY <1>1 DEF Inside, Shapes
<1>7. CASE Result(c, frame).cf
  <2>1. Take(c, frame) /\ UNCHANGED <<sft, buffer>>
    BY <1>2, <1>7 DEF TakeRead
  <2>2. /\ driver'.pc = 0 /\ op' = op /\ ~Calling' /\ driver'.cf
        /\ driver' = [f \in DriverFields |-> driver'[f]]
    BY <1>7, <2>1, TakeEnds DEF Inside
  <2>3. Shapes'
    BY <1>1, <1>5, <1>s, <2>1, <2>2 DEF Shapes
  <2>4. FileInv'
    BY <1>1, <2>1, <2>2 DEF Inside, FileInv
  <2>5. ListsInv' /\ LiveInv' /\ SearchesExact'
    BY <1>1, <1>2, <2>2, ListsRest DEF Inside, Finds
  <2>6. ReadExact
    BY <1>3, <2>1, <2>2 DEF ReadExact
  <2> QED
    BY <1>1, <2>2, <2>3, <2>4, <2>5, <2>6, AtRest DEF Inside
<1>8. CASE ~Result(c, frame).cf
  <2>1. frame = [len |-> n, ax |-> 0, data |-> Bytes(before.file, before.pos + d, n)]
    <3>1. ASSUME frame \in Failures PROVE FALSE
      <4>1. ReadResult(frame).cf
        BY <3>1 DEF Failures, ReadResult, FAILFLAG
      <4> QED
        BY <1>6, <1>8, <4>1
    <3> QED
      BY <1>3, <3>1
  <2> DEFINE done == d + n
             more == done < c.cx /\ n = ChunkLength(c, d)
  <2>n. n \in Nat
    BY <1>3, <1>4, <1>5, MiSTerFSAssumption, SMTT(30) DEF ChunkLength, Least, Beyond
  <2>l. frame.len = n /\ frame.data = Bytes(before.file, before.pos + d, n)
    BY <2>1
  <2> HIDE DEF n
  <2>2. MoreToDo(c, frame.len, driver.done + frame.len) <=> more
    <3>1. (d + n) - n = d
      BY <1>3, <1>4, <2>n
    <3> QED
      BY <2>l, <3>1 DEF MoreToDo
  <2>3. /\ buffer' = SubSeq(buffer, 1, d) \o Bytes(before.file, before.pos + d, n)
        /\ sft' = IF more THEN sft ELSE [sft EXCEPT !.pos = sft.pos + done]
        /\ driver' = [driver EXCEPT !.done = done, !.pc = IF more THEN 1 ELSE 0,
                                    !.cx = IF more THEN driver.cx ELSE done]
    BY <1>2, <1>8, <2>2, <2>l DEF TakeRead
  <2>4. PICK len \in Nat, pos \in Nat, cx \in Nat, e \in Nat :
           len = Len(before.file) /\ pos = before.pos /\ cx = c.cx /\ e = d /\ e \in 0 .. cx - 1
    BY <1>3, <1>4, <1>5
  <2>5. PICK b \in Nat : b = Beyond(before.file, before.pos) /\ (b = IF pos < len THEN len - pos ELSE 0)
    BY <2>4 DEF Beyond
  <2>6. PICK r \in Nat : r = Beyond(before.file, before.pos + d) /\ (r = IF pos + e < len THEN len - (pos + e) ELSE 0)
    BY <2>4 DEF Beyond
  <2>7. PICK m \in Nat : m = n /\ m = Least(Least(cx - e, CHUNKLEN), r)
    BY <2>4, <2>6, <2>n DEF n, ChunkLength
  <2>8. /\ e + m <= cx /\ e + m <= b
        /\ ~(e + m < cx /\ m = Least(cx - e, CHUNKLEN)) => e + m = Least(cx, b)
    <3>1. e <= b /\ CHUNKLEN \in Nat
      BY <1>3, <2>4, <2>5, MiSTerFSAssumption
    <3>2. r = b - e
      BY <2>4, <2>5, <2>6, <3>1
    <3>3. m = Least(Least(cx - e, CHUNKLEN), r) /\ e \in 0 .. cx - 1
      BY <2>4, <2>7
    <3> QED
      BY <3>1, <3>2, <3>3 DEF Least
  <2>9. done = e + m /\ (more <=> e + m < cx /\ m = Least(cx - e, CHUNKLEN))
    BY <2>4, <2>7 DEF ChunkLength
  <2> HIDE DEF more
  <2>10. driver' = [f \in DriverFields |-> driver'[f]] /\ driver'.done = done /\ driver'.pc = (IF more THEN 1 ELSE 0)
    BY <1>s, <2>3 DEF DriverFields
  <2>11. /\ driver'.cx = (IF more THEN driver.cx ELSE done) /\ driver'.call = c /\ driver'.cf = FALSE
    BY <1>s, <2>3 DEF DriverFields
  <2>12. op' = op /\ driver'.pc \in 0 .. 1 /\ (Calling' <=> more)
    BY <2>10, <2>11 DEF op, Calling
  <2>13. ~Answered' /\ FrameInv' /\ FindInv' /\ HandInv'
    BY <1>1, <2>12, NotAsking
  <2>14. buffer' = Bytes(before.file, before.pos, done)
    <3>1. PICK f \in Seq(Nat) : f = before.file
      BY <1>3, <1>5
    <3>2. SubSeq(Bytes(f, pos, e), 1, e) = Bytes(f, pos, e)
      BY BytesAll
    <3>3. \A x, y, z \in Nat : Bytes(f, x, y) \o Bytes(f, x + y, z) = Bytes(f, x, y + z)
      BY BytesJoin
    <3>4. Bytes(f, pos, e) \o Bytes(f, pos + e, m) = Bytes(f, pos, e + m)
      BY <3>3
    <3>5. buffer = Bytes(f, pos, e) /\ Bytes(before.file, before.pos + d, n) = Bytes(f, pos + e, m)
      BY <1>3, <2>4, <2>7, <3>1
    <3>6. Bytes(before.file, before.pos, done) = Bytes(f, pos, e + m)
      BY <2>4, <2>9, <3>1
    <3>7. buffer' = SubSeq(buffer, 1, e) \o Bytes(before.file, before.pos + d, n)
      BY <2>3, <2>4
    <3> QED
      BY <3>2, <3>4, <3>5, <3>6, <3>7
  <2>15. /\ sft' = [f \in SftFields |-> sft'[f]] /\ sft'.pos = (IF more THEN sft.pos ELSE sft.pos + done)
         /\ sft'.count = sft.count /\ sft'.size = sft.size
    BY <1>s, <2>3 DEF SftFields
  <2>16. done \in Nat /\ sft'.pos \in Nat
    BY <1>5, <2>9, <2>15, SMTT(30)
  <2>17. Shapes'
    BY <1>1, <1>5, <1>s, <2>10, <2>11, <2>12, <2>15, <2>16 DEF Shapes
  <2>18. FileInv'
    <3> SUFFICES ASSUME sft.count > 0
                 PROVE  sft'.size = Len(host.file) /\ (sft'.pos < MaxSize \/ sft'.pos <= sft'.size)
      BY <1>1, <2>15 DEF FileInv
    <3>1. sft.size = Len(host.file) /\ (sft.pos < MaxSize \/ sft.pos <= sft.size)
      BY DEF Inside, FileInv
    <3>2. sft.pos = pos /\ sft.size = len
      BY <1>3, <2>4, <3>1
    <3>3. CASE e + m = 0
      BY <2>9, <2>15, <3>1, <3>2, <3>3
    <3>4. CASE e + m # 0
      <4>1. pos + (e + m) <= len
        BY <2>5, <2>8, <3>4
      <4>2. sft'.pos <= len
        BY <2>9, <2>15, <3>2, <4>1
      <4> QED
        BY <2>15, <3>1, <3>2, <4>2
    <3> QED
      BY <3>3, <3>4
  <2>19. ReadInv'
    <3> SUFFICES ASSUME more
                 PROVE  /\ before.file = host.file /\ before.pos = sft'.pos /\ before.cx = c.cx /\ driver'.cx = c.cx
                        /\ done \in 0 .. c.cx - 1 /\ done <= Beyond(before.file, before.pos)
                        /\ buffer' = Bytes(before.file, before.pos, done)
      BY <1>1, <2>10, <2>11, <2>12, <2>13 DEF ReadInv
    <3>1. e + m < cx
      BY <2>9
    <3>2. done \in 0 .. c.cx - 1 /\ done <= Beyond(before.file, before.pos)
      BY <2>4, <2>5, <2>8, <2>9, <3>1
    <3> QED
      BY <1>3, <2>11, <2>14, <2>15, <3>2
  <2>20. WriteInv' /\ OpenInv'
    BY <2>12 DEF WriteInv, OpenInv, Opens
  <2>21. ListsInv' /\ LiveInv' /\ SearchesExact'
    BY <1>1, <1>2, <2>12, ListsRest DEF Inside, Finds
  <2>22. driver'.pc = 0 => ReadExact
    <3> SUFFICES ASSUME ~more PROVE ReadExact
      BY <2>10
    <3>1. done = Least(before.cx, Beyond(before.file, before.pos))
      BY <1>3, <2>4, <2>5, <2>8, <2>9
    <3>2. driver'.cx = done /\ sft'.pos = before.pos + done
      BY <1>3, <2>11, <2>15
    <3> HIDE DEF done
    <3> QED
      BY <2>11, <2>14, <3>1, <3>2 DEF ReadExact
  <2> QED
    BY <2>13, <2>17, <2>18, <2>19, <2>20, <2>21, <2>22 DEF Inside
<1> QED
  BY <1>7, <1>8

LEMMA WriteTaken ==
    ASSUME Inside, TakeAnswer, op = "WRITEFIL"
    PROVE  Inside' /\ (driver'.pc = 0 => WriteExact)
<1>1. /\ driver.pc = 4 /\ Calling /\ Answered
      /\ UNCHANGED <<task, flag, reply, frame, ff_token, host, before>>
      /\ driver'.pc \in 0 .. 1 => HandInv'
  BY TakeIs
<1>2. TakeWrite(driver.call, frame) /\ UNCHANGED <<dta, listed>>
  BY DEF TakeAnswer, op, Opens, Finds
<1> DEFINE c == driver.call
           d == driver.done
           n == Least(ChunkLength(c, d), Room(sft.pos))
<1>3. /\ sft.count > 0 /\ before.file \in Seq(Nat) /\ before.pos \in Nat
      /\ d \in 0 .. c.cx - 1 /\ sft.pos = before.pos + d
      /\ sft.size = Len(Written(d))
      /\ \/ frame \in Failures /\ host.file = Written(d)
         \/ frame = [len |-> 2, ax |-> 0, n |-> n] /\ host.file = Written(d + n)
  BY <1>1 DEF Inside, WriteInv
<1>4. c.data \in Seq(Nat) /\ c.cx = Len(c.data) /\ c.cx \in Nat \ {0}
  BY <1>1, CallIs DEF Inside
<1>5. \A x \in 0 .. c.cx : Written(x) \in Seq(Nat) /\ Len(Written(x)) = LongEnough(before.file, before.pos, x)
  <2> TAKE x \in 0 .. c.cx
  <2>1. PICK f \in Seq(Nat), at \in Nat, e \in Seq(Nat) : f = before.file /\ at = before.pos /\ e = c.data
    BY <1>3, <1>4
  <2>2. x \in 0 .. Len(e)
    BY <1>4, <2>1
  <2>3. /\ Overwritten(f, at, SubSeq(e, 1, x)) \in Seq(Nat)
        /\ Len(Overwritten(f, at, SubSeq(e, 1, x))) = LongEnough(f, at, x)
    BY <2>2, WrittenIs
  <2> QED
    BY <2>1, <2>3 DEF Written
<1>6. c.op = "WRITEFIL" /\ Result(c, frame) = WholeResult(c, frame) /\ GoodLength(c.op) = 2
  BY DEF Result, GoodLength, op, Opens, Finds
<1>s. /\ driver = [f \in DriverFields |-> driver[f]] /\ sft = [f \in SftFields |-> sft[f]]
      /\ host = [f \in HostFields |-> host[f]] /\ task \in Tasks /\ c \in task.calls
      /\ ~AsksNothing(c) /\ driver.cf = FALSE /\ op \in supportedfunctions
      /\ sft.pos \in Nat /\ host.file \in Seq(Nat)
  BY <1>1 DEF Inside, Shapes
<1>f. sft.pos < MaxSize \/ sft.pos <= sft.size
  BY <1>3 DEF Inside, FileInv
<1>7. CASE frame \in Failures
  <2>1. Result(c, frame).cf
    BY <1>6, <1>7 DEF Failures, WholeResult, FAILFLAG
  <2>2. Take(c, frame) /\ UNCHANGED <<sft, buffer>>
    BY <1>2, <2>1 DEF TakeWrite
  <2>3. /\ driver'.pc = 0 /\ op' = op /\ ~Calling' /\ driver'.cf /\ driver'.call = c
        /\ driver' = [f \in DriverFields |-> driver'[f]]
    BY <2>1, <2>2, TakeEnds DEF Inside
  <2>4. Shapes'
    BY <1>1, <1>s, <2>2, <2>3 DEF Shapes
  <2>5. host.file = Written(d)
    <3>1. frame # [len |-> 2, ax |-> 0, n |-> n]
      BY <1>7 DEF Failures
    <3> QED
      BY <1>3, <3>1
  <2>6. FileInv'
    BY <1>1, <1>3, <1>f, <2>2, <2>3, <2>5 DEF FileInv
  <2>7. ListsInv' /\ LiveInv' /\ SearchesExact'
    BY <1>1, <1>2, <2>3, ListsRest DEF Inside, Finds
  <2>8. WriteExact
    <3>1. sft'.pos - before.pos = d
      BY <1>3, <1>4, <2>2
    <3>2. host'.file = Written(d)
      BY <1>1, <2>5
    <3> QED
      BY <1>1, <1>3, <2>2, <2>3, <2>5, <3>1, <3>2 DEF WriteExact, Written
  <2> QED
    BY <1>1, <2>3, <2>4, <2>6, <2>7, <2>8, AtRest DEF Inside
<1>8. CASE frame = [len |-> 2, ax |-> 0, n |-> n]
  <2>1. ~Result(c, frame).cf
    BY <1>6, <1>8 DEF WholeResult, SUCCESSFLAG
  <2>2. n \in Nat /\ n <= c.cx - d /\ (n = 0 => sft.pos >= MaxSize)
    <3>0. c.cx \in Nat /\ d \in Nat /\ d < c.cx /\ sft.pos \in Nat
      BY <1>3, <1>4, <1>s
    <3>1. PICK cx \in Nat, k \in Nat, pos \in Nat : cx = c.cx /\ k = d /\ pos = sft.pos
      BY <3>0
    <3>4. k < cx
      BY <3>0, <3>1
    <3>2. n = Least(Least(cx - k, CHUNKLEN), IF pos < MaxSize THEN MaxSize - pos ELSE 0)
      BY <3>1 DEF ChunkLength, Room
    <3> HIDE DEF n
    <3>3. n \in Nat /\ n <= cx - k /\ (n = 0 => pos >= MaxSize)
      BY <3>2, <3>4, MiSTerFSAssumption DEF Least
    <3> QED
      BY <3>1, <3>3
  <2>3. frame.n = n
    BY <1>8
  <2>w. host.file = Written(d + n)
    <3>1. frame \notin Failures
      BY <1>8 DEF Failures
    <3> QED
      BY <1>3, <3>1
  <2> HIDE DEF n
  <2> DEFINE done == d + n
             more == MoreToDo(c, n, done)
             size == IF sft.pos + n > sft.size THEN sft.pos + n ELSE sft.size
  <2>4. /\ sft' = [sft EXCEPT !.pos = sft.pos + n, !.size = size]
        /\ driver' = [driver EXCEPT !.done = done, !.cx = done, !.pc = IF more THEN 1 ELSE 0]
        /\ buffer' = buffer
    BY <1>2, <2>1, <2>3 DEF TakeWrite
  <2>5. done \in 0 .. c.cx
    BY <1>3, <1>4, <2>2, SMTT(30)
  <2>6. more => done < c.cx
    BY DEF MoreToDo
  <2> HIDE DEF more, size
  <2>7. /\ driver' = [f \in DriverFields |-> driver'[f]] /\ driver'.done = done /\ driver'.pc = (IF more THEN 1 ELSE 0)
    BY <1>s, <2>4 DEF DriverFields
  <2>8. driver'.cx = done /\ driver'.call = c /\ driver'.cf = FALSE
    BY <1>s, <2>4 DEF DriverFields
  <2>9. op' = op /\ driver'.pc \in 0 .. 1 /\ (Calling' <=> more)
    BY <2>7, <2>8 DEF op, Calling
  <2>10. ~Answered' /\ FrameInv' /\ FindInv' /\ HandInv'
    BY <1>1, <2>9, NotAsking
  <2>11. /\ sft' = [f \in SftFields |-> sft'[f]] /\ sft'.pos = sft.pos + n
         /\ sft'.count = sft.count /\ sft'.size = size
    BY <1>s, <2>4 DEF SftFields
  <2>12. Shapes'
    <3>1. sft'.pos \in Nat
      BY <1>s, <2>2, <2>11
    <3> QED
      BY <1>1, <1>s, <2>7, <2>8, <2>9, <2>11, <3>1 DEF Shapes
  <2>13. size = Len(Written(done)) /\ sft.pos + n <= size
    <3>1. PICK len \in Nat, at \in Nat, k \in Nat, m \in Nat, s \in Nat :
             len = Len(before.file) /\ at = before.pos /\ k = d /\ m = n /\ s = sft.size
      <4>1. Len(before.file) \in Nat /\ d \in 0 .. c.cx
        BY <1>3, <1>4, LenProperties
      <4>2. sft.size \in Nat
        BY <1>3, <1>5, <4>1, LenProperties
      <4> QED
        BY <1>3, <1>4, <2>2, <4>1, <4>2
    <3>2. s = IF k = 0 \/ at + k <= len THEN len ELSE at + k
      <4>1. d \in 0 .. c.cx
        BY <1>3, <1>4
      <4> QED
        BY <1>3, <1>5, <3>1, <4>1 DEF LongEnough
    <3>3. Len(Written(done)) = IF k + m = 0 \/ at + (k + m) <= len THEN len ELSE at + (k + m)
      BY <1>5, <2>5, <3>1 DEF LongEnough
    <3>4. sft.pos = at + k /\ sft.pos + n = at + k + m
      BY <1>3, <3>1
    <3>5. size = IF at + k + m > s THEN at + k + m ELSE s
      BY <3>1, <3>4 DEF size
    <3>6. m = 0 => at + k <= s
      BY <1>f, <2>2, <3>1, <3>4, MiSTerFSAssumption
    <3> QED
      BY <3>2, <3>3, <3>4, <3>5, <3>6
  <2> HIDE DEF done
  <2>14. FileInv'
    <3>1. sft'.pos <= sft'.size /\ sft'.size = Len(host'.file)
      BY <1>1, <2>11, <2>13, <2>w DEF done
    <3> QED
      BY <3>1 DEF FileInv
  <2>15. WriteInv'
    <3>1. \A x : Written(x)' = Written(x)
      BY <1>1, <2>8 DEF Written
    <3>2. sft'.pos = before.pos + done
      BY <1>3, <1>4, <2>2, <2>11 DEF done
    <3>3. more => done \in 0 .. c.cx - 1
      BY <1>4, <2>5, <2>6
    <3>4. host.file = Written(done)
      BY <2>w DEF done
    <3> QED
      BY <1>1, <1>3, <2>7, <2>8, <2>9, <2>10, <2>11, <2>13, <3>1, <3>2, <3>3, <3>4 DEF WriteInv
  <2>16. ReadInv' /\ OpenInv'
    BY <2>9 DEF ReadInv, OpenInv, Opens
  <2>17. ListsInv' /\ LiveInv' /\ SearchesExact'
    BY <1>1, <1>2, <2>9, ListsRest DEF Inside, Finds
  <2>18. WriteExact
    <3>1. sft'.pos - before.pos = done
      BY <1>3, <1>4, <2>2, <2>11 DEF done
    <3>2. host'.file = Written(done) /\ sft'.size = Len(host'.file)
      BY <1>1, <2>11, <2>13, <2>w DEF done
    <3> QED
      BY <2>8, <3>1, <3>2 DEF WriteExact, Written
  <2> QED
    BY <2>10, <2>12, <2>14, <2>15, <2>16, <2>17, <2>18 DEF Inside
<1> QED
  BY <1>3, <1>7, <1>8

LEMMA OpenTaken == ASSUME Inside, TakeAnswer, op \in Opens PROVE Inside'
<1>1. /\ driver.pc = 4 /\ Calling /\ Answered
      /\ UNCHANGED <<task, flag, reply, frame, ff_token, host, before>>
      /\ driver'.pc \in 0 .. 1 => HandInv'
  BY TakeIs
<1> DEFINE c == driver.call
<1>2. TakeOpen(c, frame) /\ UNCHANGED <<dta, listed>>
  BY DEF TakeAnswer, op, Opens, Finds
<1>3. /\ driver'.pc = 0 /\ op' = op /\ ~Calling' /\ driver' = [f \in DriverFields |-> driver'[f]]
  BY <1>2, TakeEnds DEF Inside, TakeOpen
<1>4. /\ sft.count = 0
      /\ frame \in Failures \cup {[len |-> 25, ax |-> 0, size |-> Len(host.file), mode |-> c.mode]}
  BY <1>1 DEF Inside, OpenInv
<1>5. Result(c, frame) = WholeResult(c, frame) /\ GoodLength(c.op) = 25
  BY DEF Result, GoodLength, op, Opens, Finds
<1>6. \/ sft' = sft
      \/ sft' = [count |-> 1, mode |-> frame.mode, drive |-> ReqDrive(c), size |-> Len(host.file), pos |-> 0]
  <2>1. CASE frame \in Failures
    <3>1. Result(c, frame).cf
      BY <1>5, <2>1 DEF Failures, WholeResult, FAILFLAG
    <3> QED
      BY <1>2, <3>1 DEF TakeOpen
  <2>2. CASE frame = [len |-> 25, ax |-> 0, size |-> Len(host.file), mode |-> c.mode]
    <3>1. frame.size = Len(host.file)
      BY <2>2
    <3> QED
      BY <1>2, <3>1 DEF TakeOpen
  <2> QED
    BY <1>4, <2>1, <2>2
<1>7. sft' = sft \/ (/\ sft' = [f \in SftFields |-> sft'[f]] /\ sft'.pos = 0 /\ sft'.size = Len(host.file))
  BY <1>6 DEF SftFields
<1>8. Shapes'
  BY <1>1, <1>3, <1>7 DEF Inside, Shapes
<1>9. FileInv'
  <2>1. Len(host.file) \in Nat
    BY LenProperties DEF Inside, Shapes
  <2> QED
    BY <1>1, <1>3, <1>4, <1>7, <2>1 DEF FileInv
<1>10. ListsInv' /\ LiveInv' /\ SearchesExact'
  BY <1>1, <1>2, <1>3, ListsRest DEF Inside, Finds, Opens
<1> QED
  BY <1>1, <1>3, <1>8, <1>9, <1>10, AtRest DEF Inside

LEMMA OtherTaken ==
    ASSUME Inside, TakeAnswer, op \notin {"READFIL", "WRITEFIL"} \cup Opens \cup Finds PROVE Inside'
<1>1. /\ driver.pc = 4 /\ Calling /\ Answered
      /\ UNCHANGED <<task, flag, reply, frame, ff_token, host, before>>
      /\ driver'.pc \in 0 .. 1 => HandInv'
  BY TakeIs
<1>2. Take(driver.call, frame) /\ UNCHANGED <<sft, dta, buffer, listed>>
  BY DEF TakeAnswer, op, dos
<1>3. /\ driver'.pc = 0 /\ op' = op /\ ~Calling' /\ driver' = [f \in DriverFields |-> driver'[f]]
  BY <1>2, TakeEnds DEF Inside
<1>4. Shapes'
  BY <1>1, <1>2, <1>3 DEF Inside, Shapes
<1>5. FileInv'
  BY <1>1, <1>2, <1>3 DEF Inside, FileInv
<1>6. ListsInv' /\ LiveInv' /\ SearchesExact'
  BY <1>1, <1>2, <1>3, ListsRest DEF Inside
<1> QED
  BY <1>1, <1>3, <1>4, <1>5, <1>6, AtRest DEF Inside

\* What a search is given by FINDFIRST or FINDNEXT.
LEMMA FindAnswer ==
    ASSUME Inside, Answered, op \in Finds, frame \notin Failures
    PROVE  \E t \in 0 .. Tokens - 1, l \in Seq(STRING), n \in Nat :
              /\ frame = Found([token |-> t], l, n + 1) /\ host.lists[t] = l
              /\ op = "FINDFIRST" => n = 0 /\ Begins(t) /\ l = Entries(driver.call.tmpl)
              /\ op = "FINDNEXT" => LET s == driver.call.search
                                    IN  /\ ~listed[s].done /\ l = Entries(listed[s].tmpl)
                                        /\ n = Len(listed[s].names) /\ t = dta[s].par_clstr
<1>1. task \in Tasks /\ Calling /\ op \in {"FINDFIRST", "FINDNEXT"}
  BY DEF Inside, Shapes, Answered, Calling, Finds
<1>2. CASE op = "FINDFIRST"
  <2>1. PICK t \in 0 .. Tokens - 1 :
           /\ Begins(t) /\ host.lists[t] = Entries(driver.call.tmpl)
           /\ frame = Found([token |-> t], Entries(driver.call.tmpl), 1)
    BY <1>1, <1>2 DEF Inside, FindInv
  <2>2. Entries(driver.call.tmpl) \in Seq(STRING)
    BY <1>1, EntriesSeq
  <2>3. 0 \in Nat /\ 0 + 1 = 1
    OBVIOUS
  <2> QED
    BY <1>2, <2>1, <2>2, <2>3
<1>3. CASE op = "FINDNEXT"
  <2> DEFINE s == driver.call.search
  <2>1. s \in Search
    BY <1>1, CallIs DEF Inside
  <2>2. ~listed[s].done
    BY <1>1, <1>3 DEF Inside, ListsInv
  <2>3. ~Beginning(s)
    BY <1>3 DEF Beginning
  <2>4. /\ dta[s].par_clstr \in 0 .. Tokens - 1 /\ dta[s].dir_entry = Len(listed[s].names)
        /\ host.lists[dta[s].par_clstr] = Entries(listed[s].tmpl)
    BY <2>1, <2>2, <2>3 DEF Inside, LiveInv
  <2>5. frame = Found([token |-> dta[s].par_clstr], host.lists[dta[s].par_clstr], dta[s].dir_entry + 1)
    BY <1>1, <1>3 DEF Inside, FindInv
  <2>6. Entries(listed[s].tmpl) \in Seq(STRING)
    BY <1>1, EntriesSeq
  <2>7. Len(listed[s].names) \in Nat
    BY <2>1, LenProperties DEF Inside, ListsInv
  <2> HIDE DEF s
  <2>8. PICK t \in 0 .. Tokens - 1, l \in Seq(STRING), n \in Nat :
           t = dta[s].par_clstr /\ l = Entries(listed[s].tmpl) /\ n = Len(listed[s].names)
    BY <2>4, <2>6, <2>7
  <2>9. frame = Found([token |-> t], l, n + 1) /\ host.lists[t] = l
    BY <2>4, <2>5, <2>8
  <2> QED
    BY <1>3, <2>2, <2>8, <2>9 DEF s
<1> QED
  BY <1>1, <1>2, <1>3

\* Names given in order, and one more.
LEMMA OneMore ==
    ASSUME NEW l \in Seq(STRING), NEW n \in Nat, n + 1 <= Len(l), NEW names \in Seq(STRING), Len(names) = n,
           names = SubSeq(l, 1, n)
    PROVE  /\ Append(names, l[n + 1]) \in Seq(STRING) /\ Len(Append(names, l[n + 1])) = n + 1
           /\ Append(names, l[n + 1]) = SubSeq(l, 1, n + 1)
<1>0. Len(l) \in Nat
  BY LenProperties
<1>p. PICK p \in Nat : p = n + 1
  OBVIOUS
<1>1. p \in 1 .. Len(l) /\ l[p] \in STRING
  BY <1>0, <1>p, ElementOfSeq
<1> DEFINE a == Append(names, l[p])
           s == SubSeq(l, 1, p)
<1>2. /\ a \in Seq(STRING) /\ Len(a) = p
      /\ \A i \in 1 .. n : a[i] = names[i]
      /\ a[p] = l[p]
  BY <1>1, <1>p, AppendProperties
<1>3. \A i \in 1 .. p : l[i] \in STRING
  BY <1>0, <1>1, ElementOfSeq
<1>4. s \in Seq(STRING) /\ Len(s) = p /\ \A i \in 1 .. p : s[i] = l[i]
  <2>1. /\ s \in Seq(STRING) /\ Len(s) = IF 1 <= p THEN p - 1 + 1 ELSE 0
        /\ \A i \in 1 .. p - 1 + 1 : s[i] = l[1 + i - 1]
    BY <1>3, SubSeqProperties
  <2> HIDE DEF s
  <2>2. \A i \in 1 .. p : s[i] = l[i]
    <3> TAKE i \in 1 .. p
    <3>1. i \in 1 .. p - 1 + 1 /\ 1 + i - 1 = i
      OBVIOUS
    <3> QED
      BY <2>1, <3>1
  <2> QED
    BY <1>p, <2>1, <2>2
<1>5. \A i \in 1 .. n : names[i] = l[i]
  <2>1. \A i \in 1 .. n : l[i] \in STRING
    BY <1>0, ElementOfSeq
  <2>2. \A i \in 1 .. n - 1 + 1 : SubSeq(l, 1, n)[i] = l[1 + i - 1]
    BY <2>1, SubSeqProperties
  <2> TAKE i \in 1 .. n
  <2>3. i \in 1 .. n - 1 + 1 /\ 1 + i - 1 = i
    OBVIOUS
  <2> QED
    BY <2>2, <2>3
<1> HIDE DEF a, s
<1>6. \A i \in 1 .. p : a[i] = s[i]
  <2> TAKE i \in 1 .. p
  <2>1. i \in 1 .. n \/ i = p
    BY <1>p
  <2> QED
    BY <1>2, <1>4, <1>5, <2>1
<1>7. a = s
  BY <1>2, <1>4, <1>6, SeqEqual
<1> QED
  BY <1>2, <1>7, <1>p DEF a, s

\* The search new is the search old, so many tokens older if it goes on.
Elder(new, old, n) ==
    /\ new.names = old.names /\ new.tmpl = old.tmpl /\ new.done = old.done /\ new.failed = old.failed
    /\ ~old.done => new.younger = old.younger + n

\* The others of a search that begins: each is a token older.
LEMMA BegunIs ==
    ASSUME Inside, NEW c, c.search \in Search
    PROVE  /\ Begun(c) = [s \in Search |-> [f \in ListedFields |-> Begun(c)[s][f]]]
           /\ Begun(c)[c.search] = NothingListed(c.tmpl)
           /\ \A s \in Search : s # c.search => Elder(Begun(c)[s], listed[s], 1)
<1>1. \A s \in Search : listed[s] = [f \in ListedFields |-> listed[s][f]]
  BY DEF Inside, ListsInv
<1>2. Begun(c)[c.search] = NothingListed(c.tmpl)
  BY DEF Begun
<1>3. NothingListed(c.tmpl) = [f \in ListedFields |-> NothingListed(c.tmpl)[f]]
  BY DEF NothingListed, ListedFields
<1>4. ASSUME NEW s \in Search, s # c.search
      PROVE  /\ Begun(c)[s] = [f \in ListedFields |-> Begun(c)[s][f]]
             /\ Elder(Begun(c)[s], listed[s], 1)
  <2>1. CASE listed[s].done
    <3>1. Begun(c)[s] = listed[s]
      BY <1>4, <2>1 DEF Begun
    <3> QED
      BY <1>1, <2>1, <3>1 DEF Elder
  <2>2. CASE ~listed[s].done
    <3>1. Begun(c)[s] = [listed[s] EXCEPT !.younger = listed[s].younger + 1]
      BY <1>4, <2>2 DEF Begun
    <3>2. listed[s] = [f \in ListedFields |-> listed[s][f]]
      BY <1>1
    <3> QED
      BY <3>1, <3>2 DEF ListedFields, Elder
  <2> QED
    BY <2>1, <2>2
<1>5. Begun(c) = [s \in Search |-> Begun(c)[s]]
  BY DEF Begun
<1>6. \A s \in Search : Begun(c)[s] = [f \in ListedFields |-> Begun(c)[s][f]]
  BY <1>2, <1>3, <1>4
<1> QED
  BY <1>2, <1>4, <1>5, <1>6

\* A search the host could not carry out is over, or, told another error than
\* "no more files", stays where it was.
LEMMA FindFailed == ASSUME Inside, TakeAnswer, op \in Finds, frame \in Failures PROVE Inside'
<1>1. /\ driver.pc = 4 /\ Calling /\ Answered
      /\ UNCHANGED <<task, flag, reply, frame, ff_token, host, before>>
      /\ driver'.pc \in 0 .. 1 => HandInv'
  BY TakeIs
<1> DEFINE c == driver.call
           s0 == c.search
           began == IF op = "FINDFIRST" THEN Begun(c) ELSE listed
           b == began[s0]
           over == Ends(c, frame)
           one == IF op = "FINDFIRST" THEN 1 ELSE 0
<1>2. TakeFind(c, frame) /\ UNCHANGED <<sft, buffer>>
  BY DEF TakeAnswer, op, Opens, Finds
<1>3. /\ driver'.pc = 0 /\ op' = op /\ ~Calling' /\ driver' = [f \in DriverFields |-> driver'[f]]
  BY <1>2, TakeEnds DEF Inside, TakeFind
<1>4. s0 \in Search /\ task \in Tasks /\ c \in task.calls /\ c.op = op
  BY <1>1, CallIs DEF Inside, op
<1>5. Result(c, frame).cf
  <2>1. Result(c, frame) = FindResult(c, frame)
    BY <1>4 DEF Result, Finds, Opens
  <2>2. frame.len = 65535 \/ frame.len # 24
    BY DEF Failures
  <2> QED
    BY <2>1, <2>2 DEF FindResult, FAILFLAG
<1>s. /\ dta = [s \in Search |-> [f \in DtaFields |-> dta[s][f]]]
      /\ listed = [s \in Search |-> [f \in ListedFields |-> listed[s][f]]]
      /\ \A s \in Search : /\ listed[s].names \in Seq(STRING) /\ listed[s].done \in BOOLEAN
                           /\ Len(listed[s].names) <= Len(Entries(listed[s].tmpl))
  BY DEF Inside, ListsInv
<1>6. dta' = dta
  <2>1. dta' = [dta EXCEPT ![s0] = dta[s0]]
    BY <1>2, <1>5 DEF TakeFind
  <2>2. dta = [s \in Search |-> dta[s]]
    BY <1>s
  <2> QED
    BY <2>1, <2>2
<1>7. listed' = [began EXCEPT ![s0] = IF over THEN [b EXCEPT !.done = TRUE, !.younger = 0, !.failed = TRUE] ELSE b]
  BY <1>2, <1>4, <1>5 DEF TakeFind
<1>8. op = "FINDFIRST" => over
  BY <1>4, <1>5 DEF Ends
<1> HIDE DEF over
<1>9. /\ began = [s \in Search |-> [f \in ListedFields |-> began[s][f]]]
      /\ b.names \in Seq(STRING) /\ b.done \in BOOLEAN
      /\ Len(b.names) <= Len(Entries(b.tmpl)) /\ b.names = SubSeq(Entries(b.tmpl), 1, Len(b.names))
      /\ op = "FINDNEXT" => b = listed[s0]
      /\ \A s \in Search : s # s0 => Elder(began[s], listed[s], one)
  <2>1. CASE op = "FINDFIRST"
    <3>1. began = Begun(c)
      BY <2>1
    <3>2. b = NothingListed(c.tmpl)
      BY <1>4, <2>1, BegunIs
    <3>3. b.names = <<>> /\ b.done = FALSE /\ b.tmpl = c.tmpl
      BY <3>2 DEF NothingListed
    <3>4. Entries(c.tmpl) \in Seq(STRING)
      BY <1>4, EntriesSeq
    <3> DEFINE all == Entries(c.tmpl)
    <3> HIDE DEF all
    <3>5. Len(all) \in Nat /\ SubSeq(all, 1, 0) = <<>> /\ <<>> \in Seq(STRING) /\ Len(<<>>) = 0
      BY <3>4, LenProperties DEF all
    <3>6. Entries(b.tmpl) = all
      BY <3>3 DEF all
    <3>7. began = [s \in Search |-> [f \in ListedFields |-> began[s][f]]]
      BY <1>4, <3>1, BegunIs
    <3>8. \A s \in Search : s # s0 => Elder(began[s], listed[s], one)
      <4>1. one = 1
        BY <2>1
      <4> HIDE DEF one, began
      <4> QED
        BY <1>4, <3>1, <4>1, BegunIs
    <3> HIDE DEF b, began, one
    <3>9. b.names \in Seq(STRING) /\ b.done \in BOOLEAN /\ Len(b.names) <= Len(Entries(b.tmpl))
      <4>1. b.names \in Seq(STRING) /\ Len(b.names) = 0
        BY <3>3, <3>5
      <4>2. b.done \in BOOLEAN
        BY <3>3
      <4>3. Len(Entries(b.tmpl)) \in Nat
        BY <3>5, <3>6
      <4> QED
        BY <4>1, <4>2, <4>3
    <3>10. b.names = SubSeq(Entries(b.tmpl), 1, Len(b.names))
      BY <3>3, <3>5, <3>6
    <3> QED
      BY <2>1, <3>7, <3>8, <3>9, <3>10
  <2>2. CASE op = "FINDNEXT"
    <3>1. began = listed /\ b = listed[s0]
      BY <2>2
    <3>2. listed[s0].names = SubSeq(Entries(listed[s0].tmpl), 1, Len(listed[s0].names))
      BY <1>4 DEF Inside, SearchesExact
    <3>3. \A s \in Search : Elder(listed[s], listed[s], one)
      <4>1. one = 0
        BY <2>2
      <4> QED
        BY <2>2, <4>1 DEF Inside, LiveInv, Beginning, Elder
    <3> HIDE DEF b, began, one
    <3> QED
      BY <1>4, <1>s, <2>2, <3>1, <3>2, <3>3
  <2> QED
    BY <2>1, <2>2 DEF Finds
<1> HIDE DEF began
<1>10. /\ listed' = [s \in Search |-> [f \in ListedFields |-> listed'[s][f]]]
       /\ listed'[s0].tmpl = b.tmpl /\ listed'[s0].names = b.names /\ listed'[s0].done \in BOOLEAN
       /\ over => listed'[s0].done /\ listed'[s0].failed
       /\ ~over => listed'[s0] = b
       /\ \A s \in Search : s # s0 => listed'[s] = began[s]
  <2>1. b = [f \in ListedFields |-> b[f]]
    BY <1>4, <1>9
  <2> DEFINE done == [b EXCEPT !.done = TRUE, !.younger = 0, !.failed = TRUE]
  <2>2. /\ done = [f \in ListedFields |-> done[f]]
        /\ done.tmpl = b.tmpl /\ done.done = TRUE /\ done.failed = TRUE /\ done.names = b.names
    <3> HIDE DEF b
    <3> QED
      BY <2>1 DEF ListedFields
  <2>3. listed' = [began EXCEPT ![s0] = IF over THEN done ELSE b]
    BY <1>7
  <2>4. b.done \in BOOLEAN
    BY <1>9
  <2>9. \A s \in Search : began[s] = [f \in ListedFields |-> began[s][f]]
    BY <1>9
  <2> HIDE DEF done, b
  <2>5. listed'[s0] = (IF over THEN done ELSE b) /\ \A s \in Search : s # s0 => listed'[s] = began[s]
    BY <1>4, <1>9, <2>3
  <2>6. listed' = [s \in Search |-> listed'[s]]
    BY <1>9, <2>3
  <2>7. listed'[s0] = [f \in ListedFields |-> listed'[s0][f]]
    BY <2>1, <2>2, <2>5
  <2>8. \A s \in Search : listed'[s] = [f \in ListedFields |-> listed'[s][f]]
    BY <2>5, <2>7, <2>9
  <2>10. listed' = [s \in Search |-> [f \in ListedFields |-> listed'[s][f]]]
    BY <2>6, <2>8
  <2> QED
    BY <2>2, <2>4, <2>5, <2>10
<1> HIDE DEF b
<1>11. \A x : Entries(x)' = Entries(x)
  BY <1>1 DEF Entries
<1>12. \A s \in Search : s # s0 =>
          /\ listed'[s].names = listed[s].names /\ listed'[s].tmpl = listed[s].tmpl
          /\ listed'[s].done = listed[s].done /\ listed'[s].failed = listed[s].failed
          /\ ~listed[s].done => listed'[s].younger = listed[s].younger + one
  <2> HIDE DEF one
  <2> QED
    BY <1>9, <1>10 DEF Elder
<1>13. ~task.programs
  <2>1. CASE op = "FINDFIRST"
    BY <1>4, <2>1, TaskAssumption
  <2>2. CASE op = "FINDNEXT"
    BY <1>1, <1>4, <2>2 DEF Inside, ListsInv
  <2> QED
    BY <2>1, <2>2 DEF Finds
<1>14. ListsInv'
  <2>1. \A s \in Search : /\ listed'[s].names \in Seq(STRING) /\ listed'[s].done \in BOOLEAN
                           /\ Len(listed'[s].names) <= Len(Entries(listed'[s].tmpl))
    <3> TAKE s \in Search
    <3>1. CASE s = s0
      BY <1>9, <1>10, <3>1
    <3>2. CASE s # s0
      BY <1>12, <1>s, <3>2
    <3> QED
      BY <3>1, <3>2
  <2> QED
    BY <1>1, <1>3, <1>6, <1>10, <1>11, <1>13, <2>1 DEF Inside, ListsInv
<1>15. LiveInv'
  <2> SUFFICES ASSUME NEW s \in Search, ~listed'[s].done
               PROVE  /\ dta[s].par_clstr \in 0 .. Tokens - 1 /\ dta[s].dir_entry = Len(listed'[s].names)
                      /\ host.lists[dta[s].par_clstr] = Entries(listed'[s].tmpl)
                      /\ listed'[s].younger \in Nat /\ listed'[s].younger < Tokens
                      /\ Since(dta[s].par_clstr, listed'[s].younger)
    <3>1. Ahead' = 0 /\ ~(Calling' /\ op' = "FINDFIRST")
      BY <1>3 DEF Ahead
    <3>2. host' = host /\ ff_token' = ff_token /\ dta' = dta
      BY <1>1, <1>6
    <3> QED
      BY <1>11, <3>1, <3>2 DEF LiveInv, Since
  <2>1. s # s0 \/ (op = "FINDNEXT" /\ listed'[s] = listed[s])
    BY <1>8, <1>9, <1>10 DEF Finds
  <2>2. ~listed[s].done /\ ~Beginning(s)
    BY <1>4, <1>12, <2>1 DEF Beginning
  <2>3. /\ dta[s].par_clstr \in 0 .. Tokens - 1 /\ dta[s].dir_entry = Len(listed[s].names)
        /\ host.lists[dta[s].par_clstr] = Entries(listed[s].tmpl)
        /\ listed[s].younger \in Nat /\ listed[s].younger + one < Tokens
        /\ Since(dta[s].par_clstr, listed[s].younger + one)
    BY <1>1, <2>2 DEF Inside, LiveInv, Ahead
  <2>4. /\ listed'[s].names = listed[s].names /\ listed'[s].tmpl = listed[s].tmpl
        /\ listed'[s].younger = listed[s].younger + one
    <3>1. CASE s # s0
      BY <1>12, <2>2, <3>1
    <3>2. CASE op = "FINDNEXT" /\ listed'[s] = listed[s]
      BY <2>3, <3>2
    <3> QED
      BY <2>1, <3>1, <3>2
  <2>5. one \in Nat
    OBVIOUS
  <2> HIDE DEF one
  <2> QED
    BY <2>3, <2>4, <2>5
<1>16. SearchesExact'
  <2> SUFFICES ASSUME NEW s \in Search
               PROVE  LET all == Entries(listed'[s].tmpl)
                      IN  /\ Len(listed'[s].names) <= Len(all)
                          /\ listed'[s].names = SubSeq(all, 1, Len(listed'[s].names))
                          /\ listed'[s].done => listed'[s].names = all \/ listed'[s].failed
    BY <1>11 DEF SearchesExact
  <2>1. CASE s # s0
    <3>1. LET all == Entries(listed[s].tmpl)
          IN  /\ Len(listed[s].names) <= Len(all)
              /\ listed[s].names = SubSeq(all, 1, Len(listed[s].names))
              /\ listed[s].done => listed[s].names = all \/ listed[s].failed
      BY DEF Inside, SearchesExact
    <3> QED
      BY <1>12, <2>1, <3>1
  <2>2. CASE s = s0 /\ over
    BY <1>9, <1>10, <2>2
  <2>3. CASE s = s0 /\ ~over
    <3>1. op = "FINDNEXT" /\ listed'[s0] = b /\ b = listed[s0]
      BY <1>8, <1>9, <1>10, <2>3 DEF Finds
    <3>2. ~listed[s0].done
      BY <1>1, <1>4, <3>1 DEF Inside, ListsInv
    <3> QED
      BY <1>9, <2>3, <3>1, <3>2
  <2> QED
    BY <2>1, <2>2, <2>3
<1>17. Shapes'
  BY <1>1, <1>2, <1>3 DEF Inside, Shapes
<1>18. FileInv'
  BY <1>1, <1>2, <1>3 DEF Inside, FileInv, Finds
<1> QED
  BY <1>1, <1>3, <1>14, <1>15, <1>16, <1>17, <1>18, AtRest DEF Inside

LEMMA FindTold == ASSUME Inside, TakeAnswer, op \in Finds, frame \notin Failures PROVE Inside'
<1>1. /\ driver.pc = 4 /\ Calling /\ Answered
      /\ UNCHANGED <<task, flag, reply, frame, ff_token, host, before>>
      /\ driver'.pc \in 0 .. 1 => HandInv'
  BY TakeIs
<1> DEFINE c == driver.call
           s0 == c.search
           over == Result(c, frame).cf
<1>2. TakeFind(c, frame) /\ UNCHANGED <<sft, buffer>>
  BY DEF TakeAnswer, op, Opens, Finds
<1>3. /\ driver'.pc = 0 /\ op' = op /\ ~Calling' /\ driver' = [f \in DriverFields |-> driver'[f]]
  BY <1>2, TakeEnds DEF Inside, TakeFind
<1>4. s0 \in Search /\ task \in Tasks /\ c \in task.calls /\ c.op = op
  BY <1>1, CallIs DEF Inside, op
<1>5. PICK t \in 0 .. Tokens - 1, l \in Seq(STRING), n \in Nat :
         /\ frame = Found([token |-> t], l, n + 1) /\ host.lists[t] = l
         /\ op = "FINDFIRST" => n = 0 /\ Begins(t) /\ l = Entries(c.tmpl)
         /\ op = "FINDNEXT" => ~listed[s0].done /\ l = Entries(listed[s0].tmpl)
                               /\ n = Len(listed[s0].names) /\ t = dta[s0].par_clstr
  BY <1>1, FindAnswer
<1>l. Len(l) \in Nat
  BY LenProperties
<1>6. Result(c, frame) = FindResult(c, frame)
  BY <1>4 DEF Result, Finds, Opens
<1>7. over => n + 1 > Len(l)
  <2> SUFFICES ASSUME n + 1 <= Len(l) PROVE ~over
    BY <1>l
  <2>1. frame = [len |-> 24, ax |-> 0, par_clstr |-> t, dir_entry |-> n + 1, name |-> l[n + 1]]
    BY <1>5, <1>l DEF Found
  <2>2. frame.len = 24 /\ frame.ax = 0
    BY <2>1
  <2> QED
    BY <1>6, <2>2 DEF FindResult, SUCCESSFLAG
<1>8. ~over => n + 1 <= Len(l)
  <2> SUFFICES ASSUME n + 1 > Len(l) PROVE over
    BY <1>l
  <2>1. frame = [len |-> 0, ax |-> 18]
    BY <1>5 DEF Found, NoMore
  <2>2. frame.len = 0 /\ frame.ax = 18
    BY <2>1
  <2> QED
    BY <1>6, <2>2 DEF FindResult, FAILFLAG
<1>e. over <=> Ends(c, frame)
  <2>1. CASE over
    <3>1. frame = [len |-> 0, ax |-> 18]
      BY <1>5, <1>7, <1>l, <2>1 DEF Found, NoMore
    <3>2. frame.len = 0 /\ frame.ax = 18
      BY <3>1
    <3>3. Result(c, frame).ax = 18
      BY <1>6, <3>2 DEF FindResult, FAILFLAG
    <3> QED
      BY <2>1, <3>3 DEF Ends
  <2>2. CASE ~over
    BY <2>2 DEF Ends
  <2> QED
    BY <2>1, <2>2
<1>9. ~over => frame.par_clstr = t /\ frame.dir_entry = n + 1 /\ frame.name = l[n + 1]
  <2> SUFFICES ASSUME n + 1 <= Len(l) PROVE frame.par_clstr = t /\ frame.dir_entry = n + 1 /\ frame.name = l[n + 1]
    BY <1>8
  <2>1. frame = [len |-> 24, ax |-> 0, par_clstr |-> t, dir_entry |-> n + 1, name |-> l[n + 1]]
    BY <1>5, <1>l DEF Found
  <2> QED
    BY <2>1
<1> DEFINE began == IF op = "FINDFIRST" THEN Begun(c) ELSE listed
           b == began[s0]
<1>10. /\ dta' = [dta EXCEPT ![s0] = IF over THEN dta[s0]
                                     ELSE [drive |-> ReqDrive(c), par_clstr |-> t, dir_entry |-> n + 1]]
       /\ listed' = [began EXCEPT ![s0] = IF over THEN [b EXCEPT !.done = TRUE, !.younger = 0, !.failed = FALSE]
                                          ELSE [b EXCEPT !.names = Append(b.names, l[n + 1])]]
  <2>1. c.op = op
    BY <1>4
  <2>2. /\ dta' = [dta EXCEPT ![s0] = IF over THEN dta[s0]
                                      ELSE [drive |-> ReqDrive(c), par_clstr |-> frame.par_clstr, dir_entry |-> frame.dir_entry]]
        /\ listed' = [began EXCEPT ![s0] = IF over THEN [b EXCEPT !.done = TRUE, !.younger = 0, !.failed = frame \in Failures]
                                           ELSE [b EXCEPT !.names = Append(b.names, frame.name)]]
    BY <1>2, <1>e, <2>1 DEF TakeFind
  <2> HIDE DEF over, began, b
  <2>3. (frame \in Failures) = FALSE
    OBVIOUS
  <2>4. CASE over
    BY <2>2, <2>3, <2>4
  <2>5. CASE ~over
    BY <1>9, <2>2, <2>5
  <2> QED
    BY <2>4, <2>5
<1> HIDE DEF over
<1>s. /\ dta = [s \in Search |-> [f \in DtaFields |-> dta[s][f]]]
      /\ listed = [s \in Search |-> [f \in ListedFields |-> listed[s][f]]]
      /\ \A s \in Search : /\ listed[s].names \in Seq(STRING) /\ listed[s].done \in BOOLEAN
                           /\ Len(listed[s].names) <= Len(Entries(listed[s].tmpl))
  BY DEF Inside, ListsInv
<1>11. /\ began = [s \in Search |-> [f \in ListedFields |-> began[s][f]]]
       /\ b.names \in Seq(STRING) /\ Len(b.names) = n /\ b.done = FALSE /\ Entries(b.tmpl) = l
       /\ b.names = SubSeq(l, 1, n) /\ (op = "FINDFIRST" => b.younger = 0)
       /\ op = "FINDNEXT" => b = listed[s0]
       /\ n <= Len(l)
  <2>1. CASE op = "FINDFIRST"
    <3>1. b = [tmpl |-> c.tmpl, names |-> <<>>, done |-> FALSE, failed |-> FALSE, younger |-> 0]
      BY <1>4, <2>1 DEF Begun, NothingListed
    <3>2. b.names = <<>> /\ b.done = FALSE /\ b.tmpl = c.tmpl /\ b.younger = 0
      BY <3>1
    <3>3. began = [s \in Search |-> [f \in ListedFields |-> began[s][f]]]
      <4>1. \A s \in Search : listed[s] = [f \in ListedFields |-> listed[s][f]]
        BY <1>s
      <4>2. \A s \in Search : began[s] = [f \in ListedFields |-> began[s][f]]
        <5> TAKE s \in Search
        <5>1. CASE s = s0
          BY <3>1, <5>1 DEF ListedFields
        <5>2. CASE s # s0 /\ listed[s].done
          <6>1. began[s] = listed[s]
            BY <2>1, <5>2 DEF Begun
          <6> QED
            BY <4>1, <6>1
        <5>3. CASE s # s0 /\ ~listed[s].done
          <6>1. began[s] = [listed[s] EXCEPT !.younger = listed[s].younger + 1]
            BY <2>1, <5>3 DEF Begun
          <6>2. listed[s] = [f \in ListedFields |-> listed[s][f]]
            BY <4>1
          <6> HIDE DEF began
          <6> QED
            BY <6>1, <6>2 DEF ListedFields
        <5> QED
          BY <5>1, <5>2, <5>3
      <4>3. began = [s \in Search |-> began[s]]
        BY <2>1 DEF Begun
      <4> HIDE DEF began
      <4> QED
        BY <4>2, <4>3
    <3>4. <<>> \in Seq(STRING) /\ Len(<<>>) = 0 /\ SubSeq(l, 1, 0) = <<>>
      OBVIOUS
    <3> HIDE DEF b, began
    <3> QED
      BY <1>5, <1>l, <2>1, <3>2, <3>3, <3>4
  <2>2. CASE op = "FINDNEXT"
    <3>1. began = listed /\ b = listed[s0]
      BY <2>2
    <3>2. /\ listed[s0].names \in Seq(STRING) /\ Len(listed[s0].names) = n /\ listed[s0].done = FALSE
          /\ Entries(listed[s0].tmpl) = l
      BY <1>4, <1>5, <1>s, <2>2
    <3>3. listed[s0].names = SubSeq(l, 1, n)
      BY <1>4, <3>2 DEF Inside, SearchesExact
    <3>4. n <= Len(l)
      BY <1>4, <1>s, <3>2
    <3> HIDE DEF b, began
    <3> QED
      BY <1>s, <2>2, <3>1, <3>2, <3>3, <3>4
  <2> QED
    BY <2>1, <2>2 DEF Finds
<1>12. \A s \in Search : s # s0 =>
          /\ began[s].names = listed[s].names /\ began[s].tmpl = listed[s].tmpl /\ began[s].done = listed[s].done
          /\ began[s].failed = listed[s].failed
          /\ ~listed[s].done => began[s].younger = listed[s].younger + (IF op = "FINDFIRST" THEN 1 ELSE 0)
  <2> TAKE s \in Search
  <2> HAVE s # s0
  <2>1. listed[s] = [f \in ListedFields |-> listed[s][f]]
    BY <1>s
  <2>2. CASE op = "FINDFIRST" /\ ~listed[s].done
    <3>1. began[s] = [listed[s] EXCEPT !.younger = listed[s].younger + 1]
      BY <2>2 DEF Begun
    <3> HIDE DEF began
    <3> QED
      BY <2>1, <2>2, <3>1 DEF ListedFields
  <2>3. CASE op = "FINDFIRST" /\ listed[s].done
    <3>1. began[s] = listed[s]
      BY <2>3 DEF Begun
    <3> QED
      BY <2>3, <3>1
  <2>4. CASE op # "FINDFIRST"
    <3>1. began = listed
      BY <2>4
    <3>2. op = "FINDNEXT"
      BY <2>4 DEF Finds
    <3>3. ~listed[s].done => listed[s].younger \in Nat
      BY <2>4 DEF Inside, LiveInv, Beginning
    <3> HIDE DEF began
    <3> QED
      BY <2>4, <3>1, <3>3
  <2> QED
    BY <2>2, <2>3, <2>4
<1> HIDE DEF began
<1>13. /\ listed' = [s \in Search |-> [f \in ListedFields |-> listed'[s][f]]]
       /\ listed'[s0].tmpl = b.tmpl /\ (listed'[s0].done <=> over) /\ listed'[s0].done \in BOOLEAN
       /\ over => listed'[s0].names = b.names
       /\ ~over => listed'[s0].names = Append(b.names, l[n + 1]) /\ listed'[s0].younger = b.younger
       /\ \A s \in Search : s # s0 => listed'[s] = began[s]
  <2>1. b = [f \in ListedFields |-> b[f]]
    BY <1>4, <1>11
  <2> DEFINE done == [b EXCEPT !.done = TRUE, !.younger = 0, !.failed = FALSE]
             going == [b EXCEPT !.names = Append(b.names, l[n + 1])]
  <2>2. /\ done = [f \in ListedFields |-> done[f]]
        /\ done.tmpl = b.tmpl /\ done.done = TRUE /\ done.names = b.names
    <3> HIDE DEF b
    <3> QED
      BY <2>1 DEF ListedFields
  <2>3. /\ going = [f \in ListedFields |-> going[f]]
        /\ going.tmpl = b.tmpl /\ going.done = b.done /\ going.names = Append(b.names, l[n + 1])
        /\ going.younger = b.younger
    <3> HIDE DEF b
    <3> QED
      BY <2>1 DEF ListedFields
  <2>4. listed' = [began EXCEPT ![s0] = IF over THEN done ELSE going]
    BY <1>10
  <2> HIDE DEF done, going
  <2>5. listed'[s0] = (IF over THEN done ELSE going) /\ \A s \in Search : s # s0 => listed'[s] = began[s]
    BY <1>4, <1>11, <2>4
  <2>6. listed' = [s \in Search |-> listed'[s]]
    BY <1>11, <2>4
  <2>7. \A s \in Search : listed'[s] = [f \in ListedFields |-> listed'[s][f]]
    <3>1. \A s \in Search : began[s] = [f \in ListedFields |-> began[s][f]]
      BY <1>11
    <3>2. listed'[s0] = [f \in ListedFields |-> listed'[s0][f]]
      BY <2>2, <2>3, <2>5
    <3> QED
      BY <2>5, <3>1, <3>2
  <2>8. listed' = [s \in Search |-> [f \in ListedFields |-> listed'[s][f]]]
    BY <2>6, <2>7
  <2>9. /\ listed'[s0].tmpl = b.tmpl /\ (listed'[s0].done <=> over) /\ listed'[s0].done \in BOOLEAN
        /\ over => listed'[s0].names = b.names
        /\ ~over => listed'[s0].names = Append(b.names, l[n + 1]) /\ listed'[s0].younger = b.younger
    <3> HIDE DEF b
    <3>1. b.done = FALSE
      BY <1>11
    <3>2. CASE over
      BY <2>2, <2>5, <3>2
    <3>3. CASE ~over
      BY <2>3, <2>5, <3>1, <3>3
    <3> QED
      BY <3>2, <3>3
  <2> QED
    BY <2>5, <2>8, <2>9
<1>14. /\ dta' = [s \in Search |-> [f \in DtaFields |-> dta'[s][f]]]
       /\ ~over => dta'[s0].par_clstr = t /\ dta'[s0].dir_entry = n + 1
       /\ \A s \in Search : s # s0 => dta'[s] = dta[s]
  <2> DEFINE new == [drive |-> ReqDrive(c), par_clstr |-> t, dir_entry |-> n + 1]
  <2>1. new = [f \in DtaFields |-> new[f]] /\ new.par_clstr = t /\ new.dir_entry = n + 1
    BY DEF DtaFields
  <2>2. dta' = [dta EXCEPT ![s0] = IF over THEN dta[s0] ELSE new]
    BY <1>10
  <2> HIDE DEF new
  <2>3. \A s \in Search : dta[s] = [f \in DtaFields |-> dta[s][f]]
    BY <1>s
  <2>4. dta'[s0] = (IF over THEN dta[s0] ELSE new) /\ \A s \in Search : s # s0 => dta'[s] = dta[s]
    BY <1>4, <1>s, <2>2
  <2>5. dta' = [s \in Search |-> dta'[s]]
    BY <1>s, <2>2
  <2>6. \A s \in Search : dta'[s] = [f \in DtaFields |-> dta'[s][f]]
    <3>1. dta'[s0] = [f \in DtaFields |-> dta'[s0][f]]
      BY <1>4, <2>1, <2>3, <2>4
    <3> QED
      BY <2>3, <2>4, <3>1
  <2>7. dta' = [s \in Search |-> [f \in DtaFields |-> dta'[s][f]]]
    BY <2>5, <2>6
  <2> QED
    BY <2>1, <2>4, <2>7
<1>15. \A x : Entries(x)' = Entries(x)
  BY <1>1 DEF Entries
<1> HIDE DEF b
<1> DEFINE bn == b.names
           bt == b.tmpl
           m == n + 1
<1>16. /\ bn \in Seq(STRING) /\ Len(bn) = n /\ bn = SubSeq(l, 1, n) /\ Entries(bt) = l /\ n <= Len(l)
       /\ over => n = Len(l)
  BY <1>7, <1>11, <1>l
<1>17. ~over => /\ Append(bn, l[m]) \in Seq(STRING) /\ Len(Append(bn, l[m])) = m
                /\ Append(bn, l[m]) = SubSeq(l, 1, m) /\ m <= Len(l)
  <2> HIDE DEF bn
  <2> QED
    BY <1>8, <1>16, OneMore
<1>18. /\ listed'[s0].tmpl = bt /\ (listed'[s0].done <=> over)
       /\ over => listed'[s0].names = bn
       /\ ~over => listed'[s0].names = Append(bn, l[m]) /\ listed'[s0].younger = b.younger
  BY <1>13
<1> HIDE DEF bn, bt
<1>19. listed'[s0].names \in Seq(STRING) /\ Len(listed'[s0].names) <= Len(l)
  BY <1>16, <1>17, <1>18, <1>l
<1>20. Entries(listed'[s0].tmpl) = l
  BY <1>16, <1>18
<1>21. \A s \in Search : s # s0 => /\ listed'[s].names = listed[s].names /\ listed'[s].tmpl = listed[s].tmpl
                                 /\ listed'[s].done = listed[s].done /\ listed'[s].failed = listed[s].failed
  BY <1>12, <1>13
<1>22. ~task.programs
  <2>1. CASE op = "FINDFIRST"
    BY <1>4, <2>1, TaskAssumption
  <2>2. CASE op = "FINDNEXT"
    BY <1>4, <1>5, <2>2 DEF Inside, ListsInv
  <2> QED
    BY <2>1, <2>2 DEF Finds
<1>23. ListsInv'
  <2>1. \A s \in Search : /\ listed'[s].names \in Seq(STRING) /\ listed'[s].done \in BOOLEAN
                           /\ Len(listed'[s].names) <= Len(Entries(listed'[s].tmpl))
    <3> TAKE s \in Search
    <3>1. CASE s = s0
      <4>1. listed'[s0].done \in BOOLEAN
        BY <1>13
      <4> QED
        BY <1>19, <1>20, <3>1, <4>1
    <3>2. CASE s # s0
      BY <1>21, <1>s, <3>2
    <3> QED
      BY <3>1, <3>2
  <2>2. ff_token' = ff_token /\ host' = host /\ task' = task
    BY <1>1
  <2> QED
    BY <1>3, <1>13, <1>14, <1>15, <1>22, <2>1, <2>2 DEF Inside, ListsInv
<1>24. LiveInv'
  <2> SUFFICES ASSUME NEW s \in Search, ~listed'[s].done
               PROVE  /\ dta'[s].par_clstr \in 0 .. Tokens - 1 /\ dta'[s].dir_entry = Len(listed'[s].names)
                      /\ host.lists[dta'[s].par_clstr] = Entries(listed'[s].tmpl)
                      /\ listed'[s].younger \in Nat /\ listed'[s].younger < Tokens
                      /\ Since(dta'[s].par_clstr, listed'[s].younger)
    <3>1. Ahead' = 0 /\ ~(Calling' /\ op' = "FINDFIRST")
      BY <1>3 DEF Ahead
    <3>2. host' = host /\ ff_token' = ff_token
      BY <1>1
    <3> QED
      BY <1>15, <3>1, <3>2 DEF LiveInv, Since
  <2>1. CASE s # s0 \/ op = "FINDNEXT"
    <3>1. ~listed[s].done /\ ~Beginning(s)
      BY <1>4, <1>5, <1>21, <2>1 DEF Beginning
    <3> DEFINE one == IF op = "FINDFIRST" THEN 1 ELSE 0
    <3>2. /\ dta[s].par_clstr \in 0 .. Tokens - 1 /\ dta[s].dir_entry = Len(listed[s].names)
          /\ host.lists[dta[s].par_clstr] = Entries(listed[s].tmpl)
          /\ listed[s].younger \in Nat /\ listed[s].younger + one < Tokens
          /\ Since(dta[s].par_clstr, listed[s].younger + one)
      BY <1>1, <3>1 DEF Inside, LiveInv, Ahead
    <3>3. CASE s # s0
      <4>1. /\ dta'[s] = dta[s] /\ listed'[s].names = listed[s].names /\ listed'[s].tmpl = listed[s].tmpl
            /\ listed'[s].younger = listed[s].younger + one
        BY <1>12, <1>13, <1>14, <3>1, <3>3
      <4>2. one \in Nat
        OBVIOUS
      <4> HIDE DEF one
      <4> QED
        BY <3>2, <4>1, <4>2
    <3>4. CASE s = s0
      <4>1. op = "FINDNEXT" /\ one = 0
        BY <2>1, <3>4
      <4>2. b.younger = listed[s].younger /\ b.tmpl = listed[s].tmpl
        BY <1>11, <3>4, <4>1
      <4>3. ~over
        BY <1>18, <3>4
      <4>4. /\ dta'[s].par_clstr = t /\ dta'[s].dir_entry = m /\ listed'[s].tmpl = bt
            /\ listed'[s].names = Append(bn, l[m]) /\ Len(listed'[s].names) = m
            /\ listed'[s].younger = listed[s].younger
        BY <1>14, <1>17, <1>18, <3>4, <4>2, <4>3
      <4>5. t = dta[s].par_clstr
        BY <1>5, <3>4, <4>1
      <4>6. listed[s].younger + 0 = listed[s].younger
        BY <3>2
      <4> HIDE DEF m
      <4> QED
        BY <1>5, <1>16, <3>2, <4>1, <4>4, <4>5, <4>6
    <3> QED
      BY <3>3, <3>4
  <2>2. CASE s = s0 /\ op = "FINDFIRST"
    <3>1. ~over
      BY <1>18, <2>2
    <3>2. b.younger = 0
      BY <1>11, <2>2
    <3>3. /\ dta'[s].par_clstr = t /\ dta'[s].dir_entry = m /\ listed'[s].tmpl = bt
          /\ listed'[s].names = Append(bn, l[m]) /\ Len(listed'[s].names) = m
          /\ listed'[s].younger = 0
      BY <1>14, <1>17, <1>18, <2>2, <3>1, <3>2
    <3>4. Begins(t)
      BY <1>5, <2>2
    <3>5. Since(t, 0)
      BY <3>4, MiSTerFSAssumption DEF Begins, TokenAfter, Since
    <3> HIDE DEF m
    <3> QED
      BY <1>5, <1>16, <3>3, <3>5, MiSTerFSAssumption
  <2>3. op = "FINDFIRST" \/ op = "FINDNEXT"
    BY DEF Finds
  <2> QED
    BY <2>1, <2>2, <2>3
<1>25. SearchesExact'
  <2> SUFFICES ASSUME NEW s \in Search
               PROVE  LET all == Entries(listed'[s].tmpl)
                      IN  /\ Len(listed'[s].names) <= Len(all)
                          /\ listed'[s].names = SubSeq(all, 1, Len(listed'[s].names))
                          /\ listed'[s].done => listed'[s].names = all \/ listed'[s].failed
    BY <1>15 DEF SearchesExact
  <2>1. CASE s # s0
    <3>1. LET all == Entries(listed[s].tmpl)
          IN  /\ Len(listed[s].names) <= Len(all)
              /\ listed[s].names = SubSeq(all, 1, Len(listed[s].names))
              /\ listed[s].done => listed[s].names = all \/ listed[s].failed
      BY DEF Inside, SearchesExact
    <3> QED
      BY <1>21, <2>1, <3>1
  <2>2. CASE s = s0 /\ over
    <3>1. listed'[s].names = bn /\ Entries(listed'[s].tmpl) = l
      BY <1>18, <1>20, <2>2
    <3>2. SubSeq(l, 1, Len(l)) = l
      BY SubSeqFull
    <3> QED
      BY <1>16, <2>2, <3>1, <3>2
  <2>3. CASE s = s0 /\ ~over
    <3>1. listed'[s].names = Append(bn, l[m]) /\ Entries(listed'[s].tmpl) = l /\ ~listed'[s].done
      BY <1>18, <1>20, <2>3
    <3> HIDE DEF m
    <3> QED
      BY <1>17, <2>3, <3>1
  <2> QED
    BY <2>1, <2>2, <2>3
<1>26. Shapes'
  BY <1>1, <1>2, <1>3 DEF Inside, Shapes
<1>27. FileInv'
  BY <1>1, <1>2, <1>3 DEF Inside, FileInv, Finds
<1> QED
  BY <1>1, <1>3, <1>23, <1>24, <1>25, <1>26, <1>27, AtRest DEF Inside

LEMMA FindTaken == ASSUME Inside, TakeAnswer, op \in Finds PROVE Inside'
  BY FindFailed, FindTold

LEMMA TakeStep ==
    ASSUME Inside, TakeAnswer
    PROVE  /\ Inside'
           /\ Returns("READFIL") => ReadExact
           /\ Returns("WRITEFIL") => WriteExact
<1>1. CASE op = "READFIL"
  BY <1>1, ReadTaken DEF Returns, op
<1>2. CASE op = "WRITEFIL"
  BY <1>2, WriteTaken DEF Returns, op
<1>3. CASE op \notin {"READFIL", "WRITEFIL"}
  <2>1. Inside'
    BY <1>3, OpenTaken, FindTaken, OtherTaken
  <2> QED
    BY <1>3, <2>1 DEF Returns, op
<1> QED
  BY <1>1, <1>2, <1>3

-----------------------------------------------------------------------------
(* Calls, and what happens between them. *)

LEMMA CallStays ==
    ASSUME Inside, NEW c \in task.calls, Call(c), driver'.pc = 0, UNCHANGED <<sft, dta, ff_token>>,
           driver' = [f \in DriverFields |-> driver'[f]]
    PROVE  Inside'
<1>1. driver.pc = 0 /\ UNCHANGED <<task, flag, reply, frame, host, listed>>
  BY DEF Call, window
<1>2. ~Calling /\ ~Calling'
  BY <1>1 DEF Calling
<1>3. HandInv'
  BY <1>1 DEF Inside, HandInv, Answered
<1>4. Shapes'
  BY <1>1, <1>2 DEF Inside, Shapes
<1>5. FileInv'
  BY <1>1, <1>2 DEF Inside, FileInv
<1>6. ListsInv' /\ LiveInv' /\ SearchesExact'
  BY <1>1, <1>2, ListsRest DEF Inside
<1> QED
  BY <1>3, <1>4, <1>5, <1>6, AtRest DEF Inside

LEMMA CallStarts ==
    ASSUME Inside, NEW c \in task.calls, Call(c), Ours(c), ~AsksNothing(c),
           driver' = [Called(c) EXCEPT !.pc = 1], sft' = Closed(c), UNCHANGED <<dta, ff_token>>
    PROVE  Inside'
<1>1. /\ driver.pc = 0 /\ Possible(c) /\ HostAwake /\ UNCHANGED <<task, flag, reply, frame, host, listed>>
      /\ before' = [file |-> host.file, pos |-> sft.pos, cx |-> Called(c).cx] /\ buffer' = <<>>
  BY DEF Call, window
<1> DEFINE cx == IF c.op \in {"READFIL", "WRITEFIL"} THEN c.cx ELSE 0
<1>2. driver' = [pc |-> 1, call |-> c, done |-> 0, ax |-> 0, cf |-> FALSE, cx |-> cx] /\ Called(c).cx = cx
  BY DEF Called, Idle
<1> HIDE DEF cx
<1>3. /\ driver' = [f \in DriverFields |-> driver'[f]] /\ driver'.pc = 1 /\ driver'.call = c /\ driver'.done = 0
      /\ driver'.cf = FALSE /\ driver'.cx = cx
  <2>1. driver' = [f \in DriverFields |-> driver'[f]]
    BY <1>2 DEF DriverFields
  <2> QED
    BY <1>2, <2>1
<1>4. ~Calling /\ Calling' /\ op' = c.op
  BY <1>1, <1>3 DEF Calling, op
<1>5. ~Answered' /\ FrameInv' /\ FindInv'
  BY <1>3, NotAsking
<1>s. /\ task \in Tasks /\ sft = [f \in SftFields |-> sft[f]] /\ sft.pos \in Nat
      /\ host = [f \in HostFields |-> host[f]] /\ host.file \in Seq(Nat)
  BY DEF Inside, Shapes
<1>6. /\ c.op = "READFIL" => c.cx \in Nat \ {0}
      /\ c.op = "WRITEFIL" => c.data \in Seq(Nat) /\ c.cx = Len(c.data) /\ c.cx \in Nat \ {0}
      /\ c.op \in Finds => c.search \in Search
  <2>1. /\ c.op = "READFIL" => c.cx \in Nat
        /\ c.op = "WRITEFIL" => c.data \in Seq(Nat) /\ c.cx = Len(c.data)
        /\ c.op \in Finds => c.search \in Search
    BY <1>s, TaskAssumption DEF Finds, Search
  <2>2. c.op \in {"READFIL", "WRITEFIL"} => c.cx # 0
    BY DEF AsksNothing
  <2>3. c.op = "WRITEFIL" => Len(c.data) \in Nat
    BY <2>1, LenProperties
  <2> QED
    BY <2>1, <2>2, <2>3
<1>7. /\ sft' = [f \in SftFields |-> sft'[f]] /\ sft'.pos = sft.pos /\ sft'.size = sft.size
      /\ c.op # "CLSFIL" => sft' = sft
  <2>1. CASE c.op = "CLSFIL"
    <3>1. sft' = [sft EXCEPT !.count = sft.count - 1]
      BY <2>1 DEF Closed
    <3> QED
      BY <1>s, <2>1, <3>1 DEF SftFields
  <2>2. CASE c.op # "CLSFIL"
    <3>1. sft' = sft
      BY <2>2 DEF Closed
    <3> QED
      BY <1>s, <3>1
  <2> QED
    BY <2>1, <2>2
<1>8. Shapes'
  <2>1. c.op \in supportedfunctions
    BY DEF Ours
  <2>2. AsksNothing(c)' <=> AsksNothing(c)
    BY DEF AsksNothing, TooLong
  <2> QED
    BY <1>1, <1>3, <1>4, <1>7, <1>s, <2>1 DEF Shapes
<1>9. HandInv'
  BY <1>1, <1>3, <1>5 DEF Inside, HandInv, Answered, HostAwake
<1>10. sft'.count > 0 => sft.count > 0
  BY <1>1, <1>7 DEF Possible, OnHandle
<1>11. sft.count > 0 => sft.size = Len(host.file) /\ (sft.pos < MaxSize \/ sft.pos <= sft.size)
  BY <1>4 DEF Inside, FileInv
<1>12. FileInv'
  BY <1>1, <1>7, <1>10, <1>11 DEF FileInv
<1>13. ReadInv'
  <2> SUFFICES ASSUME c.op = "READFIL"
               PROVE  /\ before'.file = host.file /\ before'.pos = sft.pos /\ before'.cx = c.cx /\ cx = c.cx
                      /\ 0 \in 0 .. c.cx - 1 /\ 0 <= Beyond(before'.file, before'.pos)
                      /\ buffer' = Bytes(before'.file, before'.pos, 0)
    BY <1>1, <1>3, <1>4, <1>5, <1>7 DEF ReadInv
  <2>1. before'.file = host.file /\ before'.pos = sft.pos /\ before'.cx = cx /\ cx = c.cx
    BY <1>1, <1>2 DEF cx
  <2>2. 0 \in 0 .. c.cx - 1
    BY <1>6
  <2>3. 0 <= Beyond(host.file, sft.pos)
    <3>1. Len(host.file) \in Nat
      BY <1>s, LenProperties
    <3> QED
      BY <1>s, <3>1 DEF Beyond
  <2> QED
    BY <1>1, <2>1, <2>2, <2>3, BytesNone
<1>14. WriteInv'
  <2> SUFFICES ASSUME c.op = "WRITEFIL"
               PROVE  /\ sft.count > 0 /\ before'.file \in Seq(Nat) /\ before'.pos \in Nat
                      /\ 0 \in 0 .. c.cx - 1 /\ sft.pos = before'.pos + 0
                      /\ sft.size = Len(Written(0)') /\ host.file = Written(0)'
    BY <1>1, <1>3, <1>4, <1>5, <1>7 DEF WriteInv
  <2>1. before'.file = host.file /\ before'.pos = sft.pos
    BY <1>1
  <2>2. sft.count > 0
    BY <1>1 DEF Possible, OnHandle
  <2>3. 0 \in 0 .. c.cx - 1
    BY <1>6
  <2>4. Written(0)' = host.file
    <3>1. SubSeq(c.data, 1, 0) = <<>>
      OBVIOUS
    <3> QED
      BY <1>3, <2>1, <3>1 DEF Written, Overwritten
  <2> QED
    BY <1>11, <1>s, <2>1, <2>2, <2>3, <2>4
<1>15. OpenInv'
  BY <1>1, <1>4, <1>5, <1>7 DEF OpenInv, Possible, Opens
<1>16. \A x : Entries(x)' = Entries(x)
  BY <1>1 DEF Entries
<1>17. ListsInv'
  <2>1. c.op = "FINDNEXT" => ~listed[c.search].done
    BY <1>1 DEF Possible
  <2>2. ListsInv
    BY DEF Inside
  <2> QED
    <3>1. Calling' /\ op' = "FINDNEXT" => ~listed'[driver'.call.search].done
      BY <1>1, <1>3, <1>4, <2>1
    <3>2. \A s \in Search : /\ listed'[s].names \in Seq(STRING) /\ listed'[s].done \in BOOLEAN
                            /\ Len(listed'[s].names) <= Len(Entries(listed[s].tmpl)')
      BY <1>1, <1>16, <2>2 DEF ListsInv
    <3>3. /\ task' = task /\ dta' = dta /\ listed' = listed /\ ff_token' = ff_token /\ host' = host
      BY <1>1
    <3> QED
      BY <2>2, <3>1, <3>2, <3>3 DEF ListsInv
<1>18. LiveInv'
  <2> SUFFICES ASSUME NEW s \in Search, ~listed[s].done, ~(c.op = "FINDFIRST" /\ c.search = s)
               PROVE  /\ dta[s].par_clstr \in 0 .. Tokens - 1 /\ dta[s].dir_entry = Len(listed[s].names)
                      /\ host.lists[dta[s].par_clstr] = Entries(listed[s].tmpl)
                      /\ listed[s].younger \in Nat
                      /\ listed[s].younger + (IF c.op = "FINDFIRST" THEN 1 ELSE 0) < Tokens
                      /\ Since(dta[s].par_clstr, listed[s].younger + 0)
    <3>1. Ahead' = 0
      BY <1>3 DEF Ahead
    <3> QED
      BY <1>1, <1>3, <1>4, <1>16, <3>1 DEF LiveInv, Beginning, Since
  <2>1. Ahead = 0 /\ ~Beginning(s)
    BY <1>1, <1>4 DEF Ahead, Beginning
  <2>2. /\ dta[s].par_clstr \in 0 .. Tokens - 1 /\ dta[s].dir_entry = Len(listed[s].names)
        /\ host.lists[dta[s].par_clstr] = Entries(listed[s].tmpl)
        /\ listed[s].younger \in Nat /\ listed[s].younger + 0 < Tokens
        /\ Since(dta[s].par_clstr, listed[s].younger + 0)
    BY <1>4, <2>1 DEF Inside, LiveInv
  <2>3. c.op = "FINDFIRST" => listed[s].younger < Tokens - 1
    BY <1>1 DEF Possible
  <2>4. listed[s].younger + (IF c.op = "FINDFIRST" THEN 1 ELSE 0) < Tokens
    BY <2>2, <2>3, MiSTerFSAssumption
  <2> QED
    BY <2>2, <2>4
<1>19. SearchesExact'
  BY <1>1, <1>16 DEF Inside, SearchesExact
<1> QED
  BY <1>5, <1>8, <1>9, <1>12, <1>13, <1>14, <1>15, <1>17, <1>18, <1>19 DEF Inside

LEMMA CallStep == ASSUME Inside, NEW c \in task.calls, Call(c) PROVE Inside'
<1>1. CASE "us" \notin Reached \/ ~Ours(c)
  <2>1. driver' = [Idle EXCEPT !.call = c] /\ UNCHANGED <<sft, dta, ff_token>>
    BY <1>1 DEF Call
  <2>2. driver' = [f \in DriverFields |-> driver'[f]] /\ driver'.pc = 0
    BY <2>1 DEF Idle, DriverFields
  <2> QED
    BY <2>1, <2>2, CallStays
<1>2. CASE Refusal(c) # 0 \/ AsksNothing(c)
  <2> SUFFICES ASSUME "us" \in Reached, Ours(c) PROVE Inside'
    BY <1>1
  <2>1. /\ driver' = [Called(c) EXCEPT !.ax = AtOnce(c).ax, !.cf = AtOnce(c).cf]
        /\ UNCHANGED <<sft, dta, ff_token>>
    BY <1>2 DEF Call
  <2>2. driver' = [f \in DriverFields |-> driver'[f]] /\ driver'.pc = 0
    BY <2>1 DEF Called, Idle, DriverFields
  <2> QED
    BY <2>1, <2>2, CallStays
<1>3. CASE "us" \in Reached /\ Ours(c) /\ Refusal(c) = 0 /\ ~AsksNothing(c)
  <2>1. driver' = [Called(c) EXCEPT !.pc = 1] /\ sft' = Closed(c) /\ UNCHANGED <<dta, ff_token>>
    BY <1>3 DEF Call
  <2> QED
    BY <1>3, <2>1, CallStarts
<1> QED
  BY <1>1, <1>2, <1>3

\* The driver's program, run to install it or to unload it.
LEMMA MainStep == ASSUME Inside, MainFails \/ MainInstalls \/ MainUnloads PROVE Inside'
<1>1. /\ driver.pc = 0 /\ task.programs /\ flag' = Enable /\ ff_token' \in {ff_token, 0}
      /\ UNCHANGED <<task, reply, frame, driver, sft, dta, buffer, host, before, listed>>
  BY DEF MainFails, MainInstalls, MainUnloads, Runs, dos
<1>2. ~Calling /\ ~Calling' /\ op' = op
  BY <1>1 DEF Calling, op
<1>3. HandInv'
  BY <1>1, MiSTerFSAssumption DEF Inside, HandInv, Answered, Enable
<1>4. Shapes'
  BY <1>1, <1>2 DEF Inside, Shapes
<1>5. FileInv'
  BY <1>1, <1>2 DEF Inside, FileInv
<1>6. \A x : Entries(x)' = Entries(x)
  BY <1>1 DEF Entries
<1>7. ff_token' \in 0 .. Tokens - 1
  BY <1>1, MiSTerFSAssumption DEF Inside, ListsInv
<1>8. ListsInv'
  BY <1>1, <1>2, <1>6, <1>7 DEF Inside, ListsInv
<1>9. \A s \in Search : listed'[s].done
  BY <1>1 DEF Inside, ListsInv
<1>10. LiveInv'
  BY <1>9 DEF LiveInv
<1>11. SearchesExact'
  BY <1>1, <1>6 DEF Inside, SearchesExact
<1> QED
  BY <1>1, <1>3, <1>4, <1>5, <1>8, <1>10, <1>11, AtRest DEF Inside

LEMMA SeekStep == ASSUME Inside, Seek PROVE Inside'
<1>1. /\ driver.pc = 0 /\ sft.count > 0
      /\ UNCHANGED <<task, flag, reply, frame, driver, dta, buffer, ff_token, host, before, listed>>
  BY DEF Seek, window
<1>2. PICK pos \in task.seeks : sft' = [sft EXCEPT !.pos = pos]
  BY DEF Seek
<1>3. task \in Tasks /\ sft = [f \in SftFields |-> sft[f]]
  BY DEF Inside, Shapes
<1>4. pos \in Nat /\ pos < MaxSize
  <2>1. task.seeks \subseteq 0 .. MaxSize - 1
    BY <1>3, TaskAssumption
  <2> QED
    BY <2>1, MiSTerFSAssumption
<1>5. /\ sft' = [f \in SftFields |-> sft'[f]] /\ sft'.pos = pos /\ sft'.count = sft.count /\ sft'.size = sft.size
  BY <1>2, <1>3 DEF SftFields
<1>6. ~Calling /\ ~Calling' /\ op' = op
  BY <1>1 DEF Calling, op
<1>7. HandInv'
  BY <1>1 DEF Inside, HandInv, Answered
<1>8. Shapes'
  BY <1>1, <1>4, <1>5, <1>6 DEF Inside, Shapes
<1>9. FileInv'
  BY <1>1, <1>4, <1>5, <1>6 DEF Inside, FileInv
<1>10. ListsInv' /\ LiveInv' /\ SearchesExact'
  BY <1>1, <1>6, ListsRest DEF Inside
<1> QED
  BY <1>1, <1>7, <1>8, <1>9, <1>10, AtRest DEF Inside

LEMMA StartsInside == ASSUME Init PROVE Inside
<1>1. /\ task \in Tasks /\ flag = Enable /\ driver = Idle
      /\ sft = [count |-> 0, mode |-> 0, drive |-> "none", size |-> 0, pos |-> 0]
      /\ dta = [s \in Search |-> NoSearch] /\ ff_token = 0
      /\ host = [seen |-> Special, pc |-> "watch", file |-> task.file, lists |-> [t \in 0 .. Tokens - 1 |-> <<>>]]
      /\ listed = [s \in Search |-> [NothingListed("none") EXCEPT !.done = TRUE]]
  BY DEF Init
<1>2. driver.pc = 0 /\ driver = [f \in DriverFields |-> driver[f]]
  BY <1>1 DEF Idle, DriverFields
<1>3. ~Calling /\ ~Answered /\ ~Asking
  BY <1>2 DEF Calling, Answered, Asking
<1>4. sft = [f \in SftFields |-> sft[f]] /\ sft.pos \in Nat /\ sft.count = 0
  BY <1>1 DEF SftFields
<1>5. /\ host = [f \in HostFields |-> host[f]] /\ host.file = task.file /\ host.pc = "watch"
      /\ host.lists = [t \in 0 .. Tokens - 1 |-> <<>>]
  BY <1>1 DEF HostFields
<1>6. task.file \in Seq(Nat)
  BY <1>1, TaskAssumption
<1>7. Shapes
  BY <1>1, <1>2, <1>3, <1>4, <1>5, <1>6 DEF Shapes
<1>8. HandInv
  BY <1>1, <1>2, <1>3, <1>5, MiSTerFSAssumption DEF HandInv, Enable
<1>9. FrameInv /\ FileInv /\ ReadInv /\ WriteInv /\ OpenInv /\ FindInv
  BY <1>3, <1>4 DEF FrameInv, FileInv, ReadInv, WriteInv, OpenInv, FindInv
<1>10. \A s \in Search : listed[s] = [tmpl |-> "none", names |-> <<>>, done |-> TRUE, failed |-> FALSE, younger |-> 0]
  BY <1>1 DEF NothingListed
<1>11. \A x : Entries(x) \in Seq(STRING)
  BY <1>1, EntriesSeq
<1>12. ListsInv
  <2>1. <<>> \in Seq(STRING) /\ Len(<<>>) = 0
    OBVIOUS
  <2>2. host.lists \in [0 .. Tokens - 1 -> Seq(STRING)]
    BY <1>5, <2>1
  <2>3. \A x : Len(Entries(x)) \in Nat
    BY <1>11, LenProperties
  <2>4. dta = [s \in Search |-> [f \in DtaFields |-> dta[s][f]]]
    BY <1>1 DEF NoSearch, DtaFields
  <2>5. listed = [s \in Search |-> [f \in ListedFields |-> listed[s][f]]]
    BY <1>1, <1>10 DEF ListedFields
  <2>6. \A s \in Search : /\ listed[s].names \in Seq(STRING) /\ listed[s].done = TRUE
                          /\ Len(listed[s].names) <= Len(Entries(listed[s].tmpl))
    <3> TAKE s \in Search
    <3>1. listed[s].names = <<>> /\ listed[s].done = TRUE /\ Len(Entries(listed[s].tmpl)) \in Nat
      BY <1>10, <2>3
    <3> QED
      BY <2>1, <3>1
  <2>7. ff_token \in 0 .. Tokens - 1
    BY <1>1, MiSTerFSAssumption
  <2> QED
    BY <1>3, <2>2, <2>4, <2>5, <2>6, <2>7 DEF ListsInv
<1>13. LiveInv
  BY <1>10 DEF LiveInv
<1>14. SearchesExact
  <2>1. Entries("none") = <<>>
    BY <1>1, TaskAssumption DEF Entries
  <2>2. SubSeq(<<>>, 1, Len(<<>>)) = <<>> /\ Len(<<>>) <= Len(<<>>)
    OBVIOUS
  <2> SUFFICES ASSUME NEW s \in Search
               PROVE  LET all == Entries(listed[s].tmpl)
                      IN  /\ Len(listed[s].names) <= Len(all)
                          /\ listed[s].names = SubSeq(all, 1, Len(listed[s].names))
                          /\ listed[s].done => listed[s].names = all \/ listed[s].failed
    BY DEF SearchesExact
  <2>3. listed[s].tmpl = "none" /\ listed[s].names = <<>>
    BY <1>10
  <2> QED
    BY <2>1, <2>2, <2>3
<1> QED
  BY <1>7, <1>8, <1>9, <1>12, <1>13, <1>14 DEF Inside

LEMMA FsStep == ASSUME Inside, [Next]_vars PROVE Inside'
<1>1. CASE \E c \in task.calls : Call(c)
  BY <1>1, CallStep
<1>2. CASE SendQuery
  <2>1. CASE Spin
    BY <2>1, InsideStays DEF Spin, vars, window, dos
  <2> QED
    BY <1>2, <2>1, FillStep, ArmStep, PostStep, TakeStep DEF SendQuery
<1>3. CASE Host
  BY <1>3, SeesStep, WorksStep, MarksStep DEF Host
<1>4. CASE MainFails \/ MainInstalls \/ MainUnloads
  BY <1>4, MainStep
<1>5. CASE OtherComes \/ OtherLeaves
  BY <1>5, InsideStays DEF OtherComes, OtherLeaves, window, dos
<1>6. CASE Seek
  BY <1>6, SeekStep
<1>7. CASE UNCHANGED vars
  BY <1>7, InsideStays DEF vars, window, dos
<1> QED
  BY <1>1, <1>2, <1>3, <1>4, <1>5, <1>6, <1>7 DEF Next

\* Searches under way at the same time do not get into one another: each is
\* given every entry of its directory once, in order, and is told there are no
\* more when it has had them all.  The host knows a search by its token, and
\* hands no token out again while a search with it goes on (glob_ff_token, and
\* the place kept in the program's own DTA by FINDFIRST and FINDNEXT).
THEOREM FsSearchesExact == Spec => []SearchesExact
<1>1. Inside => SearchesExact
  BY DEF Inside
<1> QED
  BY <1>1, StartsInside, FsStep, PTL DEF Spec

\* However the host answers, a transfer in chunks is the one DOS asked for: a
\* read gives the bytes from where the file stood, as many as there are, a
\* write changes no other byte than those the position has moved by, and the
\* size in the file table stays that of the file (READFIL and WRITEFIL of
\* process2f, with the mark that tells an answer from the one before).
THEOREM FsFilesExact == Spec => FilesExact
<1>1. ASSUME Inside, [Next]_vars
      PROVE  [(Returns("READFIL") => ReadExact) /\ (Returns("WRITEFIL") => WriteExact)]_vars
  <2>1. CASE TakeAnswer
    BY <1>1, <2>1, TakeStep
  <2>2. CASE ~TakeAnswer
    <3>1. CASE UNCHANGED vars
      BY <3>1
    <3>2. CASE Next
      <4>1. driver.pc = 4 => driver'.pc # 0
        <5> SUFFICES ASSUME driver.pc = 4 PROVE driver'.pc # 0
          OBVIOUS
        <5>1. CASE SendQuery
          <6>1. ~FillFrame /\ ~Arm /\ ~Post
            BY AtIs DEF FillFrame, Arm, Post
          <6> QED
            BY <2>2, <5>1, <6>1 DEF SendQuery, Spin, vars
        <5>2. CASE Host
          <6>1. HostWorks => driver' = driver
            BY DEF HostWorks
          <6>2. HostSees \/ HostMarks => driver' = driver
            BY DEF HostSees, HostMarks
          <6> QED
            BY <5>2, <6>1, <6>2 DEF Host
        <5>3. ~(\E c \in task.calls : Call(c)) /\ ~Seek /\ ~OtherComes /\ ~OtherLeaves
          BY DEF Call, Seek, OtherComes, OtherLeaves
        <5>4. ~MainFails /\ ~MainInstalls /\ ~MainUnloads
          BY DEF MainFails, MainInstalls, MainUnloads, Runs
        <5> QED
          BY <3>2, <5>1, <5>2, <5>3, <5>4 DEF Next
      <4> QED
        BY <4>1, AtIs DEF Returns
    <3> QED
      BY <1>1, <3>1, <3>2
  <2> QED
    BY <2>1, <2>2
<1> QED
  BY <1>1, StartsInside, FsStep, PTL DEF Spec, FilesExact
=============================================================================
