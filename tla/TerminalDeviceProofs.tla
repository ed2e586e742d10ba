------------------------ MODULE TerminalDeviceProofs ------------------------
(***************************************************************************)
(* The lines of the terminal are well formed, its queue holds exactly the  *)
(* blocked readers and raw input wakes them, for every set of readers and  *)
(* keys and every number of waiting characters.                            *)
(***************************************************************************)
EXTENDS TerminalDevice, FiniteSetTheorems, SequenceTheorems, TLAPS

Character == Keys \ {Backspace}

(* TypeOK's conjunct on lines, which are a sequence of sequences.          *)
LinesAreFormed(ls) ==
  /\ ls \in Seq(Seq(Character))
  /\ \A k \in 1..Len(ls) :
       /\ k < Len(ls) => ls[k] # <<>>
       /\ \A i \in 1..Len(ls[k]) : ls[k][i] = NewLine <=> k < Len(ls) /\ i = Len(ls[k])

Request == [pid : Readers, requestedCount : Counts]
Reader == [state : {"user", "blocked", "woken"}, count : Counts \cup {0}]

Types ==
  /\ rawBuffer \in Seq(Keys)
  /\ unblockQueue \in Seq(Request)
  /\ canonical \in BOOLEAN
  /\ reader \in [Readers -> Reader]

(* Each request of the queue is that of a blocked reader, which has only   *)
(* this one and waits for something.                                       *)
Queue(q, r) ==
  /\ \A i, j \in 1..Len(q) : i # j => q[i].pid # q[j].pid
  /\ \A i \in 1..Len(q) :
       /\ r[q[i].pid].state = "blocked" /\ r[q[i].pid].count = q[i].requestedCount
       /\ q[i].requestedCount > 0
  /\ \A t \in Readers : r[t].state = "blocked" => \E i \in 1..Len(q) : q[i].pid = t

TInv == LinesAreFormed(lines) /\ Types /\ Queue(unblockQueue, reader)

-----------------------------------------------------------------------------
(* Lines                                                                   *)

(* A line from which a reader took the front keeps its newline at the end. *)
LEMMA FrontTaken ==
  ASSUME NEW ls, LinesAreFormed(ls), ls # <<>>, NEW n \in 0..Len(ls[1])
  PROVE  LET rest == SubSeq(ls[1], n + 1, Len(ls[1])) IN
           LinesAreFormed(IF rest = <<>> THEN Tail(ls) ELSE [ls EXCEPT ![1] = rest])
<1> DEFINE line == ls[1]
           rest == SubSeq(line, n + 1, Len(line))
<1>1. ls \in Seq(Seq(Character)) /\ Len(ls) \in Nat \ {0} /\ line \in Seq(Character)
  BY DEF LinesAreFormed
<1>2. /\ rest \in Seq(Character) /\ Len(rest) = Len(line) - n
      /\ \A i \in 1..Len(rest) : rest[i] = line[n + i]
  <2> HIDE DEF line
  <2>1. QED
    BY <1>1 DEF line
<1>3. CASE rest = <<>>
  <2>1. Tail(ls) \in Seq(Seq(Character)) /\ Len(Tail(ls)) = Len(ls) - 1
        /\ \A k \in 1..Len(Tail(ls)) : Tail(ls)[k] = ls[k + 1]
    BY Zenon, <1>1, HeadTailProperties
  <2>2. \A k \in 1..Len(Tail(ls)) : k + 1 \in 1..Len(ls) /\ (k < Len(Tail(ls)) <=> k + 1 < Len(ls))
    BY <1>1, <2>1
  <2>3. LinesAreFormed(Tail(ls))
    BY <2>1, <2>2 DEF LinesAreFormed
  <2>4. QED
    BY Zenon, <1>3, <2>3
<1>4. CASE rest # <<>>
  <2>1. PICK m : m = [ls EXCEPT ![1] = rest]
    BY Zenon
  <2>2. m \in Seq(Seq(Character)) /\ Len(m) = Len(ls) /\ m[1] = rest
        /\ \A k \in 2..Len(ls) : m[k] = ls[k]
    <3> HIDE DEF rest
    <3>1. QED
      BY <1>1, <1>2, <2>1, ExceptSeq
  <2>3. \A i \in 1..Len(rest) : n + i \in 1..Len(line) /\ (i = Len(rest) <=> n + i = Len(line))
    BY <1>1, <1>2
  <2>4. \A i \in 1..Len(line) : line[i] = NewLine <=> 1 < Len(ls) /\ i = Len(line)
    BY <1>1 DEF LinesAreFormed
  <2>5. \A i \in 1..Len(rest) : rest[i] = NewLine <=> 1 < Len(ls) /\ i = Len(rest)
    BY Zenon, <1>2, <2>3, <2>4
  <2>6. LinesAreFormed(m)
    <3> HIDE DEF rest, line
    <3>1. ASSUME NEW k \in 1..Len(m)
          PROVE  /\ k < Len(m) => m[k] # <<>>
                 /\ \A i \in 1..Len(m[k]) : m[k][i] = NewLine <=> k < Len(m) /\ i = Len(m[k])
      <4>1. CASE k = 1
        BY Zenon, <1>4, <2>2, <2>5, <4>1
      <4>2. CASE k # 1
        <5>1. k \in 2..Len(ls) /\ m[k] = ls[k]
          BY <1>1, <2>2, <4>2
        <5>2. QED
          BY Zenon, <2>2, <5>1 DEF LinesAreFormed
      <4>3. QED
        BY Zenon, <4>1, <4>2
    <3>2. QED
      BY Zenon, <2>2, <3>1 DEF LinesAreFormed
  <2>7. QED
    BY Zenon, <1>4, <2>1, <2>6
<1>5. QED
  BY Zenon, <1>3, <1>4

(* The unfinished line is replaced by one without a newline.               *)
LEMMA LastReplaced ==
  ASSUME NEW ls, LinesAreFormed(ls), ls # <<>>, NEW line \in Seq(Character),
         \A i \in 1..Len(line) : line[i] # NewLine
  PROVE  LinesAreFormed([ls EXCEPT ![Len(ls)] = line])
<1>1. ls \in Seq(Seq(Character)) /\ Len(ls) \in Nat \ {0}
  BY DEF LinesAreFormed
<1>2. PICK m : m = [ls EXCEPT ![Len(ls)] = line]
  BY Zenon
<1>3. m \in Seq(Seq(Character)) /\ Len(m) = Len(ls) /\ m[Len(ls)] = line
      /\ \A k \in 1..Len(ls) : k # Len(ls) => m[k] = ls[k]
  BY <1>1, <1>2, ExceptSeq
<1>4. ASSUME NEW k \in 1..Len(m)
      PROVE  /\ k < Len(m) => m[k] # <<>>
             /\ \A i \in 1..Len(m[k]) : m[k][i] = NewLine <=> k < Len(m) /\ i = Len(m[k])
  <2>1. CASE k = Len(ls)
    BY <1>1, <1>3, <2>1
  <2>2. CASE k # Len(ls)
    <3>1. k \in 1..Len(ls) /\ m[k] = ls[k]
      BY Zenon, <1>3, <2>2
    <3>2. QED
      BY <1>3, <3>1 DEF LinesAreFormed
  <2>3. QED
    BY Zenon, <2>1, <2>2
<1>5. QED
  BY Zenon, <1>2, <1>3, <1>4 DEF LinesAreFormed

(* A newline ends the last line and opens an empty one.                    *)
LEMMA LastEnded ==
  ASSUME NEW ls, LinesAreFormed(ls), ls # <<>>, NEW line \in Seq(Character), line # <<>>,
         \A i \in 1..Len(line) : line[i] = NewLine <=> i = Len(line)
  PROVE  LinesAreFormed(Append([ls EXCEPT ![Len(ls)] = line], <<>>))
<1>1. ls \in Seq(Seq(Character)) /\ Len(ls) \in Nat \ {0}
  BY DEF LinesAreFormed
<1>2. PICK m : m = [ls EXCEPT ![Len(ls)] = line]
  BY Zenon
<1>3. m \in Seq(Seq(Character)) /\ Len(m) = Len(ls) /\ m[Len(ls)] = line
      /\ \A k \in 1..Len(ls) : k # Len(ls) => m[k] = ls[k]
  BY <1>1, <1>2, ExceptSeq
<1>4. PICK a : a = Append(m, <<>>)
  BY Zenon
<1>5. a \in Seq(Seq(Character)) /\ Len(a) = Len(ls) + 1 /\ a[Len(ls) + 1] = <<>>
      /\ \A k \in 1..Len(ls) : a[k] = m[k]
  <2>1. <<>> \in Seq(Character)
    OBVIOUS
  <2>2. QED
    BY <1>3, <1>4, <2>1, AppendProperties
<1>6. ASSUME NEW k \in 1..Len(a)
      PROVE  /\ k < Len(a) => a[k] # <<>>
             /\ \A i \in 1..Len(a[k]) : a[k][i] = NewLine <=> k < Len(a) /\ i = Len(a[k])
  <2>1. CASE k = Len(ls) + 1
    BY SMTT(30), <1>1, <1>5, <2>1
  <2>2. CASE k = Len(ls)
    <3>1. k \in 1..Len(ls) /\ k < Len(a)
      BY <1>1, <1>5, <2>2
    <3>2. a[k] = line
      BY Zenon, <1>3, <1>5, <2>2, <3>1
    <3>3. QED
      BY Zenon, <3>1, <3>2
  <2>3. CASE k # Len(ls) /\ k # Len(ls) + 1
    <3>1. k \in 1..Len(ls) /\ k < Len(ls) /\ k < Len(a)
      BY SMTT(30), <1>1, <1>5, <2>3
    <3>2. a[k] = ls[k]
      BY Zenon, <1>3, <1>5, <2>3, <3>1
    <3>3. /\ ls[k] # <<>>
          /\ \A i \in 1..Len(ls[k]) : ls[k][i] = NewLine <=> i = Len(ls[k])
      BY Zenon, <3>1 DEF LinesAreFormed
    <3>4. QED
      BY Zenon, <3>1, <3>2, <3>3
  <2>4. QED
    BY Zenon, <2>1, <2>2, <2>3
<1>7. QED
  BY <1>2, <1>4, <1>5, <1>6 DEF LinesAreFormed

(* A key in canonical mode, newline or not, also when all lines were read. *)
LEMMA KeyTyped ==
  ASSUME NEW ls, LinesAreFormed(ls), NEW c \in Character
  PROVE  LET open == IF ls = <<>> THEN << <<>> >> ELSE ls
             typed == [open EXCEPT ![Len(open)] = Append(@, c)]
         IN LinesAreFormed(IF c = NewLine THEN Append(typed, <<>>) ELSE typed)
<1>1. PICK open : open = IF ls = <<>> THEN << <<>> >> ELSE ls
  BY Zenon
<1>2. LinesAreFormed(open) /\ open # <<>>
  <2>1. CASE ls = <<>>
    <3>1. open = << <<>> >> /\ Len(open) = 1 /\ open[1] = <<>> /\ open # <<>>
      BY Zenon, <1>1, <2>1
    <3>2. open \in Seq(Seq(Character))
      BY <1>1, <2>1
    <3>3. QED
      BY <3>1, <3>2 DEF LinesAreFormed
  <2>2. CASE ls # <<>>
    BY Zenon, <1>1, <2>2
  <2>3. QED
    BY Zenon, <2>1, <2>2
<1>3. open \in Seq(Seq(Character)) /\ Len(open) \in Nat \ {0}
  BY <1>2 DEF LinesAreFormed
<1>4. PICK last : last = open[Len(open)]
  BY Zenon
<1>5. last \in Seq(Character) /\ \A i \in 1..Len(last) : last[i] # NewLine
  BY <1>2, <1>3, <1>4 DEF LinesAreFormed
<1>6. PICK line : line = Append(last, c)
  BY Zenon
<1>7. line \in Seq(Character) /\ line # <<>> /\ Len(line) = Len(last) + 1
      /\ line[Len(line)] = c /\ \A i \in 1..Len(last) : line[i] = last[i]
  BY <1>5, <1>6, AppendProperties
<1>8. [open EXCEPT ![Len(open)] = Append(@, c)] = [open EXCEPT ![Len(open)] = line]
  BY Zenon, <1>4, <1>6
<1>9. CASE c = NewLine
  <2>1. \A i \in 1..Len(line) : line[i] = NewLine <=> i = Len(line)
    BY <1>5, <1>7, <1>9
  <2>2. LinesAreFormed(Append([open EXCEPT ![Len(open)] = line], <<>>))
    BY Zenon, <1>2, <1>7, <2>1, LastEnded
  <2>3. QED
    BY Zenon, <1>1, <1>8, <1>9, <2>2
<1>10. CASE c # NewLine
  <2>1. \A i \in 1..Len(line) : line[i] # NewLine
    BY <1>5, <1>7, <1>10
  <2>2. LinesAreFormed([open EXCEPT ![Len(open)] = line])
    BY Zenon, <1>2, <1>7, <2>1, LastReplaced
  <2>3. QED
    BY Zenon, <1>1, <1>8, <1>10, <2>2
<1>11. QED
  BY Zenon, <1>9, <1>10

(* A backspace shortens the unfinished line.                               *)
LEMMA LastErased ==
  ASSUME NEW ls, LinesAreFormed(ls), ls # <<>>
  PROVE  LinesAreFormed([ls EXCEPT ![Len(ls)] = SubSeq(@, 1, Len(@) - 1)])
<1>1. PICK last : last = ls[Len(ls)]
  BY Zenon
<1>2. last \in Seq(Character) /\ \A i \in 1..Len(last) : last[i] # NewLine
  BY <1>1 DEF LinesAreFormed
<1>3. PICK line : line = SubSeq(last, 1, Len(last) - 1)
  BY Zenon
<1>4. line \in Seq(Character) /\ \A i \in 1..Len(line) : line[i] # NewLine
  BY <1>2, <1>3
<1>5. QED
  BY Zenon, <1>1, <1>3, <1>4, LastReplaced

-----------------------------------------------------------------------------
(* The queue of readers                                                    *)

(* A request as a record.                                                  *)
LEMMA RequestProperties ==
  ASSUME NEW q \in Seq(Request), NEW i \in 1..Len(q)
  PROVE  q[i].pid \in Readers /\ q[i].requestedCount \in Counts
<1>1. q[i] \in Request
  OBVIOUS
<1>2. QED
  BY Zenon, <1>1 DEF Request

(* A reader that is not blocked is in no request.                          *)
LEMMA ReaderFreed ==
  ASSUME NEW q \in Seq(Request), NEW r \in [Readers -> Reader], Queue(q, r),
         NEW t \in Readers, r[t].state # "blocked"
  PROVE  Queue(q, [r EXCEPT ![t] = User]) /\ [r EXCEPT ![t] = User] \in [Readers -> Reader]
<1>1. PICK s : s = [r EXCEPT ![t] = User]
  BY Zenon
<1>2. User \in Reader /\ User.state # "blocked"
  BY Zenon DEF User, Reader
<1>3. s \in [Readers -> Reader] /\ s[t] = User /\ \A u \in Readers : u # t => s[u] = r[u]
  BY Zenon, <1>1, <1>2
<1>4. \A i \in 1..Len(q) : q[i].pid \in Readers /\ q[i].pid # t
  BY Zenon, RequestProperties DEF Queue
<1>5. \A i \in 1..Len(q) :
        /\ s[q[i].pid].state = "blocked" /\ s[q[i].pid].count = q[i].requestedCount
        /\ q[i].requestedCount > 0
  BY <1>3, <1>4 DEF Queue
<1>6. \A u \in Readers : s[u].state = "blocked" => \E i \in 1..Len(q) : q[i].pid = u
  BY Zenon, <1>2, <1>3 DEF Queue
<1>7. QED
  BY Zenon, <1>1, <1>3, <1>5, <1>6 DEF Queue

(* A reader that blocks is put at the end of the queue.                    *)
LEMMA RequestQueued ==
  ASSUME NEW q \in Seq(Request), NEW r \in [Readers -> Reader], Queue(q, r),
         NEW t \in Readers, r[t].state # "blocked", NEW count \in Counts, count > 0
  PROVE  LET a == Append(q, [pid |-> t, requestedCount |-> count])
             s == [r EXCEPT ![t] = [state |-> "blocked", count |-> count]]
         IN a \in Seq(Request) /\ s \in [Readers -> Reader] /\ Queue(a, s)
<1>0. PICK e : e = [pid |-> t, requestedCount |-> count]
  BY Zenon
<1>1. e \in Request /\ e.pid = t /\ e.requestedCount = count
  BY Zenon, <1>0 DEF Request
<1>2. PICK a : a = Append(q, e)
  BY Zenon
<1>3. /\ a \in Seq(Request) /\ Len(a) = Len(q) + 1 /\ Len(q) \in Nat
      /\ a[Len(q) + 1] = e /\ \A i \in 1..Len(q) : a[i] = q[i]
  BY <1>1, <1>2, AppendProperties
<1>4. \A i \in 1..Len(a) : i = Len(q) + 1 \/ i \in 1..Len(q)
  BY <1>3
<1>5. PICK b : b = [state |-> "blocked", count |-> count]
  BY Zenon
<1>6. b \in Reader /\ b.state = "blocked"
  BY Zenon, <1>5 DEF Reader
<1>7. PICK s : s = [r EXCEPT ![t] = b]
  BY Zenon
<1>8. s \in [Readers -> Reader] /\ s[t] = b /\ \A u \in Readers : u # t => s[u] = r[u]
  BY Zenon, <1>6, <1>7
<1>9. \A i \in 1..Len(q) : q[i].pid \in Readers /\ q[i].pid # t
  BY Zenon, RequestProperties DEF Queue
<1>10. \A i, j \in 1..Len(a) : i # j => a[i].pid # a[j].pid
  BY SMTT(30), <1>1, <1>3, <1>4, <1>9 DEF Queue
<1>11. ASSUME NEW i \in 1..Len(a)
       PROVE  /\ s[a[i].pid].state = "blocked" /\ s[a[i].pid].count = a[i].requestedCount
              /\ a[i].requestedCount > 0
  <2>1. CASE i = Len(q) + 1
    BY SMTT(30), <1>1, <1>3, <1>5, <1>8, <2>1
  <2>2. CASE i \in 1..Len(q)
    BY <1>3, <1>8, <1>9, <2>2 DEF Queue
  <2>3. QED
    BY Zenon, <1>4, <2>1, <2>2
<1>12. ASSUME NEW u \in Readers, s[u].state = "blocked"
       PROVE  \E i \in 1..Len(a) : a[i].pid = u
  <2>1. CASE u = t
    BY <1>1, <1>3, <2>1
  <2>2. CASE u # t
    <3>1. PICK i \in 1..Len(q) : q[i].pid = u
      BY Zenon, <1>8, <1>12, <2>2 DEF Queue
    <3>2. i \in 1..Len(a) /\ a[i].pid = u
      BY SMTT(30), <1>3, <3>1
    <3>3. QED
      BY Zenon, <3>2
  <2>3. QED
    BY Zenon, <2>1, <2>2
<1>13. Queue(a, s)
  BY Zenon, <1>10, <1>11, <1>12 DEF Queue
<1>14. QED
  BY <1>0, <1>2, <1>3, <1>5, <1>7, <1>8, <1>13

(* The first reader of the queue is woken.                                 *)
LEMMA FirstWoken ==
  ASSUME NEW q \in Seq(Request), NEW r \in [Readers -> Reader], Queue(q, r), q # <<>>
  PROVE  LET s == [r EXCEPT ![q[1].pid].state = "woken"] IN
           /\ Tail(q) \in Seq(Request) /\ s \in [Readers -> Reader] /\ Queue(Tail(q), s)
           /\ q[1].pid \in Readers /\ r[q[1].pid].state = "blocked"
           /\ r[q[1].pid].count = q[1].requestedCount
<1>0. Len(q) \in Nat \ {0} /\ 1 \in 1..Len(q)
  OBVIOUS
<1>1. PICK t : t = q[1].pid
  BY Zenon
<1>2. t \in Readers /\ r[t].state = "blocked" /\ r[t].count = q[1].requestedCount
  BY Zenon, <1>0, <1>1, RequestProperties DEF Queue
<1>3. PICK a : a = Tail(q)
  BY Zenon
<1>4. /\ a \in Seq(Request) /\ Len(a) = Len(q) - 1
      /\ \A i \in 1..Len(a) : a[i] = q[i + 1]
  BY Zenon, <1>3, HeadTailProperties
<1>5. \A i \in 1..Len(a) : i + 1 \in 1..Len(q) /\ i + 1 # 1
  BY <1>0, <1>4
<1>6. PICK s : s = [r EXCEPT ![t].state = "woken"]
  BY Zenon
<1>7. s \in [Readers -> Reader] /\ s[t].state = "woken" /\ \A u \in Readers : u # t => s[u] = r[u]
  BY Zenon, <1>2, <1>6 DEF Reader
<1>8. ASSUME NEW i \in 1..Len(a)
      PROVE  a[i].pid \in Readers /\ a[i].pid # t
  <2>1. i + 1 \in 1..Len(q) /\ i + 1 # 1 /\ a[i] = q[i + 1]
    BY Zenon, <1>4, <1>5
  <2>2. q[i + 1].pid # q[1].pid
    BY Zenon, <1>0, <2>1 DEF Queue
  <2>3. QED
    BY Zenon, <1>1, <2>1, <2>2, RequestProperties
<1>9. ASSUME NEW i \in 1..Len(a), NEW j \in 1..Len(a), i # j
      PROVE  a[i].pid # a[j].pid
  <2>1. i + 1 \in 1..Len(q) /\ j + 1 \in 1..Len(q) /\ i + 1 # j + 1
    BY <1>5, <1>9
  <2>2. q[i + 1].pid # q[j + 1].pid
    BY Zenon, <2>1 DEF Queue
  <2>3. QED
    BY Zenon, <1>4, <2>2
<1>10. ASSUME NEW i \in 1..Len(a)
       PROVE  /\ s[a[i].pid].state = "blocked" /\ s[a[i].pid].count = a[i].requestedCount
              /\ a[i].requestedCount > 0
  <2>1. i + 1 \in 1..Len(q) /\ a[i] = q[i + 1] /\ s[a[i].pid] = r[a[i].pid]
    BY Zenon, <1>4, <1>5, <1>7, <1>8
  <2>2. QED
    BY <2>1 DEF Queue
<1>11. ASSUME NEW u \in Readers, s[u].state = "blocked"
       PROVE  \E i \in 1..Len(a) : a[i].pid = u
  <2>1. u # t /\ r[u].state = "blocked"
    BY Zenon, <1>7, <1>11
  <2>2. PICK i \in 1..Len(q) : q[i].pid = u
    BY Zenon, <2>1 DEF Queue
  <2>3. i # 1 /\ i - 1 \in 1..Len(a) /\ (i - 1) + 1 = i
    BY SMTT(30), <1>0, <1>1, <1>4, <2>1, <2>2
  <2>4. a[i - 1] = q[i]
    BY Zenon, <1>4, <2>3
  <2>5. QED
    BY Zenon, <2>2, <2>3, <2>4
<1>12. Queue(a, s)
  BY Zenon, <1>9, <1>10, <1>11 DEF Queue
<1>13. QED
  BY SMTT(30), <1>1, <1>2, <1>3, <1>4, <1>6, <1>7, <1>12

-----------------------------------------------------------------------------
(* The operations of the terminal keep TInv.                               *)

(* Requested counts are natural numbers.                                   *)
LEMMA ReaderProperties ==
  ASSUME TInv, NEW t \in Readers
  PROVE  /\ reader[t] \in Reader /\ reader[t].count \in Nat
         /\ reader[t].state \in {"user", "blocked", "woken"}
<1>1. reader[t] \in Reader
  BY Zenon DEF TInv, Types
<1>2. reader[t].count \in Counts \cup {0} /\ reader[t].state \in {"user", "blocked", "woken"}
  BY Zenon, <1>1 DEF Reader
<1>3. Counts \cup {0} \subseteq Nat
  BY TerminalAssumption
<1>4. QED
  BY Zenon, <1>1, <1>2, <1>3

(* Read takes at most what there is, and no more than it was asked for.    *)
LEMMA ConsumeKeepsTInv ==
  ASSUME TInv, NEW t \in Readers, reader[t].state # "blocked", NEW count \in Nat,
         Consume(t, count)
  PROVE  TInv'
<1>1. PICK n : n = IF count <= Len(Source) THEN count ELSE Len(Source)
  BY Zenon
<1>2. PICK rest : rest = SubSeq(Source, n + 1, Len(Source))
  BY Zenon
<1>3. /\ ~NoLine
      /\ IF canonical
         THEN /\ lines' = IF rest = <<>> THEN Tail(lines) ELSE [lines EXCEPT ![1] = rest]
              /\ UNCHANGED rawBuffer
         ELSE rawBuffer' = rest /\ UNCHANGED lines
      /\ reader' = [reader EXCEPT ![t] = User]
      /\ UNCHANGED <<unblockQueue, canonical>>
  BY Zenon, <1>1, <1>2 DEF Consume, Rest
<1>4. LinesAreFormed(lines) /\ Types /\ Queue(unblockQueue, reader)
  BY Zenon DEF TInv
<1>5. Queue(unblockQueue, reader') /\ reader' \in [Readers -> Reader]
  BY Zenon, <1>3, <1>4, ReaderFreed DEF Types
<1>6. CASE canonical
  <2>1. lines # <<>> /\ Source = lines[1]
    BY Zenon, <1>3, <1>6 DEF NoLine, Source
  <2>2. lines[1] \in Seq(Character)
    BY <1>4, <2>1 DEF LinesAreFormed
  <2>3. n \in 0..Len(lines[1])
    BY <1>1, <2>1, <2>2
  <2>4. LinesAreFormed(lines')
    <3>1. rest = SubSeq(lines[1], n + 1, Len(lines[1]))
      BY Zenon, <1>2, <2>1
    <3>2. LinesAreFormed(IF rest = <<>> THEN Tail(lines) ELSE [lines EXCEPT ![1] = rest])
      BY Zenon, <1>4, <2>1, <2>3, <3>1, FrontTaken
    <3>3. QED
      BY Zenon, <1>3, <1>6, <3>2
  <2>5. QED
    BY Zenon, <1>3, <1>4, <1>5, <1>6, <2>4 DEF TInv, Types
<1>7. CASE ~canonical
  <2>1. Source = rawBuffer /\ rawBuffer \in Seq(Keys)
    BY Zenon, <1>4, <1>7 DEF Source, Types
  <2>2. n \in 0..Len(rawBuffer)
    BY <1>1, <2>1
  <2>3. rest \in Seq(Keys)
    BY <1>2, <2>1, <2>2
  <2>4. QED
    BY Zenon, <1>3, <1>4, <1>5, <1>7, <2>3 DEF TInv, Types
<1>8. QED
  BY Zenon, <1>6, <1>7

(* A Read of more than there is blocks, and asked for something.           *)
LEMMA ReadBlocksKeepsTInv ==
  ASSUME TInv, NEW t \in Readers, NEW count \in Counts, ReadBlocks(t, count)
  PROVE  TInv'
<1>1. /\ reader[t].state = "user" /\ ~NoLine /\ count > Len(Source)
      /\ unblockQueue' = Append(unblockQueue, [pid |-> t, requestedCount |-> count])
      /\ reader' = [reader EXCEPT ![t] = [state |-> "blocked", count |-> count]]
      /\ UNCHANGED <<lines, rawBuffer, canonical>>
  BY Zenon DEF ReadBlocks
<1>2. LinesAreFormed(lines) /\ Types /\ Queue(unblockQueue, reader)
  BY Zenon DEF TInv
<1>3. Len(Source) \in Nat
  <2>1. CASE canonical
    BY <1>1, <1>2, <2>1 DEF NoLine, Source, LinesAreFormed
  <2>2. CASE ~canonical
    BY <1>2, <2>2 DEF Source, Types
  <2>3. QED
    BY Zenon, <2>1, <2>2
<1>4. count > 0
  BY <1>1, <1>3, TerminalAssumption
<1>5. /\ unblockQueue' \in Seq(Request) /\ reader' \in [Readers -> Reader]
      /\ Queue(unblockQueue', reader')
  BY Zenon, <1>1, <1>2, <1>4, RequestQueued DEF Types
<1>6. QED
  BY Zenon, <1>1, <1>2, <1>5 DEF TInv, Types

(* Unsuspend takes the first reader out of the queue.                      *)
LEMMA WakeKeepsQueue ==
  ASSUME TInv, NEW wakes, wakes => unblockQueue # <<>>, Wake(wakes)
  PROVE  /\ unblockQueue' \in Seq(Request) /\ reader' \in [Readers -> Reader]
         /\ Queue(unblockQueue', reader')
<1>1. /\ unblockQueue \in Seq(Request) /\ reader \in [Readers -> Reader]
      /\ Queue(unblockQueue, reader)
  BY Zenon DEF TInv, Types
<1>2. CASE wakes
  <2>1. /\ unblockQueue' = Tail(unblockQueue) /\ unblockQueue # <<>>
        /\ reader' = [reader EXCEPT ![unblockQueue[1].pid].state = "woken"]
    BY Zenon, <1>2 DEF Wake, UnblockQueueAfterWake
  <2>2. QED
    BY Zenon, <1>1, <2>1, FirstWoken
<1>3. CASE ~wakes
  <2>1. unblockQueue' = unblockQueue /\ reader' = reader
    BY Zenon, <1>3 DEF Wake
  <2>2. QED
    BY Zenon, <1>1, <2>1
<1>4. QED
  BY Zenon, <1>2, <1>3

(* A key edits the unfinished line, or is appended to the raw buffer.      *)
LEMMA KeyboardInputKeepsTInv ==
  ASSUME TInv, NEW c \in Keys, KeyboardInput(c)
  PROVE  TInv'
<1>1. LinesAreFormed(lines) /\ Types /\ Queue(unblockQueue, reader)
  BY Zenon DEF TInv
<1>2. CASE EraseLast
  <2>1. UNCHANGED <<rawBuffer, unblockQueue, canonical, reader>>
    BY Zenon, <1>2 DEF EraseLast
  <2>2. LinesAreFormed(lines')
    <3>1. CASE CanErase
      <4>1. lines # <<>> /\ lines' = [lines EXCEPT ![Len(lines)] = SubSeq(@, 1, Len(@) - 1)]
        BY Zenon, <1>2, <3>1 DEF EraseLast, CanErase
      <4>2. QED
        BY Zenon, <1>1, <4>1, LastErased
    <3>2. CASE ~CanErase
      BY Zenon, <1>1, <1>2, <3>2 DEF EraseLast
    <3>3. QED
      BY Zenon, <3>1, <3>2
  <2>3. QED
    BY Zenon, <1>1, <2>1, <2>2 DEF TInv, Types
<1>3. CASE c # Backspace /\ TypeCanonical(c)
  <2>1. c \in Character
    BY Zenon, <1>3 DEF Character
  <2>2. PICK open : open = IF lines = <<>> THEN << <<>> >> ELSE lines
    BY Zenon
  <2>3. PICK typed : typed = [open EXCEPT ![Len(open)] = Append(@, c)]
    BY Zenon
  <2>4. /\ lines' = IF c = NewLine THEN Append(typed, <<>>) ELSE typed
        /\ Wake(c # NewLine /\ Wakes(c, Len(typed[Len(typed)])))
        /\ UNCHANGED <<rawBuffer, canonical>>
    BY Zenon, <1>3, <2>2, <2>3 DEF TypeCanonical
  <2>5. LinesAreFormed(lines')
    BY Zenon, <1>1, <2>1, <2>2, <2>3, <2>4, KeyTyped
  <2>6. Wakes(c, Len(typed[Len(typed)])) => unblockQueue # <<>>
    BY Zenon DEF Wakes
  <2>7. /\ unblockQueue' \in Seq(Request) /\ reader' \in [Readers -> Reader]
        /\ Queue(unblockQueue', reader')
    BY Zenon, <2>4, <2>6, WakeKeepsQueue
  <2>8. QED
    BY Zenon, <1>1, <2>4, <2>5, <2>7 DEF TInv, Types
<1>4. CASE TypeRaw(c)
  <2>1. /\ rawBuffer' = Append(rawBuffer, c) /\ UNCHANGED <<lines, canonical>>
        /\ Wake(Wakes(c, Len(rawBuffer')))
    BY Zenon, <1>4 DEF TypeRaw
  <2>2. rawBuffer' \in Seq(Keys)
    BY Zenon, <1>1, <2>1, AppendProperties DEF Types
  <2>3. Wakes(c, Len(rawBuffer')) => unblockQueue # <<>>
    BY Zenon DEF Wakes
  <2>4. /\ unblockQueue' \in Seq(Request) /\ reader' \in [Readers -> Reader]
        /\ Queue(unblockQueue', reader')
    BY Zenon, <2>1, <2>3, WakeKeepsQueue
  <2>5. QED
    BY Zenon, <1>1, <2>1, <2>2, <2>4 DEF TInv, Types
<1>5. QED
  BY Zenon, <1>2, <1>3, <1>4 DEF KeyboardInput

(* The constructor leaves one empty line, no request and no reader.        *)
LEMMA InitTInv == Init => TInv
<1> SUFFICES ASSUME Init PROVE TInv
  BY Zenon
<1>1. LinesAreFormed(lines)
  <2>1. lines = << <<>> >>
    BY Zenon DEF Init
  <2>2. lines \in Seq(Seq(Character)) /\ Len(lines) = 1 /\ lines[1] = <<>>
    BY <2>1
  <2>3. QED
    BY <2>2 DEF LinesAreFormed
<1>2. User \in Reader /\ User.state = "user"
  BY Zenon DEF User, Reader
<1>3. Types
  BY <1>2, TerminalAssumption DEF Init, Types
<1>4. Queue(unblockQueue, reader)
  BY <1>2 DEF Init, Queue
<1>5. QED
  BY Zenon, <1>1, <1>3, <1>4 DEF TInv

(* Every read, key and change of mode keeps TInv.                          *)
LEMMA NextKeepsTInv == TInv /\ [Next]_vars => TInv'
<1> SUFFICES ASSUME TInv, [Next]_vars PROVE TInv'
  BY Zenon
<1>1. ASSUME UNCHANGED <<lines, rawBuffer, unblockQueue, reader>>, canonical' \in BOOLEAN
      PROVE  TInv'
  BY Zenon, <1>1 DEF TInv, Types
<1>2. CASE UNCHANGED vars
  BY Zenon, <1>1, <1>2 DEF vars, TInv, Types
<1>3. ASSUME NEW t \in Readers, ReadPanics(t) PROVE TInv'
  BY Zenon, <1>1, <1>3 DEF ReadPanics, TInv, Types
<1>4. ASSUME NEW t \in Readers, ReadResumes(t) PROVE TInv'
  <2>1. reader[t].state # "blocked" /\ reader[t].count \in Nat /\ Consume(t, reader[t].count)
    BY Zenon, <1>4, ReaderProperties DEF ReadResumes
  <2>2. PICK count \in Nat : count = reader[t].count
    BY Zenon, <2>1
  <2>3. QED
    BY Zenon, <2>1, <2>2, ConsumeKeepsTInv
<1>5. ASSUME NEW t \in Readers, NEW count \in Counts, ReadNow(t, count) PROVE TInv'
  <2>1. reader[t].state # "blocked" /\ count \in Nat /\ Consume(t, count)
    BY Zenon, <1>5, TerminalAssumption DEF ReadNow
  <2>2. QED
    BY Zenon, <2>1, ConsumeKeepsTInv
<1>6. ASSUME NEW t \in Readers, NEW count \in Counts, ReadBlocks(t, count) PROVE TInv'
  BY Zenon, <1>6, ReadBlocksKeepsTInv
<1>7. ASSUME NEW c \in Keys, KeyboardInput(c) PROVE TInv'
  BY Zenon, <1>7, KeyboardInputKeepsTInv
<1>8. ASSUME NEW mode \in Modes, SetTerminalSettings(mode) PROVE TInv'
  <2>1. mode \in BOOLEAN
    BY Zenon, TerminalAssumption
  <2>2. QED
    BY Zenon, <1>1, <1>8, <2>1 DEF SetTerminalSettings
<1>9. QED
  BY Zenon, <1>2, <1>3, <1>4, <1>5, <1>6, <1>7, <1>8 DEF Next

(* TInv holds in every reachable state.                                    *)
LEMMA SpecTInv == Spec => []TInv
BY InitTInv, NextKeepsTInv, PTL DEF Spec

(* Whatever is typed, erased and read, in whichever mode, only the last    *)
(* line is unfinished: KeyboardInput and Read never mistake it for one     *)
(* that the user has ended.                                                *)
THEOREM LinesStayFormed == Spec => []TypeOK
<1>1. TInv => TypeOK
  <2> SUFFICES ASSUME TInv PROVE TypeOK
    BY Zenon
  <2>1. LinesAreFormed(lines) /\ Types
    BY Zenon DEF TInv
  <2>2. lines \in Seq(Seq(Character)) /\ DOMAIN lines = 1..Len(lines)
    BY <2>1 DEF LinesAreFormed
  <2>3. ASSUME NEW k \in DOMAIN lines
        PROVE  /\ lines[k] \in Seq(Keys \ {Backspace}) /\ DOMAIN lines[k] = 1..Len(lines[k])
               /\ \A i \in DOMAIN lines[k] :
                    lines[k][i] = NewLine <=> k < Len(lines) /\ i = Len(lines[k])
               /\ k < Len(lines) => lines[k] # <<>>
    <3>1. lines[k] \in Seq(Character)
      BY <2>2
    <3>2. DOMAIN lines[k] = 1..Len(lines[k])
      BY SMTT(30), <3>1
    <3>3. QED
      BY Zenon, <2>1, <2>2, <3>1, <3>2 DEF LinesAreFormed, Character
  <2>4. QED
    BY Zenon, <2>1, <2>3 DEF TypeOK, Types, Request, Reader
<1>2. QED
  BY <1>1, SpecTInv, PTL

(* The queue of the terminal is the blocked readers, each once: Unsuspend  *)
(* wakes a task that is blocked in Read, and no blocked task is forgotten, *)
(* whatever the number of readers.                                         *)
THEOREM BlockedReadersAreQueued == Spec => []QueueIsBlockedReaders
<1>1. TInv => QueueIsBlockedReaders
  <2> SUFFICES ASSUME TInv PROVE QueueIsBlockedReaders
    OBVIOUS
  <2>1. /\ unblockQueue \in Seq(Request) /\ Queue(unblockQueue, reader)
        /\ DOMAIN unblockQueue = 1..Len(unblockQueue)
    BY DEF TInv, Types
  <2>2. ASSUME NEW k \in DOMAIN unblockQueue
        PROVE  \E t \in {u \in Readers : reader[u].state = "blocked"} :
                 unblockQueue[k].pid = t /\ unblockQueue[k].requestedCount = reader[t].count
    <3>1. unblockQueue[k].pid \in Readers
      BY Zenon, <2>1, RequestProperties
    <3>2. QED
      BY Zenon, <2>1, <3>1 DEF Queue
  <2>3. ASSUME NEW t \in {u \in Readers : reader[u].state = "blocked"}
        PROVE  \E k \in DOMAIN unblockQueue :
                 unblockQueue[k].pid = t /\ unblockQueue[k].requestedCount = reader[t].count
    BY <2>1 DEF Queue
  <2>4. {<<unblockQueue[k].pid, unblockQueue[k].requestedCount>> : k \in DOMAIN unblockQueue}
          = {<<t, reader[t].count>> : t \in {u \in Readers : reader[u].state = "blocked"}}
    <3>1. ASSUME NEW k \in DOMAIN unblockQueue
          PROVE  <<unblockQueue[k].pid, unblockQueue[k].requestedCount>>
                   \in {<<t, reader[t].count>> : t \in {u \in Readers : reader[u].state = "blocked"}}
      BY Zenon, <2>2
    <3>2. ASSUME NEW t \in {u \in Readers : reader[u].state = "blocked"}
          PROVE  <<t, reader[t].count>> \in
                   {<<unblockQueue[k].pid, unblockQueue[k].requestedCount>> :
                      k \in DOMAIN unblockQueue}
      BY Zenon, <2>3
    <3>3. QED
      BY Zenon, <3>1, <3>2
  <2>5. QED
    BY Zenon, <2>1, <2>4 DEF QueueIsBlockedReaders, Queue
<1>2. QED
  BY <1>1, SpecTInv, PTL

-----------------------------------------------------------------------------
(* Raw input wakes the readers.  A reader that is woken before another key *)
(* comes still owes the terminal a pop of count characters; as long as it  *)
(* does, more characters may be waiting than the next reader asked for,    *)
(* but no more than the two of them will take.                             *)

Owed(r) ==
  {p \in Readers \X Nat : r[p[1]].state = "woken" /\ p[2] \in 1..r[p[1]].count}

RInv ==
  /\ IsFiniteSet(Owed(reader))
  /\ unblockQueue # <<>> =>
       Len(rawBuffer) < unblockQueue[1].requestedCount + Cardinality(Owed(reader))

(* A woken reader owes as many characters as it asked for.                 *)
LEMMA OwedParts ==
  ASSUME NEW r \in [Readers -> Reader], NEW s \in [Readers -> Reader], NEW t \in Readers,
         \A u \in Readers : u # t => s[u] = r[u],
         r[t].state # "woken", s[t].state = "woken", s[t].count \in Nat
  PROVE  /\ IsFiniteSet(Owed(r)) <=> IsFiniteSet(Owed(s))
         /\ IsFiniteSet(Owed(r)) => /\ Cardinality(Owed(r)) \in Nat
                                    /\ Cardinality(Owed(s)) = Cardinality(Owed(r)) + s[t].count
<1>1. PICK P : P = {t} \X (1..s[t].count)
  BY Zenon
<1>2. IsFiniteSet(P) /\ Cardinality(P) = s[t].count
  <2>1. IsFiniteSet({t}) /\ Cardinality({t}) = 1
    BY Zenon, FS_Singleton
  <2>2. PICK n \in Nat : n = s[t].count
    BY Zenon
  <2>3. IsFiniteSet(1..n) /\ Cardinality(1..n) = n
    BY SMTT(30), FS_Interval
  <2>4. /\ IsFiniteSet({t} \X (1..n))
        /\ Cardinality({t} \X (1..n)) = Cardinality({t}) * Cardinality(1..n)
    BY Zenon, <2>1, <2>3, FS_Product
  <2>5. Cardinality({t} \X (1..n)) = n
    BY <2>1, <2>3, <2>4
  <2>6. QED
    BY Zenon, <1>1, <2>2, <2>4, <2>5
<1>3. ASSUME NEW p PROVE p \in Owed(s) <=> p \in Owed(r) \/ p \in P
  <2>1. CASE p \in Readers \X Nat
    BY Zenon, <1>1, <2>1 DEF Owed
  <2>2. CASE p \notin Readers \X Nat
    BY <1>1, <2>2 DEF Owed
  <2>3. QED
    BY Zenon, <2>1, <2>2
<1>4. Owed(s) = Owed(r) \cup P
  BY Zenon, <1>3
<1>5. Owed(r) \cap P = {}
  BY Zenon, <1>1 DEF Owed
<1>6. IsFiniteSet(Owed(s)) => IsFiniteSet(Owed(r))
  BY Zenon, <1>4, FS_Subset
<1>7. ASSUME IsFiniteSet(Owed(r))
      PROVE  /\ IsFiniteSet(Owed(s)) /\ Cardinality(Owed(r)) \in Nat
             /\ Cardinality(Owed(s)) = Cardinality(Owed(r)) + s[t].count
  <2>1. Cardinality(Owed(r)) \in Nat
    BY Zenon, <1>7, FS_CardinalityType
  <2>2. /\ IsFiniteSet(Owed(r) \cup P)
        /\ Cardinality(Owed(r) \cup P)
             = Cardinality(Owed(r)) + Cardinality(P) - Cardinality(Owed(r) \cap P)
    BY Zenon, <1>2, <1>7, FS_Union
  <2>3. Cardinality(Owed(r) \cap P) = 0
    BY Zenon, <1>5, FS_EmptySet
  <2>4. QED
    BY <1>2, <1>4, <2>1, <2>2, <2>3
<1>8. QED
  BY Zenon, <1>6, <1>7

(* Readers that were and are not woken owe nothing.                        *)
LEMMA OwedKept ==
  ASSUME NEW r \in [Readers -> Reader], NEW s \in [Readers -> Reader], NEW t \in Readers,
         \A u \in Readers : u # t => s[u] = r[u],
         r[t].state # "woken", s[t].state # "woken"
  PROVE  Owed(s) = Owed(r)
<1>1. ASSUME NEW p \in Readers \X Nat PROVE p \in Owed(s) <=> p \in Owed(r)
  BY Zenon DEF Owed
<1>2. QED
  BY Zenon, <1>1 DEF Owed

(* A Read in raw mode, at once or behind its suspension.                   *)
LEMMA ConsumeKeepsRInv ==
  ASSUME TInv, RInv, ~canonical, NEW t \in Readers, NEW count \in Nat, Consume(t, count),
         reader[t].state = "user" \/ (reader[t].state = "woken" /\ reader[t].count = count)
  PROVE  RInv'
<1>1. PICK n : n = IF count <= Len(rawBuffer) THEN count ELSE Len(rawBuffer)
  BY Zenon
<1>2. /\ rawBuffer' = SubSeq(rawBuffer, n + 1, Len(rawBuffer))
      /\ reader' = [reader EXCEPT ![t] = User] /\ unblockQueue' = unblockQueue
  BY Zenon, <1>1 DEF Consume, Rest, Source
<1>3. /\ rawBuffer \in Seq(Keys) /\ unblockQueue \in Seq(Request)
      /\ reader \in [Readers -> Reader] /\ Queue(unblockQueue, reader)
  BY Zenon DEF TInv, Types
<1>4. n \in 0..Len(rawBuffer) /\ Len(rawBuffer) \in Nat /\ Len(rawBuffer') = Len(rawBuffer) - n
  <2>1. Len(rawBuffer) \in Nat
    BY <1>3
  <2>2. n \in 0..Len(rawBuffer)
    BY <1>1, <2>1
  <2>3. Len(SubSeq(rawBuffer, n + 1, Len(rawBuffer))) = Len(rawBuffer) - n
    BY <1>3, <2>2
  <2>4. QED
    BY Zenon, <1>2, <2>1, <2>2, <2>3
<1>5. User \in Reader /\ User.state = "user"
  BY Zenon DEF User, Reader
<1>6. /\ reader' \in [Readers -> Reader] /\ reader'[t].state # "woken"
      /\ \A u \in Readers : u # t => reader'[u] = reader[u]
  BY Zenon, <1>2, <1>3, <1>5
<1>7. unblockQueue # <<>> => /\ unblockQueue[1].requestedCount \in Nat
                             /\ unblockQueue[1].requestedCount > 0
  <2>1. ASSUME unblockQueue # <<>>
        PROVE  unblockQueue[1].requestedCount \in Counts /\ unblockQueue[1].requestedCount > 0
    <3>1. 1 \in 1..Len(unblockQueue)
      BY <1>3, <2>1
    <3>2. QED
      BY Zenon, <1>3, <3>1, RequestProperties DEF Queue
  <2>2. QED
    BY Zenon, <2>1, TerminalAssumption
<1>8. /\ IsFiniteSet(Owed(reader)) /\ Cardinality(Owed(reader)) \in Nat
      /\ unblockQueue # <<>> =>
           Len(rawBuffer) < unblockQueue[1].requestedCount + Cardinality(Owed(reader))
  BY Zenon, FS_CardinalityType DEF RInv
<1>9. CASE reader[t].state = "user"
  <2>1. Owed(reader') = Owed(reader)
    BY Zenon, <1>3, <1>6, <1>9, OwedKept
  <2>2. QED
    BY <1>2, <1>4, <1>7, <1>8, <2>1 DEF RInv
<1>10. CASE reader[t].state = "woken" /\ reader[t].count = count
  <2>1. /\ IsFiniteSet(Owed(reader')) /\ Cardinality(Owed(reader')) \in Nat
        /\ Cardinality(Owed(reader)) = Cardinality(Owed(reader')) + count
    <3>1. PICK r : r = reader'
      BY Zenon
    <3>2. /\ IsFiniteSet(Owed(r)) <=> IsFiniteSet(Owed(reader))
          /\ IsFiniteSet(Owed(r)) => /\ Cardinality(Owed(r)) \in Nat
                                     /\ Cardinality(Owed(reader)) = Cardinality(Owed(r)) + reader[t].count
      BY Zenon, <1>3, <1>6, <1>10, <3>1, OwedParts
    <3>3. QED
      BY Zenon, <1>8, <1>10, <3>1, <3>2
  <2>2. ASSUME unblockQueue # <<>>
        PROVE  Len(rawBuffer') < unblockQueue[1].requestedCount + Cardinality(Owed(reader'))
    <3>1. PICK k \in Nat : k = unblockQueue[1].requestedCount /\ k > 0
      BY Zenon, <1>7, <2>2
    <3>2. PICK m \in Nat : m = Cardinality(Owed(reader'))
      BY Zenon, <2>1
    <3>3. Len(rawBuffer) < k + (m + count)
      BY Zenon, <1>8, <2>1, <2>2, <3>1, <3>2
    <3>4. Len(rawBuffer) - n < k + m
      BY SMTT(30), <1>1, <1>4, <3>3, <3>1
    <3>5. QED
      BY Zenon, <1>4, <3>1, <3>2, <3>4
  <2>3. QED
    BY Zenon, <1>2, <2>1, <2>2 DEF RInv
<1>11. QED
  BY Zenon, <1>9, <1>10

(* A reader that blocks asks for more than there is.                       *)
LEMMA ReadBlocksKeepsRInv ==
  ASSUME TInv, RInv, ~canonical, NEW t \in Readers, NEW count \in Counts, ReadBlocks(t, count)
  PROVE  RInv'
<1>1. PICK e : e = [pid |-> t, requestedCount |-> count]
  BY Zenon
<1>2. /\ reader[t].state = "user" /\ count > Len(rawBuffer) /\ rawBuffer' = rawBuffer
      /\ unblockQueue' = Append(unblockQueue, e)
      /\ reader' = [reader EXCEPT ![t] = [state |-> "blocked", count |-> count]]
  BY Zenon, <1>1 DEF ReadBlocks, Source
<1>3. /\ rawBuffer \in Seq(Keys) /\ unblockQueue \in Seq(Request)
      /\ reader \in [Readers -> Reader]
  BY Zenon DEF TInv, Types
<1>4. /\ reader' \in [Readers -> Reader] /\ reader'[t].state # "woken"
      /\ \A u \in Readers : u # t => reader'[u] = reader[u]
  <2>1. [state |-> "blocked", count |-> count] \in Reader
    BY Zenon DEF Reader
  <2>2. QED
    BY Zenon, <1>2, <1>3, <2>1
<1>5. Owed(reader') = Owed(reader)
  BY Zenon, <1>2, <1>3, <1>4, OwedKept
<1>6. /\ IsFiniteSet(Owed(reader)) /\ Cardinality(Owed(reader)) \in Nat
      /\ unblockQueue # <<>> =>
           Len(rawBuffer) < unblockQueue[1].requestedCount + Cardinality(Owed(reader))
  BY Zenon, FS_CardinalityType DEF RInv
<1>7. e \in Request /\ e.requestedCount = count
  BY Zenon, <1>1 DEF Request
<1>8. unblockQueue'[1] = IF unblockQueue = <<>> THEN e ELSE unblockQueue[1]
  BY <1>2, <1>3, <1>7, AppendProperties
<1>9. Len(rawBuffer) < unblockQueue'[1].requestedCount + Cardinality(Owed(reader))
  <2>1. CASE unblockQueue = <<>>
    <3>1. count \in Nat /\ Len(rawBuffer) \in Nat
      BY <1>3, TerminalAssumption
    <3>2. QED
      BY SMTT(30), <1>2, <1>6, <1>7, <1>8, <2>1, <3>1
  <2>2. CASE unblockQueue # <<>>
    BY Zenon, <1>6, <1>8, <2>2
  <2>3. QED
    BY Zenon, <2>1, <2>2
<1>10. QED
  BY Zenon, <1>2, <1>5, <1>6, <1>9 DEF RInv

(* A key wakes the first reader when its request is met, or at a newline;  *)
(* what is waiting then is no more than this reader and the earlier ones   *)
(* take, and the next one asked for at least one character.                *)
LEMMA TypeRawKeepsRInv ==
  ASSUME TInv, RInv, NEW c \in Keys, TypeRaw(c)
  PROVE  RInv'
<1>1. /\ rawBuffer' = Append(rawBuffer, c)
      /\ Wake(Wakes(c, Len(rawBuffer')))
  BY Zenon DEF TypeRaw
<1>2. /\ rawBuffer \in Seq(Keys) /\ unblockQueue \in Seq(Request)
      /\ reader \in [Readers -> Reader] /\ Queue(unblockQueue, reader)
  BY Zenon DEF TInv, Types
<1>3. Len(rawBuffer) \in Nat /\ Len(rawBuffer') = Len(rawBuffer) + 1
  BY <1>1, <1>2, AppendProperties
<1>4. ASSUME NEW i \in 1..Len(unblockQueue)
      PROVE  unblockQueue[i].requestedCount \in Nat /\ unblockQueue[i].requestedCount > 0
  <2>1. unblockQueue[i].requestedCount \in Counts /\ unblockQueue[i].requestedCount > 0
    BY Zenon, <1>2, RequestProperties DEF Queue
  <2>2. QED
    BY Zenon, <2>1, TerminalAssumption
<1>5. PICK m \in Nat : m = Cardinality(Owed(reader))
  BY Zenon, FS_CardinalityType DEF RInv
<1>6. CASE Wakes(c, Len(rawBuffer'))
  <2>1. /\ unblockQueue # <<>> /\ unblockQueue' = Tail(unblockQueue)
        /\ reader' = [reader EXCEPT ![unblockQueue[1].pid].state = "woken"]
    BY Zenon, <1>1, <1>6 DEF Wake, Wakes, UnblockQueueAfterWake
  <2>2. PICK t : t = unblockQueue[1].pid
    BY Zenon
  <2>3. /\ t \in Readers /\ reader[t].state = "blocked" /\ reader' \in [Readers -> Reader]
        /\ reader[t].count = unblockQueue[1].requestedCount
    BY Zenon, <1>2, <2>1, <2>2, FirstWoken
  <2>4. 1 \in 1..Len(unblockQueue) /\ Len(unblockQueue) \in Nat
    BY SMTT(30), <1>2, <2>1
  <2>5. PICK k \in Nat : k = unblockQueue[1].requestedCount
    BY Zenon, <1>4, <2>4
  <2>6. /\ reader'[t].state = "woken" /\ reader'[t].count = k
        /\ \A u \in Readers : u # t => reader'[u] = reader[u]
    BY SMTT(30), <1>2, <2>1, <2>2, <2>3, <2>5 DEF Reader
  <2>7. IsFiniteSet(Owed(reader')) /\ Cardinality(Owed(reader')) = m + k
    <3>1. PICK s : s = reader'
      BY Zenon
    <3>2. /\ s \in [Readers -> Reader] /\ s[t].state = "woken" /\ s[t].count = k
          /\ s[t].count \in Nat /\ \A u \in Readers : u # t => s[u] = reader[u]
      BY Zenon, <2>3, <2>6, <3>1
    <3>3. /\ IsFiniteSet(Owed(reader)) <=> IsFiniteSet(Owed(s))
          /\ IsFiniteSet(Owed(reader)) =>
               /\ Cardinality(Owed(reader)) \in Nat
               /\ Cardinality(Owed(s)) = Cardinality(Owed(reader)) + s[t].count
      <4>1. reader[t].state # "woken"
        BY Zenon, <2>3
      <4>2. QED
        BY Zenon, <1>2, <2>3, <3>2, <4>1, OwedParts
    <3>4. IsFiniteSet(Owed(reader))
      BY Zenon DEF RInv
    <3>5. QED
      BY Zenon, <1>5, <3>1, <3>2, <3>3, <3>4
  <2>8. Len(rawBuffer) < k + m
    BY Zenon, <1>5, <2>1, <2>5 DEF RInv
  <2>9. ASSUME unblockQueue' # <<>>
        PROVE  Len(rawBuffer') < unblockQueue'[1].requestedCount + Cardinality(Owed(reader'))
    <3>1. unblockQueue'[1] = unblockQueue[2] /\ 2 \in 1..Len(unblockQueue)
      BY SMTT(30), <1>2, <2>1, <2>4, <2>9, HeadTailProperties
    <3>2. PICK j \in Nat : j = unblockQueue[2].requestedCount /\ j > 0
      BY Zenon, <1>4, <3>1
    <3>3. Len(rawBuffer) + 1 < j + (m + k)
      BY <1>3, <2>8, <3>2
    <3>4. QED
      BY Zenon, <1>3, <2>7, <3>1, <3>2, <3>3
  <2>10. QED
    BY Zenon, <2>7, <2>9 DEF RInv
<1>7. CASE ~Wakes(c, Len(rawBuffer'))
  <2>1. unblockQueue' = unblockQueue /\ reader' = reader
    BY Zenon, <1>1, <1>7 DEF Wake
  <2>2. ASSUME unblockQueue # <<>>
        PROVE  Len(rawBuffer') < unblockQueue[1].requestedCount + Cardinality(Owed(reader))
    <3>1. 1 \in 1..Len(unblockQueue)
      BY <1>2, <2>2
    <3>2. PICK k \in Nat : k = unblockQueue[1].requestedCount
      BY Zenon, <1>4, <3>1
    <3>3. ~(k <= Len(rawBuffer'))
      BY Zenon, <1>7, <2>2, <3>2 DEF Wakes
    <3>4. QED
      BY <1>3, <1>5, <3>2, <3>3
  <2>3. QED
    BY Zenon, <2>1, <2>2 DEF RInv
<1>8. QED
  BY Zenon, <1>6, <1>7

(* While the terminal stays in raw mode every step keeps RInv.             *)
LEMMA NextKeepsRInv == TInv /\ RInv /\ ~canonical /\ [Next]_vars => RInv'
<1> SUFFICES ASSUME TInv, RInv, ~canonical, [Next]_vars PROVE RInv'
  BY Zenon
<1>1. ASSUME UNCHANGED <<rawBuffer, unblockQueue, reader>> PROVE RInv'
  BY Zenon, <1>1 DEF RInv
<1>2. CASE UNCHANGED vars
  BY Zenon, <1>1, <1>2 DEF vars
<1>3. ASSUME NEW t \in Readers, ReadPanics(t) PROVE RInv'
  BY Zenon, <1>1, <1>3 DEF ReadPanics
<1>4. ASSUME NEW t \in Readers, ReadResumes(t) PROVE RInv'
  <2>1. PICK count \in Nat : count = reader[t].count
    BY Zenon, ReaderProperties
  <2>2. reader[t].state = "woken" /\ Consume(t, count)
    BY Zenon, <1>4, <2>1 DEF ReadResumes
  <2>3. QED
    BY Zenon, <2>1, <2>2, ConsumeKeepsRInv
<1>5. ASSUME NEW t \in Readers, NEW count \in Counts, ReadNow(t, count) PROVE RInv'
  <2>1. reader[t].state = "user" /\ count \in Nat /\ Consume(t, count)
    BY Zenon, <1>5, TerminalAssumption DEF ReadNow
  <2>2. QED
    BY Zenon, <2>1, ConsumeKeepsRInv
<1>6. ASSUME NEW t \in Readers, NEW count \in Counts, ReadBlocks(t, count) PROVE RInv'
  BY Zenon, <1>6, ReadBlocksKeepsRInv
<1>7. ASSUME NEW c \in Keys, KeyboardInput(c) PROVE RInv'
  <2>1. TypeRaw(c)
    BY Zenon, <1>7 DEF KeyboardInput, EraseLast, TypeCanonical
  <2>2. QED
    BY Zenon, <2>1, TypeRawKeepsRInv
<1>8. ASSUME NEW mode \in Modes, SetTerminalSettings(mode) PROVE RInv'
  BY Zenon, <1>1, <1>8 DEF SetTerminalSettings
<1>9. QED
  BY Zenon, <1>2, <1>3, <1>4, <1>5, <1>6, <1>7, <1>8 DEF Next

(* No lost wake-up in raw mode, whatever the number of readers and the     *)
(* sizes they ask for: unless a woken reader is on its way, the first      *)
(* blocked reader asked for more than is waiting.                          *)
THEOREM RawReadersAreWoken == Spec => RawInputWakes
<1>1. Init => RInv
  <2> SUFFICES ASSUME Init PROVE RInv
    OBVIOUS
  <2>1. Owed(reader) = {}
    BY Zenon DEF Init, Owed, User
  <2>2. QED
    BY Zenon, <2>1, FS_EmptySet DEF Init, RInv
<1>2. TInv /\ RInv => ((\A t \in Readers : reader[t].state # "woken") /\ unblockQueue # <<>>
                         => unblockQueue[1].requestedCount > Len(rawBuffer))
  <2> SUFFICES ASSUME TInv, RInv, \A t \in Readers : reader[t].state # "woken", unblockQueue # <<>>
               PROVE  unblockQueue[1].requestedCount > Len(rawBuffer)
    BY Zenon
  <2>1. Owed(reader) = {}
    BY Zenon DEF Owed
  <2>2. Cardinality(Owed(reader)) = 0
    BY Zenon, <2>1, FS_EmptySet
  <2>3. /\ unblockQueue \in Seq(Request) /\ rawBuffer \in Seq(Keys)
        /\ 1 \in 1..Len(unblockQueue)
    BY DEF TInv, Types
  <2>4. unblockQueue[1].requestedCount \in Nat /\ Len(rawBuffer) \in Nat
    <3>1. unblockQueue[1].requestedCount \in Counts
      BY Zenon, <2>3, RequestProperties
    <3>2. Counts \subseteq Nat
      BY Zenon, TerminalAssumption
    <3>3. Len(rawBuffer) \in Nat
      BY <2>3
    <3>4. QED
      BY Zenon, <3>1, <3>2, <3>3
  <2>5. QED
    BY <2>2, <2>4 DEF RInv
<1>3. QED
  BY <1>1, <1>2, NextKeepsRInv, SpecTInv, PTL DEF Spec, RawInputWakes

=============================================================================
