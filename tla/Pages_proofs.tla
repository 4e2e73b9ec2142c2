----------------------------- MODULE Pages_proofs -----------------------------
(***************************************************************************)
(* Proofs about what Dive does behind a page's back: its requests are held *)
(* and ruled on (PausedRequests: FetchInvariance is the inductive          *)
(* invariant, BlocksAreKept and NobodyIsLost follow), and its tab is put   *)
(* to sleep (TabDiscard: DiscardInvariance, from which ViewsAreLive and    *)
(* ClosesAreGentle).                                                       *)
(***************************************************************************)
EXTENDS PausedRequests, TabDiscard, FiniteSetTheorems, TLAPS

-----------------------------------------------------------------------------
(* Request rules.                                                          *)

Owners == Reqs \cup {Listener, None}
Cmds == {"fail", "continue", "fulfill", "stop", "disable", "enable"}
Commands == [by : Owners, r : Reqs \cup {None}, cmd : Cmds]
Messages == [by : Owners, msg : {"paused", "loading", "ok", "gone", "error"}]
Pauses == [r : Reqs, epoch : 0 .. MaxDoc]
ListenerPlaces == {"recv", "permit", "disable", "enable", "ended"}

(* What the sequences and functions hold; a command that ends a request    *)
(* names one, and so does a pause.                                         *)
FetchTypes ==
  /\ doc \in 1 .. MaxDoc /\ epoch \in 1 .. MaxDoc /\ errors \in 0 .. MaxErrors
  /\ {fetch, lagged, closed, running} \subseteq BOOLEAN
  /\ req \in [Reqs -> [doc : 0 .. MaxDoc, kind : Kinds, status : Statuses]]
  /\ task \in [Reqs -> [at : Places, epoch : 0 .. MaxDoc]]
  /\ listener \in [at : ListenerPlaces, r : Reqs \cup {None}, epoch : 0 .. MaxDoc]
  /\ listener.at = "permit" => listener.r \in Reqs
  /\ out \in Seq(Commands) /\ wire \in Seq(Messages) /\ bus \in Seq(Pauses)
  /\ Len(bus) <= BusCap
  /\ \A i \in DOMAIN out : out[i].cmd \in DOMAIN Terminal => out[i].r \in Reqs
  /\ \A i \in DOMAIN wire : wire[i].msg = "paused" => wire[i].by \in Reqs

LEMMA TerminalCmds == DOMAIN Terminal = {"fail", "continue", "fulfill"}
  BY DEF Terminal

(* What Tail, Append and the renaming of a call that timed out leave of a  *)
(* sequence's elements.                                                    *)
LEMMA TailOf ==
  ASSUME NEW S, NEW n \in Seq(S), n # <<>>
  PROVE  /\ Len(n) \in Nat \ {0} /\ Tail(n) \in Seq(S) /\ Len(Tail(n)) = Len(n) - 1
         /\ Head(n) = n[1] /\ 1 \in 1 .. Len(n) /\ n[1] \in S
         /\ \A x \in 1 .. Len(Tail(n)) : Tail(n)[x] = n[x + 1] /\ x + 1 \in 1 .. Len(n)
  OBVIOUS

LEMMA AppendOf ==
  ASSUME NEW S, NEW n \in Seq(S), NEW e \in S
  PROVE  /\ Len(n) \in Nat /\ Append(n, e) \in Seq(S) /\ Len(Append(n, e)) = Len(n) + 1
         /\ \A x \in 1 .. Len(n) : Append(n, e)[x] = n[x]
         /\ Append(n, e)[Len(n) + 1] = e
  OBVIOUS

LEMMA OrphanedOut ==
  ASSUME NEW n \in Seq(Commands), NEW b \in Owners
  PROVE  /\ Orphaned(n, b) \in Seq(Commands) /\ Len(Orphaned(n, b)) = Len(n)
         /\ \A x \in 1 .. Len(n) : /\ Orphaned(n, b)[x].r = n[x].r
                                   /\ Orphaned(n, b)[x].cmd = n[x].cmd
<1>. DEFINE m == Orphaned(n, b)
<1>1. Len(n) \in Nat /\ DOMAIN n = 1 .. Len(n) /\ \A x \in 1 .. Len(n) : n[x] \in Commands
  OBVIOUS
<1>2. DOMAIN m = 1 .. Len(n)
  BY <1>1 DEF Orphaned
<1>3. ASSUME NEW x \in 1 .. Len(n)
      PROVE  m[x] \in Commands /\ m[x].r = n[x].r /\ m[x].cmd = n[x].cmd
  <2>1. n[x] \in Commands
    BY <1>1
  <2>2. m[x] = n[x] \/ m[x] = [n[x] EXCEPT !.by = None]
    BY <1>1 DEF Orphaned
  <2>. QED
    BY <2>1, <2>2 DEF Commands, Owners
<1>4. m \in Seq(Commands) /\ Len(m) = Len(n)
  <2>1. m = [x \in 1 .. Len(n) |-> m[x]]
    BY <1>1 DEF Orphaned
  <2>. HIDE DEF m
  <2>2. m \in [1 .. Len(n) -> Commands]
    BY <2>1, <1>3
  <2>. QED
    BY <1>1, <2>2
<1>. QED
  BY <1>3, <1>4

LEMMA OrphanedWire ==
  ASSUME NEW n \in Seq(Messages), NEW b \in Owners
  PROVE  /\ Orphaned(n, b) \in Seq(Messages) /\ Len(Orphaned(n, b)) = Len(n)
         /\ \A x \in 1 .. Len(n) : /\ Orphaned(n, b)[x].msg = n[x].msg
                                   /\ n[x].msg = "paused" => Orphaned(n, b)[x] = n[x]
<1>. DEFINE m == Orphaned(n, b)
<1>1. Len(n) \in Nat /\ DOMAIN n = 1 .. Len(n) /\ \A x \in 1 .. Len(n) : n[x] \in Messages
  OBVIOUS
<1>2. DOMAIN m = 1 .. Len(n)
  BY <1>1 DEF Orphaned
<1>3. ASSUME NEW x \in 1 .. Len(n)
      PROVE  m[x] \in Messages /\ m[x].msg = n[x].msg /\ (n[x].msg = "paused" => m[x] = n[x])
  <2>1. n[x] \in Messages
    BY <1>1
  <2>2. "cmd" \notin DOMAIN n[x]
    BY <2>1 DEF Messages
  <2>3. m[x] = n[x] \/ (n[x].msg # "paused" /\ m[x] = [n[x] EXCEPT !.by = None])
    BY <1>1, <2>2 DEF Orphaned
  <2>. QED
    BY <2>1, <2>3 DEF Messages, Owners
<1>4. m \in Seq(Messages) /\ Len(m) = Len(n)
  <2>1. m = [x \in 1 .. Len(n) |-> m[x]]
    BY <1>1 DEF Orphaned
  <2>. HIDE DEF m
  <2>2. m \in [1 .. Len(n) -> Messages]
    BY <2>1, <1>3
  <2>. QED
    BY <1>1, <2>2
<1>. QED
  BY <1>3, <1>4

(* What is in a queue, without its order: the commands under way, the      *)
(* requests whose pause is under way, those published, and where the       *)
(* navigations stand. No pause is sent or published twice.                 *)
Asked(o) == {<<o[i].r, o[i].cmd>> : i \in 1 .. Len(o)}
Posted(w) == {w[i].by : i \in {j \in 1 .. Len(w) : w[j].msg = "paused"}}
Read(b) == {b[i].r : i \in 1 .. Len(b)}
Loads(w) == {i \in 1 .. Len(w) : w[i].msg = "loading"}

SentOnce(w) ==
  \A i, j \in 1 .. Len(w) :
    w[i].msg = "paused" /\ w[j].msg = "paused" /\ w[i].by = w[j].by => i = j
ReadOnce(b) == \A i, j \in 1 .. Len(b) : b[i].r = b[j].r => i = j

LEMMA AskedAppend ==
  ASSUME NEW n \in Seq(Commands), NEW c \in Commands
  PROVE  Asked(Append(n, c)) = Asked(n) \cup {<<c.r, c.cmd>>}
<1>. DEFINE m == Append(n, c)
<1>1. /\ Len(n) \in Nat /\ Len(m) = Len(n) + 1 /\ m[Len(n) + 1] = c
      /\ \A x \in 1 .. Len(n) : m[x] = n[x]
  BY AppendOf
<1>. HIDE DEF m
<1>2. ASSUME NEW q \in Asked(m) PROVE q \in Asked(n) \cup {<<c.r, c.cmd>>}
  <2>1. PICK i \in 1 .. Len(m) : q = <<m[i].r, m[i].cmd>>
    BY <1>2 DEF Asked
  <2>2. CASE i = Len(n) + 1
    BY <1>1, <2>1, <2>2
  <2>3. CASE i # Len(n) + 1
    BY <1>1, <2>1, <2>3 DEF Asked
  <2>. QED
    BY <2>2, <2>3
<1>3. ASSUME NEW q \in Asked(n) PROVE q \in Asked(m)
  <2>1. PICK i \in 1 .. Len(n) : q = <<n[i].r, n[i].cmd>>
    BY <1>3 DEF Asked
  <2>2. i \in 1 .. Len(m) /\ m[i] = n[i]
    BY <1>1
  <2>. QED
    BY <2>1, <2>2 DEF Asked
<1>4. <<c.r, c.cmd>> \in Asked(m)
  <2>1. Len(n) + 1 \in 1 .. Len(m) /\ m[Len(n) + 1] = c
    BY <1>1
  <2>. QED
    BY <2>1 DEF Asked
<1>. QED
  BY <1>2, <1>3, <1>4 DEF m

LEMMA AskedTail ==
  ASSUME NEW n \in Seq(Commands), n # <<>>
  PROVE  Asked(n) = Asked(Tail(n)) \cup {<<Head(n).r, Head(n).cmd>>}
<1>. DEFINE m == Tail(n)
<1>1. /\ Len(n) \in Nat \ {0} /\ Len(m) = Len(n) - 1 /\ Head(n) = n[1] /\ 1 \in 1 .. Len(n)
      /\ \A x \in 1 .. Len(m) : m[x] = n[x + 1] /\ x + 1 \in 1 .. Len(n)
  BY TailOf
<1>. HIDE DEF m
<1>2. ASSUME NEW q \in Asked(m) PROVE q \in Asked(n)
  <2>1. PICK i \in 1 .. Len(m) : q = <<m[i].r, m[i].cmd>>
    BY <1>2 DEF Asked
  <2>2. q = <<n[i + 1].r, n[i + 1].cmd>> /\ i + 1 \in 1 .. Len(n)
    BY <1>1, <2>1
  <2>. QED
    BY <2>2 DEF Asked
<1>3. ASSUME NEW q \in Asked(n) PROVE q \in Asked(m) \cup {<<Head(n).r, Head(n).cmd>>}
  <2>1. PICK i \in 1 .. Len(n) : q = <<n[i].r, n[i].cmd>>
    BY <1>3 DEF Asked
  <2>2. CASE i = 1
    BY <1>1, <2>1, <2>2
  <2>3. CASE i # 1
    <3>1. i - 1 \in 1 .. Len(m) /\ (i - 1) + 1 = i
      BY <1>1, <2>3
    <3>2. q = <<m[i - 1].r, m[i - 1].cmd>>
      BY <1>1, <2>1, <3>1
    <3>. QED
      BY <3>1, <3>2 DEF Asked
  <2>. QED
    BY <2>2, <2>3
<1>4. <<Head(n).r, Head(n).cmd>> \in Asked(n)
  BY <1>1 DEF Asked
<1>. QED
  BY <1>2, <1>3, <1>4 DEF m

LEMMA AskedOrphaned ==
  ASSUME NEW n \in Seq(Commands), NEW b \in Owners
  PROVE  Asked(Orphaned(n, b)) = Asked(n)
  BY OrphanedOut DEF Asked

LEMMA PostedAppend ==
  ASSUME NEW n \in Seq(Messages), NEW e \in Messages
  PROVE  /\ e.msg = "paused" => Posted(Append(n, e)) = Posted(n) \cup {e.by}
         /\ e.msg # "paused" => Posted(Append(n, e)) = Posted(n)
         /\ SentOnce(n) /\ (e.msg = "paused" => e.by \notin Posted(n)) => SentOnce(Append(n, e))
<1>. DEFINE m == Append(n, e)
<1>1. /\ Len(n) \in Nat /\ Len(m) = Len(n) + 1 /\ m[Len(n) + 1] = e
      /\ \A x \in 1 .. Len(n) : m[x] = n[x]
  BY AppendOf
<1>. HIDE DEF m
<1>2. ASSUME NEW q \in Posted(m) PROVE q \in Posted(n) \/ (e.msg = "paused" /\ q = e.by)
  <2>1. PICK i \in 1 .. Len(m) : q = m[i].by /\ m[i].msg = "paused"
    BY <1>2 DEF Posted
  <2>2. CASE i = Len(n) + 1
    BY <1>1, <2>1, <2>2
  <2>3. CASE i # Len(n) + 1
    BY <1>1, <2>1, <2>3 DEF Posted
  <2>. QED
    BY <2>2, <2>3
<1>3. ASSUME NEW q \in Posted(n) PROVE q \in Posted(m)
  <2>1. PICK i \in 1 .. Len(n) : q = n[i].by /\ n[i].msg = "paused"
    BY <1>3 DEF Posted
  <2>2. i \in 1 .. Len(m) /\ m[i] = n[i]
    BY <1>1
  <2>. QED
    BY <2>1, <2>2 DEF Posted
<1>4. ASSUME e.msg = "paused" PROVE e.by \in Posted(m)
  <2>1. Len(n) + 1 \in 1 .. Len(m) /\ m[Len(n) + 1] = e
    BY <1>1
  <2>. QED
    BY <1>4, <2>1 DEF Posted
<1>5. ASSUME SentOnce(n), e.msg = "paused" => e.by \notin Posted(n) PROVE SentOnce(m)
  <2>. SUFFICES ASSUME NEW i \in 1 .. Len(m), NEW j \in 1 .. Len(m), m[i].msg = "paused",
                       m[j].msg = "paused", m[i].by = m[j].by
                PROVE  i = j
    BY DEF SentOnce
  <2>1. CASE i # Len(n) + 1 /\ j # Len(n) + 1
    BY <1>1, <1>5, <2>1 DEF SentOnce
  <2>2. CASE i = Len(n) + 1 /\ j # Len(n) + 1
    <3>1. j \in 1 .. Len(n) /\ n[j].msg = "paused" /\ n[j].by = e.by /\ e.msg = "paused"
      BY <1>1, <2>2
    <3>. QED
      BY <1>5, <3>1 DEF Posted
  <2>3. CASE i # Len(n) + 1 /\ j = Len(n) + 1
    <3>1. i \in 1 .. Len(n) /\ n[i].msg = "paused" /\ n[i].by = e.by /\ e.msg = "paused"
      BY <1>1, <2>3
    <3>. QED
      BY <1>5, <3>1 DEF Posted
  <2>. QED
    BY <2>1, <2>2, <2>3
<1>. QED
  BY <1>2, <1>3, <1>4, <1>5 DEF m

LEMMA PostedTail ==
  ASSUME NEW n \in Seq(Messages), n # <<>>
  PROVE  /\ Head(n) \in Messages
         /\ Head(n).msg = "paused" => Posted(n) = Posted(Tail(n)) \cup {Head(n).by}
         /\ Head(n).msg # "paused" => Posted(n) = Posted(Tail(n))
         /\ SentOnce(n) => SentOnce(Tail(n))
         /\ SentOnce(n) /\ Head(n).msg = "paused" => Head(n).by \notin Posted(Tail(n))
<1>. DEFINE m == Tail(n)
<1>1. /\ Len(n) \in Nat \ {0} /\ Len(m) = Len(n) - 1 /\ Head(n) = n[1] /\ 1 \in 1 .. Len(n)
      /\ n[1] \in Messages
      /\ \A x \in 1 .. Len(m) : m[x] = n[x + 1] /\ x + 1 \in 1 .. Len(n)
  BY TailOf
<1>. HIDE DEF m
<1>2. ASSUME NEW q \in Posted(m)
      PROVE  /\ q \in Posted(n)
             /\ \E i \in 2 .. Len(n) : n[i].msg = "paused" /\ n[i].by = q
  <2>1. PICK i \in 1 .. Len(m) : q = m[i].by /\ m[i].msg = "paused"
    BY <1>2 DEF Posted
  <2>2. q = n[i + 1].by /\ n[i + 1].msg = "paused" /\ i + 1 \in 1 .. Len(n) /\ i + 1 \in 2 .. Len(n)
    BY <1>1, <2>1
  <2>. QED
    BY <2>2 DEF Posted
<1>3. ASSUME NEW q \in Posted(n)
      PROVE  q \in Posted(m) \/ (Head(n).msg = "paused" /\ q = Head(n).by)
  <2>1. PICK i \in 1 .. Len(n) : q = n[i].by /\ n[i].msg = "paused"
    BY <1>3 DEF Posted
  <2>2. CASE i = 1
    BY <1>1, <2>1, <2>2
  <2>3. CASE i # 1
    <3>1. i - 1 \in 1 .. Len(m) /\ (i - 1) + 1 = i
      BY <1>1, <2>3
    <3>2. q = m[i - 1].by /\ m[i - 1].msg = "paused"
      BY <1>1, <2>1, <3>1
    <3>. QED
      BY <3>1, <3>2 DEF Posted
  <2>. QED
    BY <2>2, <2>3
<1>4. Head(n).msg = "paused" => Head(n).by \in Posted(n)
  BY <1>1 DEF Posted
<1>5. SentOnce(n) => SentOnce(m)
  BY <1>1 DEF SentOnce
<1>6. ASSUME SentOnce(n), Head(n).msg = "paused" PROVE Head(n).by \notin Posted(m)
  <2>. SUFFICES ASSUME Head(n).by \in Posted(m) PROVE FALSE
    OBVIOUS
  <2>1. PICK i \in 2 .. Len(n) : n[i].msg = "paused" /\ n[i].by = Head(n).by
    BY <1>2
  <2>2. i \in 1 .. Len(n) /\ i # 1 /\ n[1].msg = "paused" /\ n[i].by = n[1].by
    BY <1>1, <1>6, <2>1
  <2>. QED
    BY <1>1, <1>6, <2>1, <2>2 DEF SentOnce
<1>. QED
  BY <1>1, <1>2, <1>3, <1>4, <1>5, <1>6 DEF m

LEMMA PostedOrphaned ==
  ASSUME NEW n \in Seq(Messages), NEW b \in Owners
  PROVE  /\ Posted(Orphaned(n, b)) = Posted(n)
         /\ SentOnce(n) => SentOnce(Orphaned(n, b))
         /\ Loads(Orphaned(n, b)) = Loads(n)
<1>. DEFINE m == Orphaned(n, b)
<1>1. /\ m \in Seq(Messages) /\ Len(m) = Len(n)
      /\ \A x \in 1 .. Len(n) : m[x].msg = n[x].msg /\ (n[x].msg = "paused" => m[x] = n[x])
  BY OrphanedWire
<1>. HIDE DEF m
<1>2. Posted(m) = Posted(n)
  BY <1>1 DEF Posted
<1>3. SentOnce(n) => SentOnce(m)
  BY <1>1 DEF SentOnce
<1>4. Loads(m) = Loads(n)
  BY <1>1 DEF Loads
<1>. QED
  BY <1>2, <1>3, <1>4 DEF m

LEMMA ReadAppend ==
  ASSUME NEW n \in Seq(Pauses), NEW e \in Pauses
  PROVE  /\ Read(Append(n, e)) = Read(n) \cup {e.r}
         /\ ReadOnce(n) /\ e.r \notin Read(n) => ReadOnce(Append(n, e))
<1>. DEFINE m == Append(n, e)
<1>1. /\ Len(n) \in Nat /\ Len(m) = Len(n) + 1 /\ m[Len(n) + 1] = e
      /\ \A x \in 1 .. Len(n) : m[x] = n[x]
  BY AppendOf
<1>. HIDE DEF m
<1>2. ASSUME NEW q \in Read(m) PROVE q \in Read(n) \cup {e.r}
  <2>1. PICK i \in 1 .. Len(m) : q = m[i].r
    BY <1>2 DEF Read
  <2>2. CASE i = Len(n) + 1
    BY <1>1, <2>1, <2>2
  <2>3. CASE i # Len(n) + 1
    BY <1>1, <2>1, <2>3 DEF Read
  <2>. QED
    BY <2>2, <2>3
<1>3. ASSUME NEW q \in Read(n) PROVE q \in Read(m)
  <2>1. PICK i \in 1 .. Len(n) : q = n[i].r
    BY <1>3 DEF Read
  <2>2. i \in 1 .. Len(m) /\ m[i] = n[i]
    BY <1>1
  <2>. QED
    BY <2>1, <2>2 DEF Read
<1>4. e.r \in Read(m)
  <2>1. Len(n) + 1 \in 1 .. Len(m) /\ m[Len(n) + 1] = e
    BY <1>1
  <2>. QED
    BY <2>1 DEF Read
<1>5. ASSUME ReadOnce(n), e.r \notin Read(n) PROVE ReadOnce(m)
  <2>. SUFFICES ASSUME NEW i \in 1 .. Len(m), NEW j \in 1 .. Len(m), m[i].r = m[j].r
                PROVE  i = j
    BY DEF ReadOnce
  <2>1. CASE i # Len(n) + 1 /\ j # Len(n) + 1
    BY <1>1, <1>5, <2>1 DEF ReadOnce
  <2>2. CASE i = Len(n) + 1 /\ j # Len(n) + 1
    <3>1. j \in 1 .. Len(n) /\ n[j].r = e.r
      BY <1>1, <2>2
    <3>. QED
      BY <1>5, <3>1 DEF Read
  <2>3. CASE i # Len(n) + 1 /\ j = Len(n) + 1
    <3>1. i \in 1 .. Len(n) /\ n[i].r = e.r
      BY <1>1, <2>3
    <3>. QED
      BY <1>5, <3>1 DEF Read
  <2>. QED
    BY <2>1, <2>2, <2>3
<1>. QED
  BY <1>2, <1>3, <1>4, <1>5 DEF m

LEMMA ReadTail ==
  ASSUME NEW n \in Seq(Pauses), n # <<>>
  PROVE  /\ Head(n) \in Pauses
         /\ Read(n) = Read(Tail(n)) \cup {Head(n).r}
         /\ ReadOnce(n) => ReadOnce(Tail(n)) /\ Head(n).r \notin Read(Tail(n))
<1>. DEFINE m == Tail(n)
<1>1. /\ Len(n) \in Nat \ {0} /\ Len(m) = Len(n) - 1 /\ Head(n) = n[1] /\ 1 \in 1 .. Len(n)
      /\ n[1] \in Pauses
      /\ \A x \in 1 .. Len(m) : m[x] = n[x + 1] /\ x + 1 \in 1 .. Len(n)
  BY TailOf
<1>. HIDE DEF m
<1>2. ASSUME NEW q \in Read(m)
      PROVE  q \in Read(n) /\ \E i \in 2 .. Len(n) : n[i].r = q
  <2>1. PICK i \in 1 .. Len(m) : q = m[i].r
    BY <1>2 DEF Read
  <2>2. q = n[i + 1].r /\ i + 1 \in 1 .. Len(n) /\ i + 1 \in 2 .. Len(n)
    BY <1>1, <2>1
  <2>. QED
    BY <2>2 DEF Read
<1>3. ASSUME NEW q \in Read(n) PROVE q \in Read(m) \cup {Head(n).r}
  <2>1. PICK i \in 1 .. Len(n) : q = n[i].r
    BY <1>3 DEF Read
  <2>2. CASE i = 1
    BY <1>1, <2>1, <2>2
  <2>3. CASE i # 1
    <3>1. i - 1 \in 1 .. Len(m) /\ (i - 1) + 1 = i
      BY <1>1, <2>3
    <3>2. q = m[i - 1].r
      BY <1>1, <2>1, <3>1
    <3>. QED
      BY <3>1, <3>2 DEF Read
  <2>. QED
    BY <2>2, <2>3
<1>4. Head(n).r \in Read(n)
  BY <1>1 DEF Read
<1>5. ReadOnce(n) => ReadOnce(m)
  BY <1>1 DEF ReadOnce
<1>6. ASSUME ReadOnce(n) PROVE Head(n).r \notin Read(m)
  <2>. SUFFICES ASSUME Head(n).r \in Read(m) PROVE FALSE
    OBVIOUS
  <2>1. PICK i \in 2 .. Len(n) : n[i].r = Head(n).r
    BY <1>2
  <2>2. i \in 1 .. Len(n) /\ i # 1 /\ n[i].r = n[1].r
    BY <1>1, <2>1
  <2>. QED
    BY <1>1, <1>6, <2>2 DEF ReadOnce
<1>. QED
  BY <1>1, <1>2, <1>3, <1>4, <1>5, <1>6 DEF m

LEMMA LoadsOf ==
  ASSUME NEW n \in Seq(Messages)
  PROVE  /\ IsFiniteSet(Loads(n)) /\ Cardinality(Loads(n)) \in Nat
         /\ \A e \in Messages :
              Cardinality(Loads(Append(n, e)))
                = Cardinality(Loads(n)) + (IF e.msg = "loading" THEN 1 ELSE 0)
<1>1. Len(n) \in Nat
  OBVIOUS
<1>2. IsFiniteSet(Loads(n))
  <2>1. 1 \in Int /\ Len(n) \in Int
    BY <1>1
  <2>2. IsFiniteSet(1 .. Len(n))
    BY <2>1, FS_Interval
  <2>3. Loads(n) \subseteq 1 .. Len(n)
    BY DEF Loads
  <2>. QED
    BY <2>2, <2>3, FS_Subset
<1>3. Cardinality(Loads(n)) \in Nat
  BY <1>2, FS_CardinalityType
<1>4. ASSUME NEW e \in Messages
      PROVE  Cardinality(Loads(Append(n, e)))
               = Cardinality(Loads(n)) + (IF e.msg = "loading" THEN 1 ELSE 0)
  <2>. DEFINE m == Append(n, e)
  <2>1. /\ Len(m) = Len(n) + 1 /\ m[Len(n) + 1] = e
        /\ \A x \in 1 .. Len(n) : m[x] = n[x]
    BY AppendOf
  <2>. HIDE DEF m
  <2>2. CASE e.msg = "loading"
    <3>1. Loads(m) = Loads(n) \cup {Len(n) + 1}
      BY <1>1, <2>1, <2>2 DEF Loads
    <3>2. Len(n) + 1 \notin Loads(n)
      BY <1>1 DEF Loads
    <3>. QED
      BY <1>2, <2>2, <3>1, <3>2, FS_AddElement DEF m
  <2>3. CASE e.msg # "loading"
    <3>1. Loads(m) = Loads(n)
      BY <1>1, <2>1, <2>3 DEF Loads
    <3>. QED
      BY <1>3, <2>3, <3>1 DEF m
  <2>. QED
    BY <2>2, <2>3
<1>. QED
  BY <1>2, <1>3, <1>4

LEMMA LoadsTail ==
  ASSUME NEW n \in Seq(Messages), n # <<>>
  PROVE  /\ Cardinality(Loads(Tail(n))) <= Cardinality(Loads(n))
         /\ Head(n).msg = "loading" =>
              Cardinality(Loads(Tail(n))) + 1 <= Cardinality(Loads(n))
<1>. DEFINE m == Tail(n)
            S == Loads(n) \ {1}
            f == [i \in Loads(m) |-> i + 1]
<1>1. /\ Len(n) \in Nat \ {0} /\ m \in Seq(Messages) /\ Len(m) = Len(n) - 1
      /\ Head(n) = n[1] /\ 1 \in 1 .. Len(n)
      /\ \A x \in 1 .. Len(m) : m[x] = n[x + 1] /\ x + 1 \in 1 .. Len(n)
  BY TailOf
<1>2. IsFiniteSet(Loads(n)) /\ Cardinality(Loads(n)) \in Nat
      /\ IsFiniteSet(Loads(m)) /\ Cardinality(Loads(m)) \in Nat
  BY <1>1, LoadsOf
<1>. HIDE DEF m
<1>3. f \in Injection(Loads(m), S)
  <2>1. ASSUME NEW i \in Loads(m) PROVE i + 1 \in S
    <3>1. i \in 1 .. Len(m) /\ m[i].msg = "loading"
      BY DEF Loads
    <3>2. n[i + 1].msg = "loading" /\ i + 1 \in 1 .. Len(n) /\ i + 1 # 1
      BY <1>1, <3>1
    <3>. QED
      BY <3>2 DEF Loads
  <2>2. ASSUME NEW i \in Loads(m), NEW j \in Loads(m), f[i] = f[j] PROVE i = j
    <3>1. i \in Nat /\ j \in Nat /\ i + 1 = j + 1
      BY <1>1, <2>2 DEF Loads
    <3>. QED
      BY <3>1
  <2>3. f \in [Loads(m) -> S]
    BY <2>1
  <2>. QED
    BY <2>2, <2>3 DEF Injection, IsInjective
<1>4. /\ IsFiniteSet(S)
      /\ Cardinality(S) =
           IF 1 \in Loads(n) THEN Cardinality(Loads(n)) - 1 ELSE Cardinality(Loads(n))
  BY <1>2, FS_RemoveElement
<1>5. Cardinality(Loads(m)) <= Cardinality(S)
  <2>. HIDE DEF f
  <2>. QED
    BY <1>3, <1>4, FS_Injection
<1>6. Head(n).msg = "loading" => 1 \in Loads(n)
  BY <1>1 DEF Loads
<1>7. Cardinality(S) \in Nat
  BY <1>4, FS_CardinalityType
<1>. QED
  BY <1>2, <1>4, <1>5, <1>6, <1>7 DEF m

(* A request that was made keeps its kind, is never paused a second time,  *)
(* and is let through only by a command for it that was under way.         *)
Made(r) == req[r].status # "unmade"
MaySpeak(r, cmd) == cmd \in {"continue", "fulfill"} => req[r].kind # "block"
Recovering == {r \in Reqs : task[r].at \in {"stop", "after"}}

(* Each pause is in one place, and has no task before it is spawned.       *)
PausesOnce ==
  /\ SentOnce(wire) /\ ReadOnce(bus) /\ Posted(wire) \cap Read(bus) = {}
  /\ \A r \in Posted(wire) \cup Read(bus) :
       /\ Made(r) /\ task[r].at = "none"
       /\ ~(listener.at = "permit" /\ listener.r = r)
  /\ listener.at = "permit" => Made(listener.r) /\ task[listener.r].at = "none"
  /\ \A r \in Reqs : task[r].at # "none" => Made(r)

(* No command under way lets a blocked request through.                    *)
BlocksHeld ==
  /\ \A q \in Asked(out) : q[2] \in DOMAIN Terminal => Made(q[1]) /\ MaySpeak(q[1], q[2])
  /\ \A r \in Reqs : req[r].kind = "block" => req[r].status \notin {"continued", "fulfilled"}

RecoveryCounted ==
  /\ running <=> Recovering # {}
  /\ \A r, s \in Recovering : r = s

(* The session's epoch is behind the document by the navigations under way *)
(* at most, and the tasks are no more than the permits.                    *)
EpochBehind == epoch + Cardinality(Loads(wire)) <= doc
PermitsKept == IsFiniteSet(InFlight) /\ Cardinality(InFlight) <= MaxInFlight

FetchInductive ==
  FetchTypes /\ PausesOnce /\ BlocksHeld /\ RecoveryCounted /\ EpochBehind /\ PermitsKept

(* What a step does to the requests, when none is made.                    *)
Kept ==
  /\ req' \in [Reqs -> [doc : 0 .. MaxDoc, kind : Kinds, status : Statuses]]
  /\ \A r \in Reqs :
       /\ req'[r].kind = req[r].kind
       /\ req'[r].status = "unmade" <=> req[r].status = "unmade"
       /\ req'[r].status = "paused" => req[r].status = "paused"
       /\ req'[r].status \in {"continued", "fulfilled"} =>
            \/ req'[r].status = req[r].status
            \/ \E cmd \in {"continue", "fulfill"} : <<r, cmd>> \in Asked(out)

LEMMA BecomesEffect ==
  ASSUME FetchTypes, NEW rs, NEW status \in Statuses \ {"unmade", "paused"}, Becomes(rs, status)
  PROVE  /\ req' \in [Reqs -> [doc : 0 .. MaxDoc, kind : Kinds, status : Statuses]]
         /\ \A r \in Reqs :
              /\ req'[r].kind = req[r].kind
              /\ r \in rs /\ req[r].status = "paused" => req'[r].status = status
              /\ ~(r \in rs /\ req[r].status = "paused") => req'[r].status = req[r].status
<1>1. ASSUME NEW r \in Reqs
      PROVE  /\ req'[r] \in [doc : 0 .. MaxDoc, kind : Kinds, status : Statuses]
             /\ req'[r].kind = req[r].kind
             /\ r \in rs /\ req[r].status = "paused" => req'[r].status = status
             /\ ~(r \in rs /\ req[r].status = "paused") => req'[r].status = req[r].status
  <2>1. req[r] \in [doc : 0 .. MaxDoc, kind : Kinds, status : Statuses]
    BY DEF FetchTypes
  <2>2. CASE r \in rs /\ Paused(r)
    <3>. DEFINE new == [req[r] EXCEPT !.status = status]
    <3>1. req'[r] = new
      BY <2>2 DEF Becomes
    <3>2. /\ new \in [doc : 0 .. MaxDoc, kind : Kinds, status : Statuses]
          /\ new.kind = req[r].kind /\ new.status = status
      BY <2>1
    <3>. HIDE DEF new
    <3>. QED
      BY <2>2, <3>1, <3>2 DEF Paused
  <2>3. CASE ~(r \in rs /\ Paused(r))
    <3>1. req'[r] = req[r]
      BY <2>3 DEF Becomes
    <3>. QED
      BY <2>1, <2>3, <3>1 DEF Paused
  <2>. QED
    BY <2>2, <2>3
<1>2. req' = [r \in Reqs |-> req'[r]]
  BY DEF Becomes
<1>. QED
  BY <1>1, <1>2

LEMMA BecomesKept ==
  ASSUME FetchTypes, NEW rs, NEW status \in {"cancelled", "released", "failed"},
         Becomes(rs, status)
  PROVE  Kept
<1>1. status \in Statuses \ {"unmade", "paused"} /\ status \notin {"continued", "fulfilled"}
  BY DEF Statuses
<1>. QED
  BY <1>1, BecomesEffect DEF Kept

LEMMA SameKept == FetchTypes /\ UNCHANGED req => Kept
  BY DEF Kept, FetchTypes

(* What moving one task does.                                              *)
TaskMoved(r, at) ==
  /\ task' \in [Reqs -> [at : Places, epoch : 0 .. MaxDoc]]
  /\ task'[r].at = at /\ task'[r].epoch = task[r].epoch
  /\ \A s \in Reqs \ {r} : task'[s] = task[s]

LEMMA ToTaskEffect ==
  ASSUME FetchTypes, NEW r \in Reqs, NEW at \in Places, ToTask(r, at)
  PROVE  TaskMoved(r, at)
<1>. DEFINE new == [task[r] EXCEPT !.at = at]
<1>1. task[r] \in [at : Places, epoch : 0 .. MaxDoc] /\ DOMAIN task = Reqs
  BY DEF FetchTypes
<1>2. new \in [at : Places, epoch : 0 .. MaxDoc] /\ new.at = at /\ new.epoch = task[r].epoch
  BY <1>1
<1>3. task' = [task EXCEPT ![r] = new]
  BY <1>1 DEF ToTask
<1>. HIDE DEF new
<1>. QED
  BY <1>1, <1>2, <1>3 DEF FetchTypes, TaskMoved

LEMMA SendEffect ==
  ASSUME FetchTypes, NEW o \in Seq(Commands), NEW by \in Owners, NEW r \in Reqs \cup {None},
         NEW cmd \in Cmds, cmd \in DOMAIN Terminal => r \in Reqs,
         \A i \in DOMAIN o : o[i].cmd \in DOMAIN Terminal => o[i].r \in Reqs,
         out' = Append(o, [by |-> by, r |-> r, cmd |-> cmd])
  PROVE  /\ out' \in Seq(Commands) /\ Asked(out') = Asked(o) \cup {<<r, cmd>>}
         /\ \A i \in DOMAIN out' : out'[i].cmd \in DOMAIN Terminal => out'[i].r \in Reqs
<1>. DEFINE c == [by |-> by, r |-> r, cmd |-> cmd]
<1>1. c \in Commands /\ c.r = r /\ c.cmd = cmd
  BY DEF Commands
<1>. HIDE DEF c
<1>2. out' = Append(o, c)
  BY DEF c
<1>3. /\ out' \in Seq(Commands) /\ Len(out') = Len(o) + 1 /\ out'[Len(o) + 1] = c
      /\ \A x \in 1 .. Len(o) : out'[x] = o[x]
  BY <1>1, <1>2, AppendOf
<1>4. Asked(out') = Asked(o) \cup {<<r, cmd>>}
  BY <1>1, <1>2, AskedAppend
<1>5. ASSUME NEW i \in DOMAIN out', out'[i].cmd \in DOMAIN Terminal PROVE out'[i].r \in Reqs
  <2>1. Len(o) \in Nat /\ i \in 1 .. Len(o) + 1 /\ DOMAIN o = 1 .. Len(o)
    BY <1>3
  <2>2. CASE i = Len(o) + 1
    BY <1>1, <1>3, <1>5, <2>2
  <2>3. CASE i # Len(o) + 1
    BY <1>3, <1>5, <2>1, <2>3
  <2>. QED
    BY <2>2, <2>3
<1>. QED
  BY <1>3, <1>4, <1>5

(* What the tasks and the listener do between them: no task begins and no  *)
(* finished one goes on, the commands they add keep a blocked request      *)
(* blocked, and a task that leaves its first place has sent its command.   *)
TasksGo ==
  /\ task' \in [Reqs -> [at : Places, epoch : 0 .. MaxDoc]]
  /\ \A r \in Reqs : /\ task'[r].at = "none" <=> task[r].at = "none"
                     /\ task[r].at = "done" => task'[r].at = "done"
OutGrows ==
  /\ out' \in Seq(Commands)
  /\ \A i \in DOMAIN out' : out'[i].cmd \in DOMAIN Terminal => out'[i].r \in Reqs
  /\ Asked(out) \subseteq Asked(out')
  /\ \A q \in Asked(out') \ Asked(out) :
       q[2] \in DOMAIN Terminal => Made(q[1]) /\ MaySpeak(q[1], q[2])
ListenerGoes ==
  /\ listener' \in [at : ListenerPlaces, r : Reqs \cup {None}, epoch : 0 .. MaxDoc]
  /\ (listener.at = "permit" \/ listener'.at = "permit") => listener' = listener
SpawnedAsk ==
  \A r \in Reqs : task[r].at = "spawned" =>
    \/ task'[r].at = "spawned" \/ closed
    \/ \E cmd \in DOMAIN Terminal : <<r, cmd>> \in Asked(out')
Working ==
  /\ TasksGo /\ OutGrows /\ ListenerGoes /\ SpawnedAsk
  /\ running' \in BOOLEAN /\ (RecoveryCounted => RecoveryCounted')

LEMMA TaskGoes ==
  ASSUME FetchTypes, NEW r \in Reqs, NEW at \in Places \ {"none"}, ToTask(r, at),
         task[r].at \notin {"none", "done"}
  PROVE  /\ TasksGo /\ TaskMoved(r, at)
         /\ at \in {"stop", "after"} => Recovering' = Recovering \cup {r}
         /\ at \notin {"stop", "after"} => Recovering' = Recovering \ {r}
<1>1. TaskMoved(r, at)
  BY ToTaskEffect
<1>2. TasksGo
  BY <1>1 DEF TasksGo, TaskMoved
<1>3. \A s \in Reqs : s # r => task'[s].at = task[s].at
  BY <1>1 DEF TaskMoved
<1>4. task'[r].at = at
  BY <1>1 DEF TaskMoved
<1>. QED
  BY <1>1, <1>2, <1>3, <1>4 DEF Recovering

LEMMA SendGrows ==
  ASSUME FetchTypes, NEW o \in Seq(Commands), Asked(o) = Asked(out), NEW by \in Owners,
         \A i \in DOMAIN o : o[i].cmd \in DOMAIN Terminal => o[i].r \in Reqs,
         NEW r \in Reqs \cup {None}, NEW cmd \in Cmds,
         cmd \in DOMAIN Terminal => r \in Reqs /\ Made(r) /\ MaySpeak(r, cmd),
         out' = Append(o, [by |-> by, r |-> r, cmd |-> cmd])
  PROVE  OutGrows /\ <<r, cmd>> \in Asked(out')
<1>1. /\ out' \in Seq(Commands) /\ Asked(out') = Asked(out) \cup {<<r, cmd>>}
      /\ \A i \in DOMAIN out' : out'[i].cmd \in DOMAIN Terminal => out'[i].r \in Reqs
  BY SendEffect
<1>2. ASSUME NEW q \in Asked(out') \ Asked(out), q[2] \in DOMAIN Terminal
      PROVE  Made(q[1]) /\ MaySpeak(q[1], q[2])
  <2>1. q = <<r, cmd>>
    BY <1>1
  <2>2. q[1] = r /\ q[2] = cmd
    BY <2>1
  <2>. QED
    BY <1>2, <2>2
<1>. QED
  BY <1>1, <1>2 DEF OutGrows

LEMMA SentGrows ==
  ASSUME FetchTypes, NEW by \in Owners, NEW r \in Reqs \cup {None}, NEW cmd \in Cmds,
         cmd \in DOMAIN Terminal => r \in Reqs /\ Made(r) /\ MaySpeak(r, cmd), Send(by, r, cmd)
  PROVE  OutGrows /\ <<r, cmd>> \in Asked(out')
<1>1. /\ out \in Seq(Commands) /\ out' = Append(out, [by |-> by, r |-> r, cmd |-> cmd])
      /\ \A i \in DOMAIN out : out[i].cmd \in DOMAIN Terminal => out[i].r \in Reqs
  BY DEF FetchTypes, Send
<1>. QED
  BY <1>1, SendGrows

LEMMA OrphanedGrows ==
  ASSUME FetchTypes, NEW b \in Owners
  PROVE  /\ Orphaned(out, b) \in Seq(Commands) /\ Asked(Orphaned(out, b)) = Asked(out)
         /\ \A i \in DOMAIN Orphaned(out, b) :
              Orphaned(out, b)[i].cmd \in DOMAIN Terminal => Orphaned(out, b)[i].r \in Reqs
         /\ out' = Orphaned(out, b) => OutGrows
<1>. DEFINE o == Orphaned(out, b)
<1>1. out \in Seq(Commands) /\ \A i \in DOMAIN out : out[i].cmd \in DOMAIN Terminal => out[i].r \in Reqs
  BY DEF FetchTypes
<1>2. /\ o \in Seq(Commands) /\ Len(o) = Len(out)
      /\ \A x \in 1 .. Len(out) : o[x].r = out[x].r /\ o[x].cmd = out[x].cmd
  BY <1>1, OrphanedOut
<1>3. Asked(o) = Asked(out)
  BY <1>1, AskedOrphaned
<1>. HIDE DEF o
<1>4. \A i \in DOMAIN o : o[i].cmd \in DOMAIN Terminal => o[i].r \in Reqs
  BY <1>1, <1>2
<1>5. out' = o => OutGrows
  BY <1>2, <1>3, <1>4 DEF OutGrows
<1>. QED
  BY <1>2, <1>3, <1>4, <1>5 DEF o

LEMMA SameGrows == FetchTypes /\ UNCHANGED out => OutGrows
  BY DEF FetchTypes, OutGrows

LEMMA SameListener == FetchTypes /\ UNCHANGED listener => ListenerGoes
  BY DEF FetchTypes, ListenerGoes

LEMMA SameTasks == FetchTypes /\ UNCHANGED task => TasksGo /\ SpawnedAsk /\ Recovering' = Recovering
  BY DEF FetchTypes, TasksGo, SpawnedAsk, Recovering

(* The fallback of a task, and its first command.                          *)
LEMMA FallbackSpeaks ==
  ASSUME FetchTypes, PausesOnce, NEW r \in Reqs, task[r].at # "none"
  PROVE  /\ Fallback(r) \in Cmds /\ Fallback(r) \in DOMAIN Terminal
         /\ Made(r) /\ MaySpeak(r, Fallback(r))
         /\ \A cmd \in Primary(r) : cmd \in Cmds /\ cmd \in DOMAIN Terminal /\ MaySpeak(r, cmd)
<1>1. req[r].kind \in {"block", "rewrite", "continue"}
  BY DEF FetchTypes, Kinds
<1>2. Made(r)
  BY DEF PausesOnce
<1>3. Fallback(r) \in {"continue", "fail"} /\ (Fallback(r) = "continue" => req[r].kind = "rewrite")
  BY DEF Fallback
<1>4. CASE req[r].kind = "block"
  <2>1. Primary(r) = {"fail"} /\ Fallback(r) = "fail"
    BY <1>4 DEF Primary, Fallback
  <2>. QED
    BY <1>2, <2>1, TerminalCmds DEF Cmds, MaySpeak
<1>5. CASE req[r].kind # "block"
  <2>1. \A cmd \in Primary(r) : cmd \in {"fulfill", "continue"}
    BY <1>1, <1>5 DEF Primary
  <2>. QED
    BY <1>2, <1>3, <1>5, <2>1, TerminalCmds DEF Cmds, MaySpeak
<1>. QED
  BY <1>4, <1>5

LEMMA ListenerMoves ==
  ASSUME FetchTypes, NEW at \in ListenerPlaces \ {"permit"}, listener.at # "permit",
         listener' = [listener EXCEPT !.at = at]
  PROVE  ListenerGoes
<1>1. listener \in [at : ListenerPlaces, r : Reqs \cup {None}, epoch : 0 .. MaxDoc]
  BY DEF FetchTypes
<1>. QED
  BY <1>1 DEF ListenerGoes

LEMMA ResetsWork ==
  ASSUME FetchTypes, Resets, listener.at = "recv"
  PROVE  OutGrows /\ ListenerGoes /\ \E q \in Asked(out') : q[2] = "disable"
<1>1. /\ Listener \in Owners /\ None \in Reqs \cup {None} /\ "disable" \in Cmds
      /\ "disable" \notin DOMAIN Terminal
  BY TerminalCmds DEF Owners, Cmds
<1>2. OutGrows /\ <<None, "disable">> \in Asked(out')
  BY <1>1, SentGrows DEF Resets
<1>3. ListenerGoes
  BY ListenerMoves DEF Resets, ListenerPlaces
<1>. QED
  BY <1>2, <1>3

LEMMA ListenerReturnsWork ==
  ASSUME FetchTypes, ListenerReturns
  PROVE  Working
<1>1. UNCHANGED <<task, running>> /\ listener.at \in {"disable", "enable"}
  BY DEF ListenerReturns
<1>2. ListenerGoes
  BY ListenerMoves DEF ListenerReturns, ListenerPlaces
<1>3. OutGrows
  <2>1. CASE UNCHANGED out
    BY <2>1, SameGrows
  <2>2. CASE Send(Listener, None, "enable")
    <3>1. /\ Listener \in Owners /\ None \in Reqs \cup {None} /\ "enable" \in Cmds
          /\ "enable" \notin DOMAIN Terminal
      BY TerminalCmds DEF Owners, Cmds
    <3>. QED
      BY <2>2, <3>1, SentGrows
  <2>. QED
    BY <2>1, <2>2 DEF ListenerReturns
<1>4. TasksGo /\ SpawnedAsk /\ Recovering' = Recovering /\ running' = running /\ running \in BOOLEAN
  BY <1>1, SameTasks DEF FetchTypes
<1>. QED
  BY <1>2, <1>3, <1>4 DEF Working, RecoveryCounted

LEMMA ListenerTimeoutWorks ==
  ASSUME FetchTypes, ListenerTimeout
  PROVE  Working
<1>1. UNCHANGED <<task, running>> /\ listener.at \in {"disable", "enable"}
  BY DEF ListenerTimeout
<1>2. ListenerGoes
  BY ListenerMoves DEF ListenerTimeout, ListenerPlaces
<1>0. Listener \in Owners
  BY DEF Owners
<1>3. OutGrows
  <2>1. CASE out' = Orphaned(out, Listener)
    BY <1>0, <2>1, OrphanedGrows
  <2>2. CASE out' = Append(Orphaned(out, Listener), [by |-> Listener, r |-> None, cmd |-> "enable"])
    <3>1. /\ None \in Reqs \cup {None} /\ "enable" \in Cmds
          /\ "enable" \notin DOMAIN Terminal
      BY TerminalCmds DEF Cmds
    <3>2. /\ Orphaned(out, Listener) \in Seq(Commands) /\ Asked(Orphaned(out, Listener)) = Asked(out)
          /\ \A i \in DOMAIN Orphaned(out, Listener) :
               Orphaned(out, Listener)[i].cmd \in DOMAIN Terminal
                 => Orphaned(out, Listener)[i].r \in Reqs
      BY <1>0, OrphanedGrows
    <3>. QED
      BY <1>0, <2>2, <3>1, <3>2, SendGrows
  <2>. QED
    BY <2>1, <2>2 DEF ListenerTimeout
<1>4. TasksGo /\ SpawnedAsk /\ Recovering' = Recovering /\ running' = running /\ running \in BOOLEAN
  BY <1>1, SameTasks DEF FetchTypes
<1>. QED
  BY <1>2, <1>3, <1>4 DEF Working, RecoveryCounted

(* A task that goes on from its first place has sent its command; and the  *)
(* recovery flag is taken and given back with the places of a recovery.    *)
HasAsked(r) == closed \/ \E cmd \in DOMAIN Terminal : <<r, cmd>> \in Asked(out')
FlagGoes(r, at) ==
  \/ running' = running /\ (task[r].at \in {"stop", "after"} <=> at \in {"stop", "after"})
  \/ ~running /\ running' /\ at \in {"stop", "after"}
  \/ task[r].at \in {"stop", "after"} /\ ~running' /\ at \notin {"stop", "after"}

LEMMA TaskWorks ==
  ASSUME FetchTypes, NEW r \in Reqs, NEW at \in Places \ {"none"}, ToTask(r, at),
         task[r].at \notin {"none", "done"}, OutGrows, UNCHANGED listener, running' \in BOOLEAN,
         task[r].at = "spawned" => HasAsked(r), FlagGoes(r, at)
  PROVE  Working
<1>1. /\ TasksGo /\ TaskMoved(r, at)
      /\ at \in {"stop", "after"} => Recovering' = Recovering \cup {r}
      /\ at \notin {"stop", "after"} => Recovering' = Recovering \ {r}
  BY TaskGoes
<1>2. SpawnedAsk
  BY <1>1 DEF SpawnedAsk, TaskMoved, HasAsked
<1>3. ListenerGoes
  BY SameListener
<1>4. r \in Recovering <=> task[r].at \in {"stop", "after"}
  BY DEF Recovering
<1>5. ASSUME RecoveryCounted PROVE RecoveryCounted'
  <2>1. /\ running <=> Recovering # {}
        /\ \A x, y \in Recovering : x = y
    BY <1>5 DEF RecoveryCounted
  <2>2. CASE running' = running /\ (task[r].at \in {"stop", "after"} <=> at \in {"stop", "after"})
    <3>1. Recovering' = Recovering
      BY <1>1, <1>4, <2>2
    <3>. QED
      BY <2>1, <2>2, <3>1 DEF RecoveryCounted
  <2>3. CASE ~running /\ running' /\ at \in {"stop", "after"}
    <3>1. Recovering' = {r}
      BY <1>1, <2>1, <2>3
    <3>. QED
      BY <2>3, <3>1 DEF RecoveryCounted
  <2>4. CASE task[r].at \in {"stop", "after"} /\ ~running' /\ at \notin {"stop", "after"}
    <3>1. Recovering' = {}
      BY <1>1, <1>4, <2>1, <2>4
    <3>. QED
      BY <2>4, <3>1 DEF RecoveryCounted
  <2>. QED
    BY <2>2, <2>3, <2>4 DEF FlagGoes
<1>. QED
  BY <1>1, <1>2, <1>3, <1>5 DEF Working

LEMMA TaskReturnsWork ==
  ASSUME FetchTypes, PausesOnce, NEW r \in Reqs, NEW how, TaskReturns(r, how)
  PROVE  Working
<1>. USE DEF Places
<1>1. UNCHANGED <<listener, running>> /\ running \in BOOLEAN
  BY DEF TaskReturns, FetchTypes
<1>2. CASE task[r].at = "primary" /\ AfterPrimary(r, how)
  <2>1. CASE ToTask(r, "done") /\ UNCHANGED out
    BY <1>1, <1>2, <2>1, SameGrows, TaskWorks DEF FlagGoes
  <2>2. CASE ToTask(r, "fallback") /\ Send(r, r, Fallback(r))
    <3>1. OutGrows
      BY <1>2, <2>2, FallbackSpeaks, SentGrows DEF Owners
    <3>. QED
      BY <1>1, <1>2, <2>2, <3>1, TaskWorks DEF FlagGoes
  <2>. QED
    BY <1>2, <2>1, <2>2 DEF AfterPrimary
<1>3. CASE task[r].at = "fallback" /\ AfterFallback(r, how) /\ UNCHANGED out
  <2>1. PICK at \in {"done", "check"} : ToTask(r, at)
    BY <1>3 DEF AfterFallback
  <2>. QED
    BY <1>1, <1>3, <2>1, SameGrows, TaskWorks DEF FlagGoes
<1>4. CASE task[r].at = "stop" /\ ToTask(r, "after") /\ UNCHANGED out
  BY <1>1, <1>4, SameGrows, TaskWorks DEF FlagGoes
<1>. QED
  BY <1>2, <1>3, <1>4 DEF TaskReturns

LEMMA TaskTimeoutWorks ==
  ASSUME FetchTypes, PausesOnce, NEW r \in Reqs, TaskTimeout(r)
  PROVE  Working
<1>. USE DEF Places
<1>1. UNCHANGED <<listener, running>> /\ running \in BOOLEAN /\ r \in Owners
  BY DEF TaskTimeout, FetchTypes, Owners
<1>2. CASE /\ task[r].at = "primary" /\ ToTask(r, "fallback")
           /\ out' = Append(Orphaned(out, r), [by |-> r, r |-> r, cmd |-> Fallback(r)])
  <2>1. /\ Orphaned(out, r) \in Seq(Commands) /\ Asked(Orphaned(out, r)) = Asked(out)
        /\ \A i \in DOMAIN Orphaned(out, r) :
             Orphaned(out, r)[i].cmd \in DOMAIN Terminal => Orphaned(out, r)[i].r \in Reqs
    BY <1>1, OrphanedGrows
  <2>2. OutGrows
    BY <1>1, <1>2, <2>1, FallbackSpeaks, SendGrows
  <2>. QED
    BY <1>1, <1>2, <2>2, TaskWorks DEF FlagGoes
<1>3. CASE task[r].at = "fallback" /\ AfterFallback(r, "timeout") /\ out' = Orphaned(out, r)
  <2>1. PICK at \in {"done", "check"} : ToTask(r, at)
    BY <1>3 DEF AfterFallback
  <2>. QED
    BY <1>1, <1>3, <2>1, OrphanedGrows, TaskWorks DEF FlagGoes
<1>4. CASE task[r].at = "stop" /\ ToTask(r, "after") /\ out' = Orphaned(out, r)
  BY <1>1, <1>4, OrphanedGrows, TaskWorks DEF FlagGoes
<1>. QED
  BY <1>2, <1>3, <1>4 DEF TaskTimeout

LEMMA TaskStepWorks ==
  ASSUME FetchTypes, PausesOnce, NEW r \in Reqs, TaskStep(r)
  PROVE  Working /\ UNCHANGED <<browser, wire, errors, epoch, bus, lagged, closed>>
<1>. USE DEF Places
<1>1. CASE Act(r)
  <2>1. task[r].at = "spawned" /\ UNCHANGED <<listener, running>> /\ running \in BOOLEAN
    BY <1>1 DEF Act, FetchTypes
  <2>2. ASSUME closed /\ ToTask(r, "done") /\ UNCHANGED out PROVE Working
    <3>1. HasAsked(r)
      BY <2>2 DEF HasAsked
    <3>2. FlagGoes(r, "done")
      BY <2>1 DEF FlagGoes
    <3>. QED
      BY <2>1, <2>2, <3>1, <3>2, SameGrows, TaskWorks
  <2>3. ASSUME \E cmd \in Primary(r) : ToTask(r, "primary") /\ Send(r, r, cmd) PROVE Working
    <3>1. PICK cmd \in Primary(r) : ToTask(r, "primary") /\ Send(r, r, cmd)
      BY <2>3
    <3>2. cmd \in Cmds /\ cmd \in DOMAIN Terminal /\ MaySpeak(r, cmd) /\ Made(r)
      BY <2>1, FallbackSpeaks
    <3>3. OutGrows /\ <<r, cmd>> \in Asked(out')
      BY <3>1, <3>2, SentGrows DEF Owners
    <3>4. HasAsked(r)
      BY <3>2, <3>3 DEF HasAsked
    <3>5. FlagGoes(r, "primary")
      BY <2>1 DEF FlagGoes
    <3>. QED
      BY <2>1, <3>1, <3>3, <3>4, <3>5, TaskWorks
  <2>4. Working
    BY <1>1, <2>2, <2>3 DEF Act
  <2>. QED
    BY <1>1, <2>4 DEF Act
<1>2. CASE RecoverCheck(r)
  <2>1. task[r].at = "check" /\ UNCHANGED <<out, listener, running>> /\ running \in BOOLEAN
    BY <1>2 DEF RecoverCheck, FetchTypes
  <2>2. PICK at \in {"done", "claim"} : ToTask(r, at)
    BY <1>2 DEF RecoverCheck
  <2>3. Working
    BY <2>1, <2>2, SameGrows, TaskWorks DEF FlagGoes
  <2>. QED
    BY <1>2, <2>3 DEF RecoverCheck
<1>3. CASE RecoverClaim(r)
  <2>1. task[r].at = "claim" /\ UNCHANGED listener /\ running \in BOOLEAN
    BY <1>3 DEF RecoverClaim, FetchTypes
  <2>2. ASSUME running /\ ToTask(r, "done") /\ UNCHANGED <<running, out>> PROVE Working
    <3>1. FlagGoes(r, "done") /\ running' \in BOOLEAN
      BY <2>1, <2>2 DEF FlagGoes
    <3>. QED
      BY <2>1, <2>2, <3>1, SameGrows, TaskWorks
  <2>3. ASSUME ~running /\ running' = TRUE /\ ToTask(r, "after") /\ UNCHANGED out PROVE Working
    <3>1. FlagGoes(r, "after") /\ running' \in BOOLEAN
      BY <2>1, <2>3 DEF FlagGoes
    <3>. QED
      BY <2>1, <2>3, <3>1, SameGrows, TaskWorks
  <2>4. ASSUME ~running /\ running' = TRUE /\ ToTask(r, "stop") /\ Send(r, r, "stop") PROVE Working
    <3>1. "stop" \in Cmds /\ "stop" \notin DOMAIN Terminal /\ r \in Owners
      BY TerminalCmds DEF Cmds, Owners
    <3>2. OutGrows
      BY <2>4, <3>1, SentGrows
    <3>3. FlagGoes(r, "stop") /\ running' \in BOOLEAN
      BY <2>1, <2>4 DEF FlagGoes
    <3>. QED
      BY <2>1, <2>4, <3>2, <3>3, TaskWorks
  <2>5. Working
    BY <1>3, <2>2, <2>3, <2>4 DEF RecoverClaim
  <2>. QED
    BY <1>3, <2>5 DEF RecoverClaim
<1>4. CASE RecoverEnds(r)
  <2>1. task[r].at = "after" /\ UNCHANGED <<out, listener>> /\ running' = FALSE
    BY <1>4 DEF RecoverEnds
  <2>2. PICK at \in {"done", "reported"} : ToTask(r, at)
    BY <1>4 DEF RecoverEnds
  <2>3. Working
    BY <2>1, <2>2, SameGrows, TaskWorks DEF FlagGoes
  <2>. QED
    BY <1>4, <2>3 DEF RecoverEnds
<1>5. CASE Reported(r)
  <2>1. /\ task[r].at = "reported" /\ UNCHANGED <<out, listener, running>> /\ running \in BOOLEAN
        /\ ToTask(r, "done")
    BY <1>5 DEF Reported, FetchTypes
  <2>2. Working
    BY <2>1, SameGrows, TaskWorks DEF FlagGoes
  <2>. QED
    BY <1>5, <2>2 DEF Reported
<1>. QED
  BY <1>1, <1>2, <1>3, <1>4, <1>5 DEF TaskStep

(* What a step leaves of the queues when it makes no request and publishes *)
(* none; and the part of the types that is one value each.                 *)
OutFine ==
  /\ out' \in Seq(Commands)
  /\ \A i \in DOMAIN out' : out'[i].cmd \in DOMAIN Terminal => out'[i].r \in Reqs
  /\ \A q \in Asked(out') \ Asked(out) :
       q[2] \in DOMAIN Terminal => Made(q[1]) /\ MaySpeak(q[1], q[2])
WireShrinks ==
  /\ wire' \in Seq(Messages)
  /\ \A i \in DOMAIN wire' : wire'[i].msg = "paused" => wire'[i].by \in Reqs
  /\ SentOnce(wire') /\ Posted(wire') \subseteq Posted(wire)
BusShrinks ==
  /\ bus' \in Seq(Pauses) /\ Len(bus') <= BusCap
  /\ ReadOnce(bus') /\ Read(bus') \subseteq Read(bus)
ScalarTypes ==
  /\ doc \in 1 .. MaxDoc /\ epoch \in 1 .. MaxDoc /\ errors \in 0 .. MaxErrors
  /\ {fetch, lagged, closed, running} \subseteq BOOLEAN

LEMMA AskedReqs ==
  ASSUME NEW o \in Seq(Commands), \A i \in DOMAIN o : o[i].cmd \in DOMAIN Terminal => o[i].r \in Reqs
  PROVE  \A q \in Asked(o) : q[2] \in DOMAIN Terminal => q[1] \in Reqs
<1>. SUFFICES ASSUME NEW q \in Asked(o), q[2] \in DOMAIN Terminal PROVE q[1] \in Reqs
  OBVIOUS
<1>1. PICK i \in 1 .. Len(o) : q = <<o[i].r, o[i].cmd>>
  BY DEF Asked
<1>2. i \in DOMAIN o /\ q[1] = o[i].r /\ q[2] = o[i].cmd
  BY <1>1
<1>. QED
  BY <1>2

LEMMA PostedReqs ==
  ASSUME FetchTypes
  PROVE  Posted(wire) \subseteq Reqs /\ Read(bus) \subseteq Reqs
<1>1. ASSUME NEW r \in Posted(wire) PROVE r \in Reqs
  <2>1. PICK i \in 1 .. Len(wire) : wire[i].msg = "paused" /\ wire[i].by = r
    BY <1>1 DEF Posted
  <2>2. i \in DOMAIN wire
    BY DEF FetchTypes
  <2>. QED
    BY <2>1, <2>2 DEF FetchTypes
<1>2. ASSUME NEW r \in Read(bus) PROVE r \in Reqs
  <2>1. PICK i \in 1 .. Len(bus) : bus[i].r = r
    BY <1>2 DEF Read
  <2>2. bus[i] \in Pauses
    BY DEF FetchTypes
  <2>. QED
    BY <2>1, <2>2 DEF Pauses
<1>. QED
  BY <1>1, <1>2

LEMMA QuietStep ==
  ASSUME FetchInductive, Kept, TasksGo, OutFine, ListenerGoes, WireShrinks, BusShrinks,
         ScalarTypes', RecoveryCounted => RecoveryCounted'
  PROVE  /\ FetchTypes' /\ PausesOnce' /\ BlocksHeld' /\ RecoveryCounted' /\ PermitsKept'
<1>1. /\ FetchTypes /\ PausesOnce /\ BlocksHeld /\ RecoveryCounted /\ PermitsKept
  BY DEF FetchInductive
<1>2. FetchTypes'
  <2>1. listener'.at = "permit" => listener'.r \in Reqs
    BY <1>1 DEF FetchTypes, ListenerGoes
  <2>. QED
    BY <2>1 DEF FetchTypes, Kept, TasksGo, OutFine, ListenerGoes, WireShrinks, BusShrinks, ScalarTypes
<1>3. \A r \in Reqs : /\ Made(r)' <=> Made(r)
                      /\ task'[r].at = "none" <=> task[r].at = "none"
  BY DEF Kept, TasksGo, Made
<1>4. PausesOnce'
  <2>1. Posted(wire') \cap Read(bus') = {}
    BY <1>1 DEF PausesOnce, WireShrinks, BusShrinks
  <2>2. ASSUME NEW r \in Posted(wire') \cup Read(bus')
        PROVE  /\ Made(r)' /\ task'[r].at = "none"
               /\ ~(listener'.at = "permit" /\ listener'.r = r)
    <3>1. r \in Posted(wire) \cup Read(bus) /\ r \in Reqs
      BY <1>1, PostedReqs DEF WireShrinks, BusShrinks
    <3>2. Made(r) /\ task[r].at = "none" /\ ~(listener.at = "permit" /\ listener.r = r)
      BY <1>1, <3>1 DEF PausesOnce
    <3>. QED
      BY <1>3, <3>1, <3>2 DEF ListenerGoes
  <2>3. ASSUME listener'.at = "permit" PROVE Made(listener.r)' /\ task'[listener'.r].at = "none"
    <3>1. listener' = listener /\ listener.at = "permit"
      BY <2>3 DEF ListenerGoes
    <3>2. Made(listener.r) /\ task[listener.r].at = "none" /\ listener.r \in Reqs
      BY <1>1, <3>1 DEF PausesOnce, FetchTypes
    <3>3. req'[listener.r].status # "unmade" /\ task'[listener.r].at = "none"
      BY <1>3, <3>2 DEF Made
    <3>. QED
      BY <3>1, <3>3 DEF Made
  <2>4. ASSUME NEW r \in Reqs, task'[r].at # "none" PROVE Made(r)'
    BY <1>1, <1>3, <2>4 DEF PausesOnce
  <2>. QED
    BY <2>1, <2>2, <2>3, <2>4 DEF PausesOnce, WireShrinks, BusShrinks
<1>5. BlocksHeld'
  <2>1. ASSUME NEW q \in Asked(out'), q[2] \in DOMAIN Terminal
        PROVE  Made(q[1])' /\ MaySpeak(q[1], q[2])'
    <3>1. Made(q[1]) /\ MaySpeak(q[1], q[2])
      BY <1>1, <2>1 DEF BlocksHeld, OutFine
    <3>2. q[1] \in Reqs
      BY <2>1, AskedReqs DEF OutFine
    <3>3. req'[q[1]].kind = req[q[1]].kind /\ (Made(q[1])' <=> Made(q[1]))
      BY <1>3, <3>2 DEF Kept
    <3>. QED
      BY <3>1, <3>3 DEF MaySpeak
  <2>2. ASSUME NEW r \in Reqs, req'[r].kind = "block"
        PROVE  req'[r].status \notin {"continued", "fulfilled"}
    <3>. SUFFICES ASSUME req'[r].status \in {"continued", "fulfilled"} PROVE FALSE
      OBVIOUS
    <3>1. req[r].kind = "block" /\ req[r].status \notin {"continued", "fulfilled"}
      BY <1>1, <2>2 DEF Kept, BlocksHeld
    <3>2. PICK cmd \in {"continue", "fulfill"} : <<r, cmd>> \in Asked(out)
      BY <3>1 DEF Kept
    <3>3. <<r, cmd>>[1] = r /\ <<r, cmd>>[2] = cmd /\ cmd \in DOMAIN Terminal
      BY TerminalCmds
    <3>4. MaySpeak(r, cmd)
      BY <1>1, <3>2, <3>3 DEF BlocksHeld
    <3>. QED
      BY <3>1, <3>4 DEF MaySpeak
  <2>. QED
    BY <2>1, <2>2 DEF BlocksHeld
<1>6. PermitsKept'
  <2>1. InFlight' \subseteq InFlight
    BY <1>3 DEF InFlight, TasksGo
  <2>2. IsFiniteSet(InFlight) /\ Cardinality(InFlight) <= MaxInFlight
    BY <1>1 DEF PermitsKept
  <2>3. IsFiniteSet(InFlight') /\ Cardinality(InFlight') <= Cardinality(InFlight)
    BY <2>1, <2>2, FS_Subset
  <2>4. Cardinality(InFlight) \in Nat /\ Cardinality(InFlight') \in Nat
    BY <2>2, <2>3, FS_CardinalityType
  <2>. QED
    BY <2>2, <2>3, <2>4, PausedAssumption DEF PermitsKept
<1>. QED
  BY <1>1, <1>2, <1>4, <1>5, <1>6

LEMMA WireShrunk ==
  ASSUME FetchTypes, PausesOnce, wire' \in Seq(Messages), SentOnce(wire'),
         Posted(wire') \subseteq Posted(wire)
  PROVE  WireShrinks
<1>1. ASSUME NEW i \in DOMAIN wire', wire'[i].msg = "paused" PROVE wire'[i].by \in Reqs
  <2>1. i \in 1 .. Len(wire')
    OBVIOUS
  <2>2. wire'[i].by \in Posted(wire')
    BY <1>1, <2>1 DEF Posted
  <2>. QED
    BY <2>2, PostedReqs
<1>. QED
  BY <1>1 DEF WireShrinks

LEMMA WireSame ==
  ASSUME FetchTypes, PausesOnce, UNCHANGED wire
  PROVE  WireShrinks /\ Posted(wire') = Posted(wire) /\ Loads(wire') = Loads(wire)
  BY WireShrunk DEF FetchTypes, PausesOnce

LEMMA WireAppend ==
  ASSUME FetchTypes, PausesOnce, NEW e \in Messages, e.msg # "paused", wire' = Append(wire, e)
  PROVE  /\ WireShrinks /\ Posted(wire') = Posted(wire)
         /\ Cardinality(Loads(wire'))
              = Cardinality(Loads(wire)) + (IF e.msg = "loading" THEN 1 ELSE 0)
<1>1. wire \in Seq(Messages) /\ SentOnce(wire)
  BY DEF FetchTypes, PausesOnce
<1>2. Posted(wire') = Posted(wire) /\ SentOnce(wire')
  BY <1>1, PostedAppend
<1>3. Cardinality(Loads(wire')) = Cardinality(Loads(wire)) + (IF e.msg = "loading" THEN 1 ELSE 0)
  BY <1>1, LoadsOf
<1>4. wire' \in Seq(Messages)
  BY <1>1
<1>. QED
  BY <1>2, <1>3, <1>4, WireShrunk

LEMMA WireTail ==
  ASSUME FetchTypes, PausesOnce, wire # <<>>, wire' = Tail(wire)
  PROVE  /\ WireShrinks /\ Head(wire) \in Messages
         /\ Head(wire).msg # "paused" => Posted(wire') = Posted(wire)
         /\ Head(wire).msg = "paused" => /\ Posted(wire) = Posted(wire') \cup {Head(wire).by}
                                         /\ Head(wire).by \notin Posted(wire')
                                         /\ Head(wire).by \in Reqs
         /\ Cardinality(Loads(wire')) <= Cardinality(Loads(wire))
         /\ Head(wire).msg = "loading" =>
              Cardinality(Loads(wire')) + 1 <= Cardinality(Loads(wire))
<1>1. wire \in Seq(Messages) /\ SentOnce(wire) /\ Posted(wire) \subseteq Reqs
  BY PostedReqs DEF FetchTypes, PausesOnce
<1>2. /\ Head(wire) \in Messages
      /\ Head(wire).msg = "paused" => Posted(wire) = Posted(wire') \cup {Head(wire).by}
      /\ Head(wire).msg # "paused" => Posted(wire) = Posted(wire')
      /\ SentOnce(wire')
      /\ Head(wire).msg = "paused" => Head(wire).by \notin Posted(wire')
  BY <1>1, PostedTail
<1>3. wire' \in Seq(Messages) /\ Posted(wire') \subseteq Posted(wire)
  BY <1>1, <1>2
<1>4. WireShrinks
  BY <1>2, <1>3, WireShrunk
<1>5. /\ Cardinality(Loads(wire')) <= Cardinality(Loads(wire))
      /\ Head(wire).msg = "loading" =>
              Cardinality(Loads(wire')) + 1 <= Cardinality(Loads(wire))
  BY <1>1, LoadsTail
<1>. QED
  BY <1>1, <1>2, <1>4, <1>5

LEMMA WireOrphaned ==
  ASSUME FetchTypes, PausesOnce, NEW b \in Owners, wire' = Orphaned(wire, b)
  PROVE  WireShrinks /\ Posted(wire') = Posted(wire) /\ Loads(wire') = Loads(wire)
<1>1. wire \in Seq(Messages) /\ SentOnce(wire)
  BY DEF FetchTypes, PausesOnce
<1>2. wire' \in Seq(Messages)
  BY <1>1, OrphanedWire
<1>3. Posted(wire') = Posted(wire) /\ SentOnce(wire') /\ Loads(wire') = Loads(wire)
  BY <1>1, PostedOrphaned
<1>. QED
  BY <1>2, <1>3, WireShrunk

LEMMA BusSame == FetchTypes /\ PausesOnce /\ UNCHANGED bus => BusShrinks
  BY DEF FetchTypes, PausesOnce, BusShrinks

LEMMA BusTail ==
  ASSUME FetchTypes, PausesOnce, bus # <<>>, bus' = Tail(bus)
  PROVE  /\ BusShrinks /\ Head(bus) \in Pauses
         /\ Read(bus) = Read(bus') \cup {Head(bus).r} /\ Head(bus).r \notin Read(bus')
<1>1. bus \in Seq(Pauses) /\ ReadOnce(bus) /\ Len(bus) <= BusCap /\ Len(bus) \in Nat
  BY DEF FetchTypes, PausesOnce
<1>2. /\ Head(bus) \in Pauses /\ Read(bus) = Read(bus') \cup {Head(bus).r}
      /\ ReadOnce(bus') /\ Head(bus).r \notin Read(bus')
  BY <1>1, ReadTail
<1>3. bus' \in Seq(Pauses) /\ Len(bus') = Len(bus) - 1
  BY <1>1, TailOf
<1>4. Len(bus') <= BusCap
  BY <1>1, <1>3, PausedAssumption
<1>. QED
  BY <1>2, <1>3, <1>4 DEF BusShrinks

LEMMA OutTail ==
  ASSUME FetchTypes, out # <<>>, out' = Tail(out)
  PROVE  /\ OutFine /\ Head(out) \in Commands
         /\ Asked(out) = Asked(out') \cup {<<Head(out).r, Head(out).cmd>>}
         /\ Head(out).cmd \in DOMAIN Terminal => Head(out).r \in Reqs
<1>1. out \in Seq(Commands) /\ \A i \in DOMAIN out : out[i].cmd \in DOMAIN Terminal => out[i].r \in Reqs
  BY DEF FetchTypes
<1>2. /\ Len(out) \in Nat \ {0} /\ out' \in Seq(Commands) /\ Len(out') = Len(out) - 1
      /\ Head(out) = out[1] /\ 1 \in 1 .. Len(out) /\ out[1] \in Commands
      /\ \A x \in 1 .. Len(out') : out'[x] = out[x + 1] /\ x + 1 \in 1 .. Len(out)
  BY <1>1, TailOf
<1>3. Asked(out) = Asked(out') \cup {<<Head(out).r, Head(out).cmd>>}
  BY <1>1, AskedTail
<1>4. \A i \in DOMAIN out' : out'[i].cmd \in DOMAIN Terminal => out'[i].r \in Reqs
  BY <1>1, <1>2
<1>5. Head(out).cmd \in DOMAIN Terminal => Head(out).r \in Reqs
  BY <1>1, <1>2
<1>. QED
  BY <1>2, <1>3, <1>4, <1>5 DEF OutFine

LEMMA GrowsFine == OutGrows => OutFine
  BY DEF OutGrows, OutFine

(* The scalars and the epoch of a step that leaves document and epoch.     *)
LEMMA StillBehind ==
  ASSUME FetchTypes, EpochBehind, UNCHANGED <<doc, epoch>>, wire' \in Seq(Messages),
         Cardinality(Loads(wire')) <= Cardinality(Loads(wire))
  PROVE  EpochBehind'
<1>1. Cardinality(Loads(wire)) \in Nat /\ Cardinality(Loads(wire')) \in Nat
  BY LoadsOf DEF FetchTypes
<1>2. doc \in Nat /\ epoch \in Nat
  BY PausedAssumption DEF FetchTypes
<1>. QED
  BY <1>1, <1>2 DEF EpochBehind

(* Steps of the tasks and of the listener.                                 *)
LEMMA WorkingStep ==
  ASSUME FetchInductive, Working, UNCHANGED <<doc, req, fetch, errors, epoch, closed>>,
         lagged' \in BOOLEAN, WireShrinks, BusShrinks,
         Cardinality(Loads(wire')) <= Cardinality(Loads(wire))
  PROVE  FetchInductive'
<1>1. FetchTypes /\ PausesOnce /\ EpochBehind
  BY DEF FetchInductive
<1>2. Kept
  BY <1>1, SameKept
<1>3. ScalarTypes'
  BY <1>1 DEF ScalarTypes, FetchTypes, Working
<1>4. /\ FetchTypes' /\ PausesOnce' /\ BlocksHeld' /\ RecoveryCounted' /\ PermitsKept'
  BY <1>2, <1>3, GrowsFine, QuietStep DEF Working
<1>5. EpochBehind'
  BY <1>1, StillBehind DEF WireShrinks
<1>. QED
  BY <1>4, <1>5 DEF FetchInductive

LEMMA ObeyKeeps ==
  ASSUME FetchTypes, out # <<>>, NEW c, c = Head(out), Obey(c)
  PROVE  Kept /\ fetch' \in BOOLEAN
<1>1. c \in Commands /\ <<c.r, c.cmd>> \in Asked(out)
  <2>1. out \in Seq(Commands)
    BY DEF FetchTypes
  <2>2. Head(out) \in Commands
    BY <2>1
  <2>. QED
    BY <2>1, <2>2, AskedTail
<1>2. c.cmd \in Cmds
  BY <1>1 DEF Commands
<1>3. fetch \in BOOLEAN
  BY DEF FetchTypes
<1>4. CASE c.cmd = "fail"
  <2>1. Becomes({c.r}, Terminal[c.cmd]) /\ UNCHANGED fetch
    BY <1>4, TerminalCmds DEF Obey
  <2>2. Terminal[c.cmd] = "failed"
    BY <1>4 DEF Terminal
  <2>. QED
    BY <1>3, <2>1, <2>2, BecomesKept
<1>5. CASE c.cmd \in {"continue", "fulfill"}
  <2>0. Terminal[c.cmd] \in {"continued", "fulfilled"}
    BY <1>5 DEF Terminal
  <2>2. Becomes({c.r}, Terminal[c.cmd]) /\ UNCHANGED fetch
    BY <1>5, TerminalCmds DEF Obey
  <2>1. PICK status \in {"continued", "fulfilled"} : Becomes({c.r}, status)
    BY <2>0, <2>2
  <2>3. status \in Statuses \ {"unmade", "paused"}
    BY <2>1 DEF Statuses
  <2>4. /\ req' \in [Reqs -> [doc : 0 .. MaxDoc, kind : Kinds, status : Statuses]]
        /\ \A r \in Reqs :
             /\ req'[r].kind = req[r].kind
             /\ r \in {c.r} /\ req[r].status = "paused" => req'[r].status = status
             /\ ~(r \in {c.r} /\ req[r].status = "paused") => req'[r].status = req[r].status
    BY <2>1, <2>3, BecomesEffect
  <2>5. \A r \in Reqs : \/ req'[r].status = req[r].status
                        \/ \E cmd \in {"continue", "fulfill"} : <<r, cmd>> \in Asked(out)
    BY <1>1, <1>5, <2>4
  <2>. QED
    BY <1>3, <2>2, <2>3, <2>4, <2>5 DEF Kept
<1>6. CASE c.cmd = "stop"
  <2>1. Becomes(Reqs, "cancelled") /\ UNCHANGED fetch
    BY <1>6, TerminalCmds DEF Obey
  <2>. QED
    BY <1>3, <2>1, BecomesKept
<1>7. CASE c.cmd = "disable"
  <2>1. Becomes(Reqs, "released") /\ fetch' = FALSE
    BY <1>7, TerminalCmds DEF Obey
  <2>. QED
    BY <2>1, BecomesKept
<1>8. CASE c.cmd = "enable"
  <2>1. fetch' = TRUE /\ UNCHANGED req
    BY <1>8, TerminalCmds DEF Obey
  <2>. QED
    BY <2>1, SameKept
<1>. QED
  BY <1>2, <1>4, <1>5, <1>6, <1>7, <1>8 DEF Cmds

LEMMA CarryStep == FetchInductive /\ Carry => FetchInductive'
<1>. SUFFICES ASSUME FetchInductive, Carry PROVE FetchInductive'
  OBVIOUS
<1>. DEFINE c == Head(out)
<1>1. FetchTypes /\ PausesOnce /\ EpochBehind
  BY DEF FetchInductive
<1>2. out # <<>> /\ out' = Tail(out) /\ UNCHANGED <<doc, epoch, bus, lagged, closed, listener, task, running>>
  BY DEF Carry, tasks
<1>3. OutFine /\ c \in Commands
  BY <1>1, <1>2, OutTail
<1>4. PICK how \in {"ok", "gone", "error"} : Reply(c, how)
  BY DEF Carry
<1>5. Kept /\ fetch' \in BOOLEAN
  <2>1. CASE Obey(c)
    BY <1>1, <1>2, <2>1, ObeyKeeps
  <2>2. CASE UNCHANGED <<req, fetch>>
    BY <1>1, <2>2, SameKept DEF FetchTypes
  <2>. QED
    BY <2>1, <2>2 DEF Carry
<1>6. errors' \in 0 .. MaxErrors
  BY <1>1, PausedAssumption DEF Carry, FetchTypes
<1>7. ScalarTypes'
  BY <1>1, <1>2, <1>5, <1>6 DEF ScalarTypes, FetchTypes
<1>8. /\ WireShrinks /\ Posted(wire') = Posted(wire)
      /\ Cardinality(Loads(wire')) = Cardinality(Loads(wire)) + 0
  <2>. DEFINE e == [by |-> c.by, msg |-> how]
  <2>1. e \in Messages /\ e.msg \notin {"paused", "loading"} /\ wire' = Append(wire, e)
    BY <1>3, <1>4 DEF Messages, Commands, Reply
  <2>. HIDE DEF e
  <2>2. /\ WireShrinks /\ Posted(wire') = Posted(wire)
        /\ Cardinality(Loads(wire'))
              = Cardinality(Loads(wire)) + (IF e.msg = "loading" THEN 1 ELSE 0)
    BY <1>1, <2>1, WireAppend
  <2>. QED
    BY <2>1, <2>2
<1>9. TasksGo /\ ListenerGoes /\ BusShrinks /\ (RecoveryCounted => RecoveryCounted')
  BY <1>1, <1>2, SameTasks, SameListener, BusSame DEF RecoveryCounted
<1>10. /\ FetchTypes' /\ PausesOnce' /\ BlocksHeld' /\ RecoveryCounted' /\ PermitsKept'
  BY <1>3, <1>5, <1>7, <1>8, <1>9, QuietStep
<1>11. EpochBehind'
  <2>1. Cardinality(Loads(wire)) \in Nat
    BY <1>1, LoadsOf DEF FetchTypes
  <2>2. Cardinality(Loads(wire')) <= Cardinality(Loads(wire))
    BY <1>8, <2>1
  <2>. QED
    BY <1>1, <1>2, <1>8, <2>2, StillBehind DEF WireShrinks
<1>. QED
  BY <1>10, <1>11 DEF FetchInductive

LEMMA NavigateStep == FetchInductive /\ Navigate => FetchInductive'
<1>. SUFFICES ASSUME FetchInductive, Navigate PROVE FetchInductive'
  OBVIOUS
<1>. DEFINE e == [by |-> None, msg |-> "loading"]
<1>1. FetchTypes /\ PausesOnce /\ EpochBehind
  BY DEF FetchInductive
<1>2. /\ doc < MaxDoc /\ doc' = doc + 1 /\ Becomes(Reqs, "cancelled") /\ wire' = Append(wire, e)
      /\ UNCHANGED <<fetch, out, errors, epoch, bus, lagged, closed, listener, task, running>>
  BY DEF Navigate, tasks
<1>3. e \in Messages /\ e.msg = "loading"
  BY DEF Messages, Owners
<1>. HIDE DEF e
<1>4. /\ WireShrinks
      /\ Cardinality(Loads(wire')) = Cardinality(Loads(wire)) + (IF e.msg = "loading" THEN 1 ELSE 0)
  BY <1>1, <1>2, <1>3, WireAppend
<1>5. Kept
  BY <1>1, <1>2, BecomesKept
<1>6. ScalarTypes'
  BY <1>1, <1>2, PausedAssumption DEF ScalarTypes, FetchTypes
<1>7. TasksGo /\ ListenerGoes /\ BusShrinks /\ OutFine /\ (RecoveryCounted => RecoveryCounted')
  BY <1>1, <1>2, SameTasks, SameListener, BusSame, SameGrows, GrowsFine DEF RecoveryCounted
<1>8. /\ FetchTypes' /\ PausesOnce' /\ BlocksHeld' /\ RecoveryCounted' /\ PermitsKept'
  BY <1>4, <1>5, <1>6, <1>7, QuietStep
<1>9. EpochBehind'
  <2>1. Cardinality(Loads(wire)) \in Nat /\ doc \in Nat /\ epoch \in Nat
    BY <1>1, LoadsOf, PausedAssumption DEF FetchTypes
  <2>2. Cardinality(Loads(wire')) = Cardinality(Loads(wire)) + 1 /\ epoch' = epoch
    BY <1>2, <1>3, <1>4
  <2>. QED
    BY <1>1, <1>2, <2>1, <2>2 DEF EpochBehind
<1>. QED
  BY <1>8, <1>9 DEF FetchInductive

LEMMA CloseStep == FetchInductive /\ Close => FetchInductive'
<1>. SUFFICES ASSUME FetchInductive, Close PROVE FetchInductive'
  OBVIOUS
<1>1. FetchTypes /\ PausesOnce /\ EpochBehind
  BY DEF FetchInductive
<1>2. /\ closed' = TRUE /\ out' = <<>> /\ wire' = <<>> /\ fetch' = FALSE /\ Becomes(Reqs, "released")
      /\ UNCHANGED <<doc, errors, epoch, bus, lagged, running>>
  BY DEF Close
<1>3. OutFine
  <2>1. Asked(out') = {}
    BY <1>2 DEF Asked
  <2>. QED
    BY <1>2, <2>1 DEF OutFine
<1>4. Posted(wire') = {} /\ Loads(wire') = {} /\ SentOnce(wire') /\ wire' \in Seq(Messages)
  BY <1>2 DEF Posted, Loads, SentOnce
<1>5. WireShrinks
  BY <1>1, <1>4, WireShrunk
<1>6. Kept
  BY <1>1, <1>2, BecomesKept
<1>7. ScalarTypes'
  BY <1>1, <1>2 DEF ScalarTypes, FetchTypes
<1>8. ASSUME NEW r \in Reqs
      PROVE  /\ task'[r] \in [at : Places, epoch : 0 .. MaxDoc]
             /\ task'[r].at = "none" <=> task[r].at = "none"
             /\ task[r].at = "done" => task'[r].at = "done"
             /\ task'[r].at \in {"stop", "after"} <=> task[r].at \in {"stop", "after"}
  <2>1. task[r] \in [at : Places, epoch : 0 .. MaxDoc]
    BY <1>1 DEF FetchTypes
  <2>2. task'[r] = CASE task[r].at \in {"primary", "fallback"} -> [task[r] EXCEPT !.at = "done"]
                     [] task[r].at = "stop" -> [task[r] EXCEPT !.at = "after"]
                     [] OTHER -> task[r]
    BY DEF Close
  <2>3. CASE task[r].at \in {"primary", "fallback"}
    <3>1. task'[r] = [task[r] EXCEPT !.at = "done"]
      BY <2>2, <2>3
    <3>. QED
      BY <2>1, <2>3, <3>1 DEF Places
  <2>4. CASE task[r].at = "stop"
    <3>1. task'[r] = [task[r] EXCEPT !.at = "after"]
      BY <2>2, <2>4
    <3>. QED
      BY <2>1, <2>4, <3>1 DEF Places
  <2>5. CASE task[r].at \notin {"primary", "fallback", "stop"}
    <3>1. task'[r] = task[r]
      BY <2>2, <2>5
    <3>. QED
      BY <2>1, <2>5, <3>1
  <2>. QED
    BY <2>3, <2>4, <2>5
<1>9. TasksGo
  <2>1. task' = [r \in Reqs |-> task'[r]]
    BY DEF Close
  <2>. QED
    BY <1>8, <2>1 DEF TasksGo
<1>10. RecoveryCounted => RecoveryCounted'
  <2>1. Recovering' = Recovering
    BY <1>8 DEF Recovering
  <2>. QED
    BY <1>2, <2>1 DEF RecoveryCounted
<1>11. ListenerGoes
  <2>1. CASE listener.at \in {"disable", "enable"}
    BY <1>1, <2>1, ListenerMoves DEF Close, ListenerPlaces
  <2>2. CASE listener.at \notin {"disable", "enable"}
    BY <1>1, <2>2, SameListener DEF Close
  <2>. QED
    BY <2>1, <2>2
<1>12. BusShrinks
  BY <1>1, <1>2, BusSame
<1>13. /\ FetchTypes' /\ PausesOnce' /\ BlocksHeld' /\ RecoveryCounted' /\ PermitsKept'
  BY <1>3, <1>5, <1>6, <1>7, <1>9, <1>10, <1>11, <1>12, QuietStep
<1>14. EpochBehind'
  <2>1. Cardinality(Loads(wire')) = 0 /\ Cardinality(Loads(wire)) \in Nat
    BY <1>1, <1>4, FS_EmptySet, LoadsOf DEF FetchTypes
  <2>2. doc' = doc /\ epoch' = epoch /\ doc \in Nat /\ epoch \in Nat
    BY <1>1, <1>2, PausedAssumption DEF FetchTypes
  <2>. QED
    BY <1>1, <2>1, <2>2 DEF EpochBehind
<1>. QED
  BY <1>13, <1>14 DEF FetchInductive

LEMMA RequestStep == \A r \in Reqs : FetchInductive /\ Request(r) => FetchInductive'
<1>. SUFFICES ASSUME NEW r \in Reqs, FetchInductive, Request(r) PROVE FetchInductive'
  OBVIOUS
<1>. DEFINE e == [by |-> r, msg |-> "paused"]
<1>1. FetchTypes /\ PausesOnce /\ BlocksHeld /\ RecoveryCounted /\ EpochBehind /\ PermitsKept
  BY DEF FetchInductive
<1>2. /\ req[r].status = "unmade" /\ fetch \in BOOLEAN
      /\ wire' = IF fetch THEN Append(wire, e) ELSE wire
      /\ UNCHANGED <<doc, fetch, out, errors, epoch, bus, lagged, closed, listener, task, running>>
  BY <1>1 DEF Request, tasks, FetchTypes
<1>3. /\ req' \in [Reqs -> [doc : 0 .. MaxDoc, kind : Kinds, status : Statuses]]
      /\ req'[r].status \in {"paused", "unseen"}
      /\ \A s \in Reqs \ {r} : req'[s] = req[s]
  <2>1. PICK kind \in Kinds :
          req' = [req EXCEPT ![r] = [doc |-> doc, kind |-> kind,
                                     status |-> IF fetch THEN "paused" ELSE "unseen"]]
    BY DEF Request
  <2>2. PICK status \in {"paused", "unseen"} :
          req' = [req EXCEPT ![r] = [doc |-> doc, kind |-> kind, status |-> status]]
    <3>1. CASE fetch
      BY <2>1, <3>1
    <3>2. CASE ~fetch
      BY <2>1, <3>2
    <3>. QED
      BY <3>1, <3>2
  <2>. DEFINE new == [doc |-> doc, kind |-> kind, status |-> status]
  <2>3. new \in [doc : 0 .. MaxDoc, kind : Kinds, status : Statuses] /\ new.status = status
    BY <1>1, PausedAssumption DEF FetchTypes, Statuses
  <2>4. req' = [req EXCEPT ![r] = new]
    BY <2>2
  <2>. HIDE DEF new
  <2>. QED
    BY <1>1, <2>3, <2>4 DEF FetchTypes
<1>4. e \in Messages /\ e.msg = "paused" /\ e.by = r
  BY DEF Messages, Owners
<1>. HIDE DEF e
<1>5. r \notin Posted(wire) \cup Read(bus) /\ task[r].at = "none"
      /\ ~(listener.at = "permit" /\ listener.r = r)
  BY <1>1, <1>2 DEF PausesOnce, Made
<1>6. /\ wire' \in Seq(Messages) /\ SentOnce(wire') /\ Posted(wire') \subseteq Posted(wire) \cup {r}
      /\ Cardinality(Loads(wire')) = Cardinality(Loads(wire))
  <2>0. wire \in Seq(Messages) /\ SentOnce(wire)
    BY <1>1 DEF FetchTypes, PausesOnce
  <2>1. CASE fetch
    <3>1. wire' = Append(wire, e)
      BY <1>2, <2>1
    <3>2. wire' \in Seq(Messages)
      BY <1>4, <2>0, <3>1
    <3>3. SentOnce(wire') /\ Posted(wire') = Posted(wire) \cup {r}
      BY <1>4, <1>5, <2>0, <3>1, PostedAppend
    <3>4. Cardinality(Loads(wire'))
            = Cardinality(Loads(wire)) + (IF e.msg = "loading" THEN 1 ELSE 0)
      BY <1>4, <2>0, <3>1, LoadsOf
    <3>5. Cardinality(Loads(wire')) = Cardinality(Loads(wire))
      BY <1>4, <2>0, <3>4, LoadsOf
    <3>. QED
      BY <3>2, <3>3, <3>5
  <2>2. CASE ~fetch
    BY <1>2, <2>0, <2>2
  <2>. QED
    BY <2>1, <2>2
<1>7. Posted(wire) \subseteq Reqs /\ Read(bus) \subseteq Reqs
  BY <1>1, PostedReqs
<1>8. FetchTypes'
  <2>1. ASSUME NEW i \in DOMAIN wire', wire'[i].msg = "paused" PROVE wire'[i].by \in Reqs
    <3>1. i \in 1 .. Len(wire')
      BY <1>6
    <3>2. wire'[i].by \in Posted(wire')
      BY <2>1, <3>1 DEF Posted
    <3>. QED
      BY <1>6, <1>7, <3>2
  <2>. QED
    BY <1>1, <1>2, <1>3, <1>6, <2>1 DEF FetchTypes
<1>9. PausesOnce'
  <2>1. Posted(wire') \cap Read(bus') = {}
    BY <1>1, <1>2, <1>5, <1>6 DEF PausesOnce
  <2>2. ASSUME NEW s \in Posted(wire') \cup Read(bus')
        PROVE  Made(s)' /\ task'[s].at = "none" /\ ~(listener'.at = "permit" /\ listener'.r = s)
    <3>1. CASE s = r
      BY <1>2, <1>3, <1>5, <3>1 DEF Made
    <3>2. CASE s # r
      <4>1. s \in Posted(wire) \cup Read(bus) /\ s \in Reqs
        BY <1>2, <1>6, <1>7, <3>2
      <4>. QED
        BY <1>1, <1>2, <1>3, <3>2, <4>1 DEF PausesOnce, Made
    <3>. QED
      BY <3>1, <3>2
  <2>3. ASSUME listener'.at = "permit" PROVE Made(listener.r)' /\ task'[listener'.r].at = "none"
    <3>1. listener.r \in Reqs \ {r} /\ Made(listener.r) /\ task[listener.r].at = "none"
      BY <1>1, <1>2, <1>5, <2>3 DEF PausesOnce, FetchTypes
    <3>. QED
      BY <1>2, <1>3, <3>1 DEF Made
  <2>4. ASSUME NEW s \in Reqs, task'[s].at # "none" PROVE Made(s)'
    <3>1. s # r /\ Made(s)
      BY <1>1, <1>2, <1>5, <2>4 DEF PausesOnce
    <3>. QED
      BY <1>3, <3>1 DEF Made
  <2>5. ReadOnce(bus') /\ listener' = listener
    BY <1>1, <1>2 DEF PausesOnce
  <2>. QED
    BY <1>6, <2>1, <2>2, <2>3, <2>4, <2>5 DEF PausesOnce
<1>10. BlocksHeld'
  <2>1. ASSUME NEW q \in Asked(out'), q[2] \in DOMAIN Terminal
        PROVE  Made(q[1])' /\ MaySpeak(q[1], q[2])'
    <3>1. q \in Asked(out) /\ Made(q[1]) /\ MaySpeak(q[1], q[2])
      BY <1>1, <1>2, <2>1 DEF BlocksHeld
    <3>2. q[1] \in Reqs /\ q[1] # r
      BY <1>1, <1>2, <2>1, <3>1, AskedReqs DEF FetchTypes, Made
    <3>. QED
      BY <1>3, <3>1, <3>2 DEF Made, MaySpeak
  <2>2. \A s \in Reqs : req'[s].kind = "block" => req'[s].status \notin {"continued", "fulfilled"}
    BY <1>1, <1>3 DEF BlocksHeld
  <2>. QED
    BY <2>1, <2>2 DEF BlocksHeld
<1>11. RecoveryCounted' /\ PermitsKept'
  BY <1>1, <1>2 DEF RecoveryCounted, Recovering, PermitsKept, InFlight
<1>12. EpochBehind'
  BY <1>1, <1>2, <1>6 DEF EpochBehind
<1>. QED
  BY <1>8, <1>9, <1>10, <1>11, <1>12 DEF FetchInductive

LEMMA IncomingStep == FetchInductive /\ Incoming => FetchInductive'
<1>. SUFFICES ASSUME FetchInductive, Incoming PROVE FetchInductive'
  OBVIOUS
<1>. DEFINE m == Head(wire)
<1>1. FetchTypes /\ PausesOnce /\ BlocksHeld /\ RecoveryCounted /\ EpochBehind /\ PermitsKept
  BY DEF FetchInductive
<1>2. wire # <<>> /\ UNCHANGED <<doc, req, fetch, errors, closed>>
  BY DEF Incoming, browser
<1>0. m \in Messages /\ m.msg \in {"paused", "loading", "ok", "gone", "error"}
  <2>1. wire \in Seq(Messages)
    BY <1>1 DEF FetchTypes
  <2>2. m \in Messages
    BY <1>2, <2>1
  <2>. QED
    BY <2>2 DEF Messages
<1>3. wire' = Tail(wire)
  <2>1. CASE m.msg = "loading"
    BY <2>1 DEF Incoming
  <2>2. CASE m.msg = "paused"
    BY <2>2 DEF Incoming
  <2>3. CASE m.msg \in {"ok", "gone", "error"}
    BY <2>3 DEF Incoming
  <2>. QED
    BY <1>0, <2>1, <2>2, <2>3
<1>4. /\ WireShrinks /\ m \in Messages
      /\ m.msg = "paused" => /\ Posted(wire) = Posted(wire') \cup {m.by}
                             /\ m.by \notin Posted(wire') /\ m.by \in Reqs
      /\ Cardinality(Loads(wire')) <= Cardinality(Loads(wire))
      /\ m.msg = "loading" => Cardinality(Loads(wire')) + 1 <= Cardinality(Loads(wire))
  BY <1>1, <1>2, <1>3, WireTail
<1>5. /\ Cardinality(Loads(wire)) \in Nat /\ Cardinality(Loads(wire')) \in Nat
      /\ doc \in 1 .. MaxDoc /\ epoch \in 1 .. MaxDoc /\ MaxDoc \in Nat
  BY <1>1, <1>4, LoadsOf, PausedAssumption DEF FetchTypes, WireShrinks
<1>6. CASE m.msg = "loading"
  <2>1. epoch' = epoch + 1 /\ UNCHANGED <<out, bus, lagged, listener, task, running>>
    BY <1>6 DEF Incoming, tasks
  <2>2. EpochBehind' /\ epoch' \in 1 .. MaxDoc
    <3>1. epoch + Cardinality(Loads(wire)) <= doc
      BY <1>1 DEF EpochBehind
    <3>2. Cardinality(Loads(wire')) + 1 <= Cardinality(Loads(wire))
      BY <1>4, <1>6
    <3>3. epoch' + Cardinality(Loads(wire')) <= doc' /\ epoch' \in 1 .. MaxDoc
      BY <1>2, <1>5, <2>1, <3>1, <3>2
    <3>. QED
      BY <3>3 DEF EpochBehind
  <2>3. ScalarTypes'
    BY <1>1, <1>2, <2>1, <2>2 DEF ScalarTypes, FetchTypes
  <2>4. TasksGo /\ ListenerGoes /\ BusShrinks /\ OutFine /\ Kept
        /\ (RecoveryCounted => RecoveryCounted')
    BY <1>1, <1>2, <2>1, SameTasks, SameListener, BusSame, SameGrows, GrowsFine, SameKept
       DEF RecoveryCounted
  <2>. QED
    BY <1>4, <2>2, <2>3, <2>4, QuietStep DEF FetchInductive
<1>7. CASE m.msg \in {"ok", "gone", "error"}
  <2>1. UNCHANGED <<epoch, bus, lagged>>
    BY <1>7 DEF Incoming
  <2>2. BusShrinks /\ lagged' \in BOOLEAN
    BY <1>1, <2>1, BusSame DEF FetchTypes
  <2>3. Working
    <3>1. m.by \in Reqs \cup {Listener, None} /\ Listener # None
      BY <1>4 DEF Messages, Owners, Listener, None
    <3>2. CASE m.by = None
      <4>0. m.by # Listener /\ m.by \notin Reqs
        BY <3>1, <3>2, PausedAssumption
      <4>1. UNCHANGED <<out, listener, task, running>>
        BY <1>7, <3>2, <4>0 DEF Incoming, tasks
      <4>. QED
        BY <1>1, <4>1, SameTasks, SameListener, SameGrows DEF Working, RecoveryCounted, FetchTypes
    <3>3. CASE m.by = Listener
      <4>0. m.by # None /\ m.by \notin Reqs
        BY <3>1, <3>3, PausedAssumption
      <4>1. ListenerReturns
        BY <1>7, <3>3, <4>0 DEF Incoming
      <4>. QED
        BY <1>1, <4>1, ListenerReturnsWork
    <3>4. CASE m.by \in Reqs
      <4>1. m.by # None /\ m.by # Listener
        BY <3>4, PausedAssumption
      <4>2. TaskReturns(m.by, m.msg)
        BY <1>7, <3>4, <4>1 DEF Incoming
      <4>. QED
        BY <1>1, <3>4, <4>2, TaskReturnsWork
    <3>. QED
      BY <3>1, <3>2, <3>3, <3>4
  <2>. QED
    BY <1>2, <1>4, <2>1, <2>2, <2>3, WorkingStep
<1>8. CASE m.msg = "paused"
  <2>. DEFINE e == [r |-> m.by, epoch |-> epoch]
              b == IF Len(bus) = BusCap THEN Tail(bus) ELSE bus
  <2>1. Publish(e) /\ UNCHANGED <<out, epoch, listener, task, running>>
    BY <1>8 DEF Incoming, tasks
  <2>2. bus' = Append(b, e) /\ lagged' \in BOOLEAN
    BY <1>1, <2>1 DEF Publish, FetchTypes
  <2>3. e \in Pauses /\ e.r = m.by
    BY <1>4, <1>5, <1>8 DEF Pauses
  <2>4. b \in Seq(Pauses) /\ Len(b) < BusCap /\ ReadOnce(b) /\ Read(b) \subseteq Read(bus)
    <3>1. bus \in Seq(Pauses) /\ Len(bus) <= BusCap /\ BusCap \in Nat \ {0} /\ Len(bus) \in Nat
          /\ ReadOnce(bus)
      BY <1>1, PausedAssumption DEF FetchTypes, PausesOnce
    <3>2. CASE Len(bus) = BusCap
      <4>1. b = Tail(bus) /\ bus # <<>>
        BY <3>1, <3>2
      <4>2. b \in Seq(Pauses) /\ Len(b) = Len(bus) - 1
        BY <3>1, <4>1, TailOf
      <4>3. ReadOnce(b) /\ Read(b) \subseteq Read(bus)
        BY <3>1, <4>1, ReadTail
      <4>. QED
        BY <3>1, <3>2, <4>2, <4>3
    <3>3. CASE Len(bus) # BusCap
      BY <3>1, <3>3
    <3>. QED
      BY <3>2, <3>3
  <2>. HIDE DEF b, e
  <2>5. m.by \notin Read(bus) /\ m.by \in Posted(wire)
    BY <1>1, <1>4, <1>8 DEF PausesOnce
  <2>6. /\ bus' \in Seq(Pauses) /\ Len(bus') = Len(b) + 1
        /\ ReadOnce(bus') /\ Read(bus') = Read(b) \cup {m.by}
    BY <2>2, <2>3, <2>4, <2>5, AppendOf, ReadAppend
  <2>7. Len(bus') <= BusCap
    BY <2>4, <2>6, PausedAssumption
  <2>8. FetchTypes'
    BY <1>1, <1>2, <1>4, <2>1, <2>2, <2>6, <2>7 DEF FetchTypes, WireShrinks
  <2>9. PausesOnce'
    <3>1. Posted(wire') \cap Read(bus') = {} /\ SentOnce(wire')
          /\ Posted(wire') \cup Read(bus') \subseteq Posted(wire) \cup Read(bus)
      BY <1>1, <1>4, <1>8, <2>4, <2>5, <2>6 DEF PausesOnce, WireShrinks
    <3>. QED
      BY <1>1, <1>2, <2>1, <2>6, <3>1 DEF PausesOnce, Made
  <2>10. BlocksHeld' /\ RecoveryCounted' /\ PermitsKept'
    BY <1>1, <1>2, <2>1 DEF BlocksHeld, Made, MaySpeak, RecoveryCounted, Recovering, PermitsKept, InFlight
  <2>11. EpochBehind'
    BY <1>1, <1>2, <1>4, <2>1, StillBehind DEF WireShrinks
  <2>. QED
    BY <2>8, <2>9, <2>10, <2>11 DEF FetchInductive
<1>. QED
  BY <1>4, <1>6, <1>7, <1>8 DEF Messages

LEMMA TakeStep == FetchInductive /\ Take => FetchInductive'
<1>. SUFFICES ASSUME FetchInductive, Take PROVE FetchInductive'
  OBVIOUS
<1>1. FetchTypes /\ PausesOnce /\ BlocksHeld /\ RecoveryCounted /\ EpochBehind /\ PermitsKept
  BY DEF FetchInductive
<1>2. /\ listener.at = "recv" /\ bus # <<>> /\ bus' = Tail(bus)
      /\ listener' = [at |-> "permit", r |-> Head(bus).r, epoch |-> Head(bus).epoch]
      /\ UNCHANGED <<doc, req, fetch, out, wire, errors, epoch, lagged, closed, task, running>>
  BY DEF Take, browser
<1>3. /\ BusShrinks /\ Head(bus) \in Pauses
      /\ Read(bus) = Read(bus') \cup {Head(bus).r} /\ Head(bus).r \notin Read(bus')
  BY <1>1, <1>2, BusTail
<1>4. Head(bus).r \in Reqs /\ Head(bus).epoch \in 0 .. MaxDoc
  BY <1>3 DEF Pauses
<1>5. FetchTypes'
  BY <1>1, <1>2, <1>3, <1>4 DEF FetchTypes, BusShrinks, ListenerPlaces
<1>6. PausesOnce'
  <2>1. Posted(wire') \cap Read(bus') = {} /\ Head(bus).r \notin Posted(wire)
    BY <1>1, <1>2, <1>3 DEF PausesOnce
  <2>2. ReadOnce(bus') /\ SentOnce(wire')
    BY <1>1, <1>2, <1>3 DEF PausesOnce, BusShrinks
  <2>3. listener'.r = Head(bus).r /\ Made(Head(bus).r) /\ task[Head(bus).r].at = "none"
    BY <1>1, <1>2, <1>3 DEF PausesOnce
  <2>. QED
    BY <1>1, <1>2, <1>3, <2>1, <2>2, <2>3 DEF PausesOnce, Made
<1>7. BlocksHeld' /\ RecoveryCounted' /\ PermitsKept' /\ EpochBehind'
  BY <1>1, <1>2 DEF BlocksHeld, Made, MaySpeak, RecoveryCounted, Recovering, PermitsKept, InFlight,
                    EpochBehind
<1>. QED
  BY <1>5, <1>6, <1>7 DEF FetchInductive

LEMMA SpawnStep == FetchInductive /\ Spawn => FetchInductive'
<1>. SUFFICES ASSUME FetchInductive, Spawn PROVE FetchInductive'
  OBVIOUS
<1>. DEFINE r == listener.r
<1>1. FetchTypes /\ PausesOnce /\ BlocksHeld /\ RecoveryCounted /\ EpochBehind /\ PermitsKept
  BY DEF FetchInductive
<1>2. /\ listener.at = "permit" /\ Cardinality(InFlight) < MaxInFlight
      /\ task' = [task EXCEPT ![r] = [at |-> "spawned", epoch |-> listener.epoch]]
      /\ listener' = [at |-> "recv", r |-> None, epoch |-> 0]
      /\ UNCHANGED <<doc, req, fetch, out, wire, errors, epoch, bus, lagged, closed, running>>
  BY DEF Spawn, browser
<1>3. r \in Reqs /\ Made(r) /\ task[r].at = "none" /\ r \notin Posted(wire) \cup Read(bus)
  BY <1>1, <1>2 DEF FetchTypes, PausesOnce
<1>. HIDE DEF r
<1>4. /\ task' \in [Reqs -> [at : Places, epoch : 0 .. MaxDoc]]
      /\ task'[r].at = "spawned" /\ \A s \in Reqs \ {r} : task'[s] = task[s]
  <2>. DEFINE new == [at |-> "spawned", epoch |-> listener.epoch]
  <2>1. new \in [at : Places, epoch : 0 .. MaxDoc] /\ new.at = "spawned"
    BY <1>1 DEF FetchTypes, Places
  <2>. HIDE DEF new
  <2>2. task' = [task EXCEPT ![r] = new]
    BY <1>2 DEF new
  <2>. QED
    BY <1>1, <1>3, <2>1, <2>2 DEF FetchTypes
<1>5. listener' \in [at : ListenerPlaces, r : Reqs \cup {None}, epoch : 0 .. MaxDoc]
      /\ listener'.at = "recv"
  BY <1>2, PausedAssumption DEF ListenerPlaces
<1>6. FetchTypes'
  BY <1>1, <1>2, <1>4, <1>5 DEF FetchTypes
<1>7. PausesOnce'
  <2>1. \A s \in Posted(wire) \cup Read(bus) : Made(s) /\ task'[s].at = "none"
    BY <1>1, <1>3, <1>4, PostedReqs DEF PausesOnce
  <2>2. \A s \in Reqs : task'[s].at # "none" => Made(s)
    BY <1>1, <1>3, <1>4 DEF PausesOnce
  <2>. QED
    BY <1>1, <1>2, <1>5, <2>1, <2>2 DEF PausesOnce, Made
<1>8. BlocksHeld' /\ EpochBehind'
  BY <1>1, <1>2 DEF BlocksHeld, Made, MaySpeak, EpochBehind
<1>9. RecoveryCounted'
  <2>1. Recovering' = Recovering
    BY <1>3, <1>4 DEF Recovering
  <2>. QED
    BY <1>1, <1>2, <2>1 DEF RecoveryCounted
<1>10. PermitsKept'
  <2>1. InFlight' = InFlight \cup {r} /\ r \notin InFlight
    BY <1>3, <1>4 DEF InFlight
  <2>2. IsFiniteSet(InFlight) /\ Cardinality(InFlight) \in Nat
    BY <1>1, FS_CardinalityType DEF PermitsKept
  <2>3. IsFiniteSet(InFlight') /\ Cardinality(InFlight') = Cardinality(InFlight) + 1
    BY <2>1, <2>2, FS_AddElement
  <2>. QED
    BY <1>2, <2>2, <2>3, PausedAssumption DEF PermitsKept
<1>. QED
  BY <1>6, <1>7, <1>8, <1>9, <1>10 DEF FetchInductive

LEMMA FetchStarts == PausedInit => FetchInductive
<1>. SUFFICES ASSUME PausedInit PROVE FetchInductive
  OBVIOUS
<1>. USE PausedAssumption DEF PausedInit
<1>1. FetchTypes
  <2>1. req \in [Reqs -> [doc : 0 .. MaxDoc, kind : Kinds, status : Statuses]]
    BY DEF Kinds, Statuses
  <2>2. task \in [Reqs -> [at : Places, epoch : 0 .. MaxDoc]]
    BY DEF Places
  <2>3. listener \in [at : ListenerPlaces, r : Reqs \cup {None}, epoch : 0 .. MaxDoc]
        /\ listener.at # "permit"
    BY DEF ListenerPlaces
  <2>4. out \in Seq(Commands) /\ wire \in Seq(Messages) /\ bus \in Seq(Pauses)
        /\ Len(bus) <= BusCap /\ DOMAIN out = {} /\ DOMAIN wire = {}
    OBVIOUS
  <2>5. {fetch, lagged, closed, running} \subseteq BOOLEAN
    OBVIOUS
  <2>6. doc \in 1 .. MaxDoc /\ epoch \in 1 .. MaxDoc /\ errors \in 0 .. MaxErrors
    OBVIOUS
  <2>. QED
    BY <2>1, <2>2, <2>3, <2>4, <2>5, <2>6 DEF FetchTypes
<1>2. Posted(wire) = {} /\ Read(bus) = {} /\ Asked(out) = {} /\ Loads(wire) = {}
  BY DEF Posted, Read, Asked, Loads
<1>3. PausesOnce
  BY <1>2 DEF PausesOnce, SentOnce, ReadOnce
<1>4. BlocksHeld
  BY <1>2 DEF BlocksHeld
<1>5. Recovering = {} /\ InFlight = {}
  BY DEF Recovering, InFlight
<1>6. RecoveryCounted
  BY <1>5 DEF RecoveryCounted
<1>7. EpochBehind /\ PermitsKept
  <2>1. Cardinality(Loads(wire)) = 0 /\ IsFiniteSet(InFlight) /\ Cardinality(InFlight) = 0
    BY <1>2, <1>5, FS_EmptySet
  <2>. QED
    BY <2>1 DEF EpochBehind, PermitsKept
<1>. QED
  BY <1>1, <1>3, <1>4, <1>6, <1>7 DEF FetchInductive

(* A step of the tasks or of the listener that leaves the wire alone, or   *)
(* only renames what is on it.                                             *)
LEMMA ListenerSteps ==
  ASSUME FetchInductive, Lagged \/ TakeUnidentified \/ ListenerEnds \/ ListenerTimeout
  PROVE  FetchInductive' /\ OutGrows /\ ListenerGoes /\ TasksGo /\ SpawnedAsk
<1>1. FetchTypes /\ PausesOnce
  BY DEF FetchInductive
<1>2. UNCHANGED <<doc, req, fetch, errors, epoch, closed, task, running>>
  BY DEF Lagged, TakeUnidentified, ListenerEnds, ListenerTimeout, browser
<1>3. TasksGo /\ SpawnedAsk /\ running' \in BOOLEAN /\ (RecoveryCounted => RecoveryCounted')
  BY <1>1, <1>2, SameTasks DEF RecoveryCounted, FetchTypes
<1>4. CASE Lagged
  <2>1. listener.at = "recv" /\ lagged' = FALSE /\ UNCHANGED <<wire, bus>>
        /\ (UNCHANGED <<listener, out>> \/ Resets)
    BY <1>4 DEF Lagged
  <2>2. OutGrows /\ ListenerGoes
    BY <1>1, <2>1, SameGrows, SameListener, ResetsWork
  <2>3. /\ WireShrinks /\ BusShrinks /\ Loads(wire') = Loads(wire) /\ lagged' \in BOOLEAN
        /\ Cardinality(Loads(wire)) \in Nat
    BY <1>1, <2>1, WireSame, BusSame, LoadsOf DEF FetchTypes
  <2>. QED
    BY <1>2, <1>3, <2>2, <2>3, WorkingStep DEF Working
<1>5. CASE TakeUnidentified
  <2>1. listener.at = "recv" /\ bus # <<>> /\ bus' = Tail(bus) /\ Resets /\ UNCHANGED <<wire, lagged>>
    BY <1>5 DEF TakeUnidentified
  <2>2. OutGrows /\ ListenerGoes
    BY <1>1, <2>1, ResetsWork
  <2>3. /\ WireShrinks /\ BusShrinks /\ Loads(wire') = Loads(wire) /\ lagged' \in BOOLEAN
        /\ Cardinality(Loads(wire)) \in Nat
    BY <1>1, <2>1, WireSame, BusTail, LoadsOf DEF FetchTypes
  <2>. QED
    BY <1>2, <1>3, <2>2, <2>3, WorkingStep DEF Working
<1>6. CASE ListenerEnds
  <2>1. /\ listener.at = "recv" /\ listener' = [listener EXCEPT !.at = "ended"]
        /\ UNCHANGED <<out, wire, bus, lagged>>
    BY <1>6 DEF ListenerEnds
  <2>2. OutGrows /\ ListenerGoes
    BY <1>1, <2>1, SameGrows, ListenerMoves DEF ListenerPlaces
  <2>3. /\ WireShrinks /\ BusShrinks /\ Loads(wire') = Loads(wire) /\ lagged' \in BOOLEAN
        /\ Cardinality(Loads(wire)) \in Nat
    BY <1>1, <2>1, WireSame, BusSame, LoadsOf DEF FetchTypes
  <2>. QED
    BY <1>2, <1>3, <2>2, <2>3, WorkingStep DEF Working
<1>7. CASE ListenerTimeout
  <2>1. wire' = Orphaned(wire, Listener) /\ UNCHANGED <<bus, lagged>>
    BY <1>7 DEF ListenerTimeout
  <2>2. Working
    BY <1>1, <1>7, ListenerTimeoutWorks
  <2>3. /\ WireShrinks /\ BusShrinks /\ Loads(wire') = Loads(wire) /\ lagged' \in BOOLEAN
        /\ Cardinality(Loads(wire)) \in Nat
    BY <1>1, <2>1, WireOrphaned, BusSame, LoadsOf DEF FetchTypes, Owners
  <2>. QED
    BY <1>2, <2>2, <2>3, WorkingStep DEF Working
<1>. QED
  BY <1>4, <1>5, <1>6, <1>7

LEMMA TaskSteps ==
  ASSUME FetchInductive, NEW r \in Reqs, TaskStep(r) \/ TaskTimeout(r)
  PROVE  /\ FetchInductive' /\ Working /\ UNCHANGED <<req, closed, bus, lagged>>
         /\ Posted(wire') = Posted(wire)
<1>1. FetchTypes /\ PausesOnce
  BY DEF FetchInductive
<1>2. CASE TaskStep(r)
  <2>1. Working /\ UNCHANGED <<doc, req, fetch, wire, errors, epoch, bus, lagged, closed>>
    BY <1>1, <1>2, TaskStepWorks DEF browser
  <2>2. /\ WireShrinks /\ BusShrinks /\ Loads(wire') = Loads(wire) /\ lagged' \in BOOLEAN
        /\ Cardinality(Loads(wire)) \in Nat
    BY <1>1, <2>1, WireSame, BusSame, LoadsOf DEF FetchTypes
  <2>3. FetchInductive'
    BY <2>1, <2>2, WorkingStep
  <2>. QED
    BY <2>1, <2>3
<1>3. CASE TaskTimeout(r)
  <2>1. /\ Working /\ wire' = Orphaned(wire, r)
        /\ UNCHANGED <<doc, req, fetch, errors, epoch, bus, lagged, closed>>
    BY <1>1, <1>3, TaskTimeoutWorks DEF TaskTimeout, browser
  <2>2. /\ WireShrinks /\ BusShrinks /\ Loads(wire') = Loads(wire) /\ lagged' \in BOOLEAN
        /\ Cardinality(Loads(wire)) \in Nat /\ Posted(wire') = Posted(wire)
    BY <1>1, <2>1, WireOrphaned, BusSame, LoadsOf DEF FetchTypes, Owners
  <2>3. FetchInductive'
    BY <2>1, <2>2, WorkingStep
  <2>. QED
    BY <2>1, <2>2, <2>3
<1>. QED
  BY <1>2, <1>3

LEMMA FetchStep == FetchInductive /\ [PausedNext]_fVars => FetchInductive'
<1>. SUFFICES ASSUME FetchInductive, [PausedNext]_fVars PROVE FetchInductive'
  OBVIOUS
<1>1. ASSUME NEW r \in Reqs, Request(r) \/ TaskStep(r) \/ TaskTimeout(r) PROVE FetchInductive'
  BY <1>1, RequestStep, TaskSteps
<1>2. CASE Navigate \/ Carry \/ Incoming \/ Close
  BY <1>2, NavigateStep, CarryStep, IncomingStep, CloseStep
<1>3. CASE ListenerStep \/ TakeUnidentified \/ ListenerTimeout
  BY <1>3, ListenerSteps, TakeStep, SpawnStep DEF ListenerStep
<1>4. CASE UNCHANGED fVars
  BY <1>4 DEF fVars, FetchInductive, FetchTypes, PausesOnce, BlocksHeld, RecoveryCounted, EpochBehind,
              PermitsKept, Made, MaySpeak, Recovering, InFlight
<1>. QED
  BY <1>1, <1>2, <1>3, <1>4 DEF PausedNext

(* The inductive invariant, for any requests, documents, permits, bus and  *)
(* number of refusals.                                                     *)
THEOREM FetchInvariance == PausedSafety => []FetchInductive
  BY FetchStarts, FetchStep, PTL DEF PausedSafety

LEMMA FetchProtects == FetchInductive => Protected
<1>. SUFFICES ASSUME FetchInductive PROVE Protected
  OBVIOUS
<1>1. FetchTypes /\ BlocksHeld /\ RecoveryCounted
  BY DEF FetchInductive
<1>2. Cardinality(Recovering) <= 1
  <2>1. CASE Recovering = {}
    BY <2>1, FS_EmptySet
  <2>2. CASE Recovering # {}
    <3>1. PICK r \in Recovering : TRUE
      BY <2>2
    <3>2. Recovering = {r}
      BY <1>1, <3>1 DEF RecoveryCounted
    <3>3. Cardinality({r}) = 1
      BY FS_Singleton
    <3>. QED
      BY <3>2, <3>3
  <2>. QED
    BY <2>1, <2>2
<1>3. OneRecovery
  <2>1. running <=> \E r \in Reqs : task[r].at \in {"stop", "after"}
    BY <1>1 DEF RecoveryCounted, Recovering
  <2>. QED
    BY <1>2, <2>1 DEF OneRecovery, Recovering
<1>. QED
  BY <1>1, <1>3 DEF Protected, BlocksHeld

(* No answer to a request that policy blocks ever lets it through, and one *)
(* recovery runs at a time, its flag exact: for any requests, documents,   *)
(* permits and bus, whatever times out or is refused (rules.rs).           *)
THEOREM BlocksAreKept == PausedSafety => []Protected
  BY FetchInvariance, FetchProtects, PTL

(* With a browser that refuses nothing, a paused request is with somebody: *)
(* once its task has sent its command, the command is still under way.     *)
Handed(r) ==
  \/ r \in Posted(wire) \cup Read(bus)
  \/ listener.at = "permit" /\ listener.r = r
  \/ task[r].at = "spawned" \/ lagged
  \/ \E q \in Asked(out) : q[2] = "disable" \/ (q[1] = r /\ q[2] \in DOMAIN Terminal)
FoundInductive ==
  /\ closed => \A r \in Reqs : req[r].status # "paused"
  /\ \A r \in Reqs : req[r].status = "paused" => Handed(r)

LEMMA WorkingFinds ==
  ASSUME FetchTypes, FoundInductive, ListenerGoes, OutGrows, SpawnedAsk, UNCHANGED <<req, closed>>,
         Posted(wire) \subseteq Posted(wire'), Read(bus) \subseteq Read(bus'), lagged => lagged'
  PROVE  FoundInductive'
<1>1. ASSUME NEW r \in Reqs, req[r].status = "paused" PROVE Handed(r)'
  <2>1. Handed(r) /\ ~closed
    BY <1>1 DEF FoundInductive
  <2>2. CASE task[r].at = "spawned"
    <3>1. CASE task'[r].at = "spawned"
      BY <3>1 DEF Handed
    <3>2. CASE \E cmd \in DOMAIN Terminal : <<r, cmd>> \in Asked(out')
      <4>1. PICK cmd \in DOMAIN Terminal : <<r, cmd>> \in Asked(out')
        BY <3>2
      <4>2. <<r, cmd>>[1] = r /\ <<r, cmd>>[2] = cmd
        OBVIOUS
      <4>. QED
        BY <4>1, <4>2 DEF Handed
    <3>. QED
      BY <2>1, <2>2, <3>1, <3>2 DEF SpawnedAsk
  <2>3. CASE listener.at = "permit" /\ listener.r = r
    BY <2>3 DEF Handed, ListenerGoes
  <2>4. CASE r \in Posted(wire) \cup Read(bus) \/ lagged
    BY <2>4 DEF Handed
  <2>5. CASE \E q \in Asked(out) : q[2] = "disable" \/ (q[1] = r /\ q[2] \in DOMAIN Terminal)
    BY <2>5 DEF Handed, OutGrows
  <2>. QED
    BY <2>1, <2>2, <2>3, <2>4, <2>5 DEF Handed
<1>. QED
  BY <1>1 DEF FoundInductive

(* Nothing is left to find once every request is gone.                     *)
LEMMA NoneFinds ==
  ASSUME FetchTypes, NEW status \in Statuses \ {"unmade", "paused"}, Becomes(Reqs, status)
  PROVE  FoundInductive'
<1>1. \A r \in Reqs : req'[r].status # "paused"
  BY BecomesEffect
<1>. QED
  BY <1>1 DEF FoundInductive

LEMMA CarryFinds ==
  ASSUME MaxErrors = 0, FetchInductive, FoundInductive, Carry
  PROVE  FoundInductive'
<1>. DEFINE c == Head(out)
<1>1. FetchTypes /\ PausesOnce
  BY DEF FetchInductive
<1>2. out # <<>> /\ out' = Tail(out) /\ UNCHANGED <<bus, lagged, closed, listener, task>>
  BY DEF Carry, tasks
<1>3. /\ c \in Commands /\ Asked(out) = Asked(out') \cup {<<c.r, c.cmd>>}
      /\ c.cmd \in DOMAIN Terminal => c.r \in Reqs
  BY <1>1, <1>2, OutTail
<1>4. Posted(wire') = Posted(wire)
  <2>1. PICK how \in {"ok", "gone", "error"} : Reply(c, how)
    BY DEF Carry
  <2>. DEFINE e == [by |-> c.by, msg |-> how]
  <2>2. e \in Messages /\ e.msg # "paused" /\ wire' = Append(wire, e)
    BY <1>3, <2>1 DEF Messages, Commands, Reply
  <2>. HIDE DEF e
  <2>. QED
    BY <1>1, <2>2, WireAppend
<1>5. ~(errors < MaxErrors)
  BY <1>1 DEF FetchTypes
<1>6. c.cmd \in Cmds
  BY <1>3 DEF Commands
<1>7. ASSUME /\ \A r \in Reqs : req'[r].status = "paused" => req[r].status = "paused"
             /\ c.cmd \in DOMAIN Terminal => req'[c.r].status # "paused"
             /\ c.cmd # "disable"
      PROVE  FoundInductive'
  <2>1. ASSUME NEW r \in Reqs, req'[r].status = "paused" PROVE Handed(r)'
    <3>1. Handed(r)
      BY <1>7, <2>1 DEF FoundInductive
    <3>2. CASE \E q \in Asked(out) : q[2] = "disable" \/ (q[1] = r /\ q[2] \in DOMAIN Terminal)
      <4>1. PICK q \in Asked(out) : q[2] = "disable" \/ (q[1] = r /\ q[2] \in DOMAIN Terminal)
        BY <3>2
      <4>2. <<c.r, c.cmd>>[1] = c.r /\ <<c.r, c.cmd>>[2] = c.cmd
        OBVIOUS
      <4>3. q # <<c.r, c.cmd>>
        BY <1>7, <2>1, <4>1, <4>2
      <4>. QED
        BY <1>3, <4>1, <4>3 DEF Handed
    <3>3. CASE ~\E q \in Asked(out) : q[2] = "disable" \/ (q[1] = r /\ q[2] \in DOMAIN Terminal)
      BY <1>2, <1>4, <3>1, <3>3 DEF Handed
    <3>. QED
      BY <3>2, <3>3
  <2>2. closed' => \A r \in Reqs : req'[r].status # "paused"
    BY <1>2, <1>7 DEF FoundInductive
  <2>. QED
    BY <2>1, <2>2 DEF FoundInductive
<1>8. CASE (c.cmd \in DOMAIN Terminal => Paused(c.r)) /\ Obey(c)
  <2>1. CASE c.cmd \in DOMAIN Terminal
    <3>1. Becomes({c.r}, Terminal[c.cmd])
      BY <1>8, <2>1, TerminalCmds DEF Obey
    <3>2. Terminal[c.cmd] \in Statuses \ {"unmade", "paused"}
      <4>1. c.cmd \in {"fail", "continue", "fulfill"}
        BY <2>1, TerminalCmds
      <4>. QED
        BY <4>1 DEF Terminal, Statuses
    <3>3. /\ \A r \in Reqs : req'[r].status = "paused" => req[r].status = "paused"
          /\ req'[c.r].status # "paused"
      BY <1>1, <1>3, <2>1, <3>1, <3>2, BecomesEffect
    <3>4. c.cmd # "disable"
      BY <2>1, TerminalCmds
    <3>. QED
      BY <1>7, <3>3, <3>4
  <2>2. CASE c.cmd = "stop"
    <3>1. Becomes(Reqs, "cancelled")
      BY <1>8, <2>2, TerminalCmds DEF Obey
    <3>. QED
      BY <1>1, <3>1, NoneFinds DEF Statuses
  <2>3. CASE c.cmd = "disable"
    <3>1. Becomes(Reqs, "released")
      BY <1>8, <2>3, TerminalCmds DEF Obey
    <3>. QED
      BY <1>1, <3>1, NoneFinds DEF Statuses
  <2>4. CASE c.cmd = "enable"
    <3>1. UNCHANGED req /\ c.cmd # "disable" /\ c.cmd \notin DOMAIN Terminal
      BY <1>8, <2>4, TerminalCmds DEF Obey
    <3>. QED
      BY <1>7, <3>1
  <2>. QED
    BY <1>6, <2>1, <2>2, <2>3, <2>4, TerminalCmds DEF Cmds
<1>9. CASE c.cmd \in DOMAIN Terminal /\ ~Paused(c.r) /\ UNCHANGED req
  BY <1>7, <1>9, TerminalCmds DEF Paused
<1>. QED
  BY <1>5, <1>8, <1>9 DEF Carry

LEMMA RequestFinds ==
  ASSUME FetchInductive, FoundInductive, NEW r \in Reqs, Request(r)
  PROVE  FoundInductive'
<1>. DEFINE e == [by |-> r, msg |-> "paused"]
<1>1. FetchTypes
  BY DEF FetchInductive
<1>2. /\ ~closed /\ fetch \in BOOLEAN /\ UNCHANGED <<out, bus, lagged, closed, listener, task>>
      /\ wire' = IF fetch THEN Append(wire, e) ELSE wire
  BY <1>1 DEF Request, tasks, FetchTypes
<1>3. e \in Messages /\ e.msg = "paused" /\ e.by = r /\ wire \in Seq(Messages)
  BY <1>1 DEF Messages, Owners, FetchTypes
<1>. HIDE DEF e
<1>4. \A s \in Reqs \ {r} : req'[s] = req[s]
  BY <1>1 DEF Request, FetchTypes
<1>5. CASE fetch
  <2>1. Posted(wire') = Posted(wire) \cup {r}
    BY <1>2, <1>3, <1>5, PostedAppend
  <2>2. ASSUME NEW s \in Reqs, req'[s].status = "paused" PROVE Handed(s)'
    <3>1. CASE s = r
      BY <2>1, <3>1 DEF Handed
    <3>2. CASE s # r
      <4>1. Handed(s)
        BY <1>4, <2>2, <3>2 DEF FoundInductive
      <4>. QED
        BY <1>2, <2>1, <4>1 DEF Handed
    <3>. QED
      BY <3>1, <3>2
  <2>. QED
    BY <1>2, <2>2 DEF FoundInductive
<1>6. CASE ~fetch
  <2>1. UNCHANGED wire
    BY <1>2, <1>6
  <2>2. req'[r].status = "unseen"
    BY <1>1, <1>6 DEF Request, FetchTypes
  <2>3. ASSUME NEW s \in Reqs, req'[s].status = "paused" PROVE Handed(s)'
    <3>1. s # r /\ Handed(s)
      BY <1>4, <2>2, <2>3 DEF FoundInductive
    <3>. QED
      BY <1>2, <2>1, <3>1 DEF Handed
  <2>. QED
    BY <1>2, <2>3 DEF FoundInductive
<1>. QED
  BY <1>2, <1>5, <1>6

LEMMA IncomingFinds ==
  ASSUME FetchInductive, FoundInductive, Incoming
  PROVE  FoundInductive'
<1>. DEFINE m == Head(wire)
<1>1. FetchTypes /\ PausesOnce
  BY DEF FetchInductive
<1>2. wire # <<>> /\ UNCHANGED <<doc, req, fetch, errors, closed>>
  BY DEF Incoming, browser
<1>0. m \in Messages /\ m.msg \in {"paused", "loading", "ok", "gone", "error"}
  <2>1. wire \in Seq(Messages)
    BY <1>1 DEF FetchTypes
  <2>2. m \in Messages
    BY <1>2, <2>1
  <2>. QED
    BY <2>2 DEF Messages
<1>3. wire' = Tail(wire)
  <2>1. CASE m.msg = "loading"
    BY <2>1 DEF Incoming
  <2>2. CASE m.msg = "paused"
    BY <2>2 DEF Incoming
  <2>3. CASE m.msg \in {"ok", "gone", "error"}
    BY <2>3 DEF Incoming
  <2>. QED
    BY <1>0, <2>1, <2>2, <2>3
<1>4. /\ m.msg # "paused" => Posted(wire') = Posted(wire)
      /\ m.msg = "paused" => Posted(wire) = Posted(wire') \cup {m.by} /\ m.by \in Reqs
  BY <1>1, <1>2, <1>3, WireTail
<1>6. CASE m.msg = "loading"
  <2>1. UNCHANGED <<out, bus, lagged, listener, task, running>>
    BY <1>6 DEF Incoming, tasks
  <2>. QED
    BY <1>1, <1>2, <1>4, <1>6, <2>1, SameTasks, SameListener, SameGrows, WorkingFinds
<1>7. CASE m.msg \in {"ok", "gone", "error"}
  <2>1. UNCHANGED <<epoch, bus, lagged>>
    BY <1>7 DEF Incoming
  <2>2. ListenerGoes /\ OutGrows /\ SpawnedAsk
    <3>1. m.by \in Reqs \cup {Listener, None} /\ Listener # None
      BY <1>0 DEF Messages, Owners, Listener, None
    <3>2. CASE m.by = None
      <4>0. m.by # Listener /\ m.by \notin Reqs
        BY <3>1, <3>2, PausedAssumption
      <4>1. UNCHANGED <<out, listener, task, running>>
        BY <1>7, <3>2, <4>0 DEF Incoming, tasks
      <4>. QED
        BY <1>1, <4>1, SameTasks, SameListener, SameGrows
    <3>3. CASE m.by = Listener
      <4>0. m.by # None /\ m.by \notin Reqs
        BY <3>1, <3>3, PausedAssumption
      <4>1. ListenerReturns
        BY <1>7, <3>3, <4>0 DEF Incoming
      <4>. QED
        BY <1>1, <4>1, ListenerReturnsWork DEF Working
    <3>4. CASE m.by \in Reqs
      <4>1. m.by # None /\ m.by # Listener
        BY <3>4, PausedAssumption
      <4>2. TaskReturns(m.by, m.msg)
        BY <1>7, <3>4, <4>1 DEF Incoming
      <4>. QED
        BY <1>1, <3>4, <4>2, TaskReturnsWork DEF Working
    <3>. QED
      BY <3>1, <3>2, <3>3, <3>4
  <2>. QED
    BY <1>1, <1>2, <1>4, <1>7, <2>1, <2>2, WorkingFinds
<1>8. CASE m.msg = "paused"
  <2>. DEFINE e == [r |-> m.by, epoch |-> epoch]
  <2>1. Publish(e) /\ UNCHANGED <<out, epoch, listener, task, running>>
    BY <1>8 DEF Incoming, tasks
  <2>2. e \in Pauses /\ e.r = m.by /\ bus \in Seq(Pauses) /\ lagged \in BOOLEAN
    BY <1>1, <1>4, <1>8, PausedAssumption DEF Pauses, FetchTypes
  <2>. HIDE DEF e
  <2>3. CASE Len(bus) = BusCap
    <3>1. lagged'
      BY <2>1, <2>3 DEF Publish
    <3>. QED
      BY <1>2, <3>1 DEF FoundInductive, Handed
  <2>4. CASE Len(bus) # BusCap
    <3>1. bus' = Append(bus, e) /\ (lagged' <=> lagged)
      BY <2>1, <2>4 DEF Publish
    <3>2. Read(bus') = Read(bus) \cup {m.by}
      BY <2>2, <3>1, ReadAppend
    <3>3. ASSUME NEW r \in Reqs, req'[r].status = "paused" PROVE Handed(r)'
      <4>1. Handed(r)
        BY <1>2, <3>3 DEF FoundInductive
      <4>2. Posted(wire) \cup Read(bus) = Posted(wire') \cup Read(bus')
        BY <1>4, <1>8, <3>2
      <4>. QED
        BY <2>1, <3>1, <4>1, <4>2 DEF Handed
    <3>. QED
      BY <1>2, <3>3 DEF FoundInductive
  <2>. QED
    BY <2>3, <2>4
<1>. QED
  BY <1>0, <1>6, <1>7, <1>8

LEMMA ListenerFinds ==
  ASSUME FetchInductive, FoundInductive,
         Lagged \/ TakeUnidentified \/ ListenerEnds \/ ListenerTimeout \/ Take \/ Spawn
  PROVE  FoundInductive'
<1>1. FetchTypes /\ PausesOnce
  BY DEF FetchInductive
<1>2. UNCHANGED <<req, closed>>
  BY DEF Lagged, TakeUnidentified, ListenerEnds, ListenerTimeout, Take, Spawn, browser
<1>3. CASE Lagged
  <2>1. CASE closed
    BY <1>2, <2>1 DEF FoundInductive
  <2>2. CASE ~closed
    <3>1. Resets /\ listener.at = "recv"
      BY <1>3, <2>2 DEF Lagged
    <3>2. \E q \in Asked(out') : q[2] = "disable"
      BY <1>1, <3>1, ResetsWork
    <3>. QED
      BY <1>2, <2>2, <3>2 DEF FoundInductive, Handed
  <2>. QED
    BY <2>1, <2>2
<1>4. CASE TakeUnidentified
  <2>1. Resets /\ listener.at = "recv" /\ ~closed
    BY <1>4 DEF TakeUnidentified
  <2>2. \E q \in Asked(out') : q[2] = "disable"
    BY <1>1, <2>1, ResetsWork
  <2>. QED
    BY <1>2, <2>1, <2>2 DEF FoundInductive, Handed
<1>5. CASE ListenerEnds \/ ListenerTimeout
  <2>1. OutGrows /\ ListenerGoes /\ SpawnedAsk
    BY <1>5, ListenerSteps
  <2>2. UNCHANGED <<bus, lagged>> /\ Posted(wire') = Posted(wire)
    <3>1. CASE ListenerEnds
      BY <3>1 DEF ListenerEnds
    <3>2. CASE ListenerTimeout
      <4>1. wire' = Orphaned(wire, Listener) /\ UNCHANGED <<bus, lagged>> /\ Listener \in Owners
        BY <3>2 DEF ListenerTimeout, Owners
      <4>. QED
        BY <1>1, <4>1, WireOrphaned
    <3>. QED
      BY <1>5, <3>1, <3>2
  <2>. QED
    BY <1>1, <1>2, <2>1, <2>2, WorkingFinds
<1>6. CASE Take
  <2>1. /\ listener.at = "recv" /\ bus # <<>> /\ bus' = Tail(bus)
        /\ listener'.at = "permit" /\ listener'.r = Head(bus).r
        /\ UNCHANGED <<out, wire, lagged, task>>
    BY <1>6 DEF Take
  <2>2. Read(bus) = Read(bus') \cup {Head(bus).r}
    BY <1>1, <2>1, BusTail
  <2>. QED
    BY <1>2, <2>1, <2>2 DEF FoundInductive, Handed
<1>7. CASE Spawn
  <2>1. /\ listener.at = "permit" /\ listener.r \in Reqs
        /\ task' = [task EXCEPT ![listener.r] = [at |-> "spawned", epoch |-> listener.epoch]]
        /\ UNCHANGED <<out, wire, bus, lagged>>
    BY <1>1, <1>7 DEF Spawn, FetchTypes
  <2>2. task'[listener.r].at = "spawned" /\ \A r \in Reqs \ {listener.r} : task'[r] = task[r]
    BY <1>1, <2>1 DEF FetchTypes
  <2>. QED
    BY <1>2, <2>1, <2>2 DEF FoundInductive, Handed
<1>. QED
  BY <1>3, <1>4, <1>5, <1>6, <1>7

LEMMA FoundStep ==
  ASSUME MaxErrors = 0, FetchInductive, FoundInductive, [PausedNext]_fVars
  PROVE  FoundInductive'
<1>1. FetchTypes
  BY DEF FetchInductive
<1>2. ASSUME NEW r \in Reqs, Request(r) PROVE FoundInductive'
  BY <1>2, RequestFinds
<1>3. ASSUME NEW r \in Reqs, TaskStep(r) \/ TaskTimeout(r) PROVE FoundInductive'
  BY <1>1, <1>3, TaskSteps, WorkingFinds DEF Working
<1>4. CASE Navigate \/ Close
  BY <1>1, <1>4, NoneFinds DEF Navigate, Close, Statuses
<1>5. CASE Carry \/ Incoming
  BY <1>5, CarryFinds, IncomingFinds
<1>6. CASE ListenerStep \/ TakeUnidentified \/ ListenerTimeout
  BY <1>6, ListenerFinds DEF ListenerStep
<1>7. CASE UNCHANGED fVars
  BY <1>7 DEF fVars, FoundInductive, Handed
<1>. QED
  BY <1>2, <1>3, <1>4, <1>5, <1>6, <1>7 DEF PausedNext

LEMMA FoundIsWithSomebody == FetchInductive /\ FoundInductive => NoOrphan
<1>. SUFFICES ASSUME FetchInductive, FoundInductive PROVE NoOrphan
  OBVIOUS
<1>1. FetchTypes /\ PermitsKept
  BY DEF FetchInductive
<1>2. PausedTypeOK
  BY <1>1 DEF PausedTypeOK, FetchTypes, PermitsKept, ListenerPlaces
<1>3. ASSUME NEW r \in Reqs, Paused(r) PROVE OnItsWay(r)
  <2>1. Handed(r)
    BY <1>3 DEF FoundInductive, Paused
  <2>2. CASE r \in Posted(wire)
    <3>1. PICK i \in 1 .. Len(wire) : wire[i].msg = "paused" /\ wire[i].by = r
      BY <2>2 DEF Posted
    <3>2. wire[i] \in Messages /\ i \in DOMAIN wire
      BY <1>1 DEF FetchTypes
    <3>3. wire[i] = [by |-> r, msg |-> "paused"]
      BY <3>1, <3>2 DEF Messages
    <3>. QED
      BY <3>2, <3>3 DEF OnItsWay
  <2>3. CASE r \in Read(bus)
    <3>1. PICK i \in 1 .. Len(bus) : bus[i].r = r
      BY <2>3 DEF Read
    <3>2. i \in DOMAIN bus
      BY <1>1 DEF FetchTypes
    <3>. QED
      BY <3>1, <3>2 DEF OnItsWay
  <2>4. CASE (listener.at = "permit" /\ listener.r = r) \/ lagged
    BY <2>4 DEF OnItsWay
  <2>5. CASE task[r].at = "spawned"
    <3>1. r \in InFlight
      BY <2>5 DEF InFlight
    <3>. QED
      BY <3>1 DEF OnItsWay
  <2>6. CASE \E q \in Asked(out) : q[2] = "disable" \/ (q[1] = r /\ q[2] \in DOMAIN Terminal)
    <3>1. PICK i \in 1 .. Len(out) : out[i].cmd = "disable" \/ out[i].r = r
      BY <2>6 DEF Asked
    <3>2. i \in DOMAIN out
      BY <1>1 DEF FetchTypes
    <3>. QED
      BY <3>1, <3>2 DEF OnItsWay
  <2>. QED
    BY <2>1, <2>2, <2>3, <2>4, <2>5, <2>6 DEF Handed
<1>. QED
  BY <1>2, <1>3 DEF NoOrphan

(* With a browser that refuses nothing, no paused request is ever lost: it *)
(* is with the listener, a task, a command under way or a reset to come,   *)
(* however many events the bus drops and calls time out (rules.rs).        *)
THEOREM NobodyIsLost ==
  ASSUME MaxErrors = 0
  PROVE  PausedSafety => []NoOrphan
<1>1. PausedInit => FoundInductive
  BY DEF PausedInit, FoundInductive
<1>2. FetchInductive /\ FoundInductive /\ [PausedNext]_fVars => FoundInductive'
  BY FoundStep
<1>. QED
  BY <1>1, <1>2, FetchInvariance, FoundIsWithSomebody, PTL DEF PausedSafety

-----------------------------------------------------------------------------
(* A tab put to sleep. The host shows a live view of the registry's entry, *)
(* and no other view is live. A page that works or loads says it is busy.  *)
PageRecords == [hung : BOOLEAN, does : {"nothing", "work", "load"}]
Busy == page.does # "nothing"
USE DEF PageRecords, Busy

HostTypes ==
  /\ row \in {"active", "discarded", "gone"} /\ showing \in BOOLEAN
  /\ view \in 0 .. opened /\ opened \in Views
  /\ native \in [Views -> {"none", "live", "closing", "dead"}] /\ label \subseteq Views
  /\ misses \in 0 .. Unanswered
  /\ page \in PageRecords
  /\ main \in Sweepers \cup {Nobody, Unheard}
HostInv ==
  /\ showing => view # 0
  /\ view # 0 => /\ native[view] = "live" /\ view \in label
                 /\ entry.of = view /\ ~entry.closing
  /\ \A v \in Views : native[v] = "live" => v = view
  /\ row = "discarded" => view = 0

(* What is held on the entry is what works on its view.                    *)
WorksOn(v) == {t \in Tools : tool[t] = v}
EntryInv ==
  /\ entry \in [of : 0 .. opened, ready : BOOLEAN, closing : BOOLEAN, held : Nat]
  /\ tool \in [Tools -> 0 .. opened]
  /\ entry.held = IF entry.of = 0 THEN 0 ELSE Cardinality(WorksOn(entry.of))

(* Word of a change follows every answer that no longer holds.             *)
Words == [to : Sweepers \cup {Nobody}, busy : BOOLEAN]
HasWord == \E i \in DOMAIN queue : queue[i] = Changed
QueueInv ==
  /\ queue \in Seq(Words) /\ Len(queue) <= MaxQueue
  /\ \A i \in DOMAIN queue : queue[i].to = Nobody => queue[i] = Changed
  /\ \A i \in DOMAIN queue : queue[i] # Changed /\ queue[i].busy # Busy
       => \E j \in DOMAIN queue : i < j /\ queue[j] = Changed

(* A sweep that told a view to close is not about the view the tab has     *)
(* now; and an idle answer that was heard holds, or word of a change is on *)
(* its way, as long as the ticket is current.                              *)
SweepRecords ==
  [at : {"idle", "look", "asked", "answered", "request", "granted", "refused", "receipt",
         "unconfirmed", "finish"},
   of : 0 .. MaxViews, ticket : BOOLEAN, row : BOOLEAN, forced : BOOLEAN]
NotItsView(x) == x.at \in {"granted", "receipt", "unconfirmed", "finish"} => x.of # 0 /\ x.of # view
KnowsView(x) == x.at \in {"asked", "answered", "request"} => x.of # 0
FoundIdle(x) ==
  x.at = "request" /\ ~x.forced /\ x.ticket /\ view # 0 /\ x.of = view /\ Busy => HasWord
SweepFine(x) == x.of <= opened /\ NotItsView(x) /\ KnowsView(x) /\ FoundIdle(x)
SweepsInv == sweep \in [Sweepers -> SweepRecords] /\ \A s \in Sweepers : SweepFine(sweep[s])

DiscardInductive == HostTypes /\ HostInv /\ EntryInv /\ QueueInv /\ SweepsInv

LEMMA DiscardTyped == DiscardInductive => ViewIsLive
<1>. SUFFICES ASSUME DiscardInductive PROVE ViewIsLive
  OBVIOUS
<1>. USE DEF DiscardInductive
<1>1. MaxViews \in Nat /\ opened \in 1 .. MaxViews /\ 0 .. opened \subseteq 0 .. MaxViews /\ 0 \notin Views
  BY BoundsAssumption DEF HostTypes, Views
<1>2. entry.held \in 0 .. Cardinality(Tools)
  <2>1. IsFiniteSet(Tools) /\ Cardinality(Tools) \in Nat
    BY BoundsAssumption, FS_CardinalityType
  <2>2. WorksOn(entry.of) \subseteq Tools
    BY DEF WorksOn
  <2>3. Cardinality(WorksOn(entry.of)) \in Nat /\ Cardinality(WorksOn(entry.of)) <= Cardinality(Tools)
    BY <2>1, <2>2, FS_Subset, FS_CardinalityType
  <2>. QED
    BY <2>1, <2>3 DEF EntryInv
<1>3. entry \in [of : 0 .. MaxViews, ready : BOOLEAN, closing : BOOLEAN, held : 0 .. Cardinality(Tools)]
  BY <1>1, <1>2 DEF EntryInv
<1>4. tool \in [Tools -> 0 .. MaxViews]
  <2>1. tool \in [Tools -> 0 .. opened]
    BY DEF EntryInv
  <2>2. \A t \in Tools : tool[t] \in 0 .. MaxViews
    BY <1>1, <2>1
  <2>. QED
    BY <2>1, <2>2
<1>5. \A i \in DOMAIN queue : queue[i] \in [to : Sweepers \cup {Nobody}, busy : BOOLEAN]
  <2>1. queue \in Seq(Words)
    BY DEF QueueInv
  <2>2. \A i \in DOMAIN queue : queue[i] \in Words
    BY <2>1
  <2>. QED
    BY <2>2 DEF Words
<1>6. TypeOK
  <2>1. /\ row \in {"active", "discarded", "gone"} /\ showing \in BOOLEAN
        /\ view \in 0 .. MaxViews /\ opened \in Views
        /\ native \in [Views -> {"none", "live", "closing", "dead"}] /\ label \subseteq Views
        /\ misses \in 0 .. Unanswered
        /\ page \in PageRecords
        /\ main \in Sweepers \cup {Nobody, Unheard}
    BY <1>1 DEF HostTypes
  <2>2. Len(queue) <= MaxQueue
    BY DEF QueueInv
  <2>. QED
    BY <1>3, <1>4, <1>5, <2>1, <2>2 DEF TypeOK, SweepsInv, SweepRecords
<1>7. Asleep
  BY <1>1 DEF Asleep, HostInv
<1>. QED
  BY <1>6, <1>7 DEF ViewIsLive, HostInv

-----------------------------------------------------------------------------
(* The effects of the small updates.                                       *)
LEMMA SweepSet ==
  ASSUME sweep \in [Sweepers -> SweepRecords], NEW s \in Sweepers, NEW r \in SweepRecords,
         sweep' = [sweep EXCEPT ![s] = r]
  PROVE  /\ sweep' \in [Sweepers -> SweepRecords] /\ sweep'[s] = r
         /\ \A u \in Sweepers : u # s => sweep'[u] = sweep[u]
  OBVIOUS

LEMMA RestingFine == Resting \in SweepRecords /\ (opened \in Nat => SweepFine(Resting)) /\ Resting.at = "idle"
<1>1. Resting \in SweepRecords /\ Resting.at = "idle" /\ Resting.of = 0
  BY BoundsAssumption DEF Resting, SweepRecords
<1>. QED
  BY <1>1 DEF SweepFine, NotItsView, KnowsView, FoundIdle

LEMMA GoesTo ==
  ASSUME sweep \in [Sweepers -> SweepRecords], NEW s \in Sweepers,
         NEW where \in {"idle", "look", "asked", "answered", "request", "granted", "refused",
                        "receipt", "unconfirmed", "finish"}, Goes(s, where)
  PROVE  /\ sweep' \in [Sweepers -> SweepRecords]
         /\ sweep'[s].at = where /\ sweep'[s].of = sweep[s].of /\ sweep'[s].forced = sweep[s].forced
         /\ sweep'[s].ticket = sweep[s].ticket
         /\ \A u \in Sweepers : u # s => sweep'[u] = sweep[u]
<1>. DEFINE r == [sweep[s] EXCEPT !.at = where]
<1>1. r \in SweepRecords /\ r.at = where /\ r.of = sweep[s].of /\ r.forced = sweep[s].forced /\ r.ticket = sweep[s].ticket
  BY DEF SweepRecords
<1>2. sweep' = [sweep EXCEPT ![s] = r]
  BY DEF Goes
<1>. HIDE DEF r
<1>. QED
  BY <1>1, <1>2, SweepSet

(* Sweeps whose tickets or rows may have lapsed, and nothing else of them. *)
Lapsed(x, y) == x.at = y.at /\ x.of = y.of /\ x.forced = y.forced /\ (y.ticket => x.ticket)

LEMMA Lapses ==
  ASSUME NEW f \in [Sweepers -> SweepRecords]
  PROVE  /\ TicketsLapse(f) \in [Sweepers -> SweepRecords]
         /\ RowsLapse(f) \in [Sweepers -> SweepRecords]
         /\ \A s \in Sweepers : /\ Lapsed(f[s], TicketsLapse(f)[s]) /\ ~TicketsLapse(f)[s].ticket
                                /\ Lapsed(f[s], RowsLapse(f)[s])
<1>1. ASSUME NEW s \in Sweepers
      PROVE  /\ [f[s] EXCEPT !.ticket = FALSE] \in SweepRecords /\ Lapsed(f[s], [f[s] EXCEPT !.ticket = FALSE])
             /\ ~[f[s] EXCEPT !.ticket = FALSE].ticket
             /\ [f[s] EXCEPT !.row = FALSE] \in SweepRecords /\ Lapsed(f[s], [f[s] EXCEPT !.row = FALSE])
  <2>1. f[s] \in SweepRecords
    OBVIOUS
  <2>. QED
    BY <2>1 DEF SweepRecords, Lapsed
<1>. QED
  BY <1>1 DEF TicketsLapse, RowsLapse

LEMMA Updates ==
  ASSUME sweep \in [Sweepers -> SweepRecords], NEW v, NEW e, Update(v, e)
  PROVE  /\ sweep' \in [Sweepers -> SweepRecords] /\ \A s \in Sweepers : Lapsed(sweep[s], sweep'[s])
         /\ \/ entry.of = v /\ v # 0 /\ entry' = e /\ \A s \in Sweepers : ~sweep'[s].ticket
            \/ ~(entry.of = v /\ v # 0) /\ entry' = entry
<1>1. CASE entry.of = v /\ v # 0
  BY <1>1, Lapses DEF Update
<1>2. CASE ~(entry.of = v /\ v # 0)
  BY <1>2 DEF Update, Lapsed
<1>. QED
  BY <1>1, <1>2

(* Lapsed sweeps are as fine as they were, under any other view and with   *)
(* word of what the page does since.                                       *)
LEMMA SweepsKeep ==
  ASSUME HostTypes, SweepsInv, sweep' \in [Sweepers -> SweepRecords],
         \A s \in Sweepers : Lapsed(sweep[s], sweep'[s]),
         opened' \in Nat, opened <= opened', view' \in {view, 0} \/ view' > opened,
         \/ view' = 0 \/ ~Busy' \/ HasWord'
         \/ view' = view /\ Busy' = Busy /\ (HasWord => HasWord')
         \/ \A s \in Sweepers : ~sweep'[s].ticket
  PROVE  SweepsInv'
<1>1. ASSUME NEW s \in Sweepers PROVE SweepFine(sweep[s])'
  <2>. DEFINE x == sweep[s]
              y == sweep'[s]
  <2>1. x \in SweepRecords /\ y \in SweepRecords /\ SweepFine(x) /\ Lapsed(x, y)
    BY DEF SweepsInv
  <2>2. x.of \in Nat /\ y.of = x.of /\ opened \in Nat /\ view \in Nat
    BY <2>1, BoundsAssumption DEF SweepRecords, HostTypes, Lapsed, Views
  <2>3. y.of <= opened' /\ (NotItsView(sweep[s]))' /\ KnowsView(sweep[s])'
    BY <2>1, <2>2 DEF Lapsed, SweepFine, NotItsView, KnowsView
  <2>4. FoundIdle(sweep[s])'
    BY <2>1, <2>2 DEF Lapsed, SweepFine, FoundIdle
  <2>. QED
    BY <2>3, <2>4 DEF SweepFine
<1>. QED
  BY <1>1 DEF SweepsInv

(* Steps of the sweeps alone.                                              *)
LEMMA SweepsMove ==
  ASSUME \A s \in Sweepers : SweepFine(sweep'[s]), sweep' \in [Sweepers -> SweepRecords],
         UNCHANGED <<view, opened, page, queue>>
  PROVE  SweepsInv'
<1>1. ASSUME NEW s \in Sweepers PROVE SweepFine(sweep[s])'
  BY DEF SweepFine, NotItsView, KnowsView, FoundIdle, HasWord
<1>. QED
  BY <1>1 DEF SweepsInv

-----------------------------------------------------------------------------
(* The queue, the entry and the host under steps that leave them.          *)
LEMMA QueueSame ==
  ASSUME QueueInv, UNCHANGED queue, Busy' = Busy PROVE QueueInv'
  BY DEF QueueInv

LEMMA QueueEmpty ==
  ASSUME queue' = <<>> PROVE QueueInv' /\ ~HasWord'
  BY BoundsAssumption DEF QueueInv, HasWord

LEMMA EntrySame ==
  ASSUME EntryInv, UNCHANGED <<entry, tool, opened>> PROVE EntryInv'
  BY DEF EntryInv, WorksOn

(* Any entry with what is held on it, as before.                           *)
LEMMA EntryKept ==
  ASSUME EntryInv, opened' = opened, tool' = tool,
         entry' \in [of : 0 .. opened, ready : BOOLEAN, closing : BOOLEAN, held : Nat],
         entry'.of = entry.of, entry'.held = entry.held
  PROVE  EntryInv'
  BY DEF EntryInv, WorksOn

LEMMA NoEntryFine ==
  ASSUME EntryInv, entry' = NoEntry, opened' = opened, tool' = tool, opened \in Nat PROVE EntryInv'
<1>1. /\ NoEntry \in [of : 0 .. opened, ready : BOOLEAN, closing : BOOLEAN, held : Nat]
      /\ NoEntry.of = 0 /\ NoEntry.held = 0
  BY DEF NoEntry
<1>. QED
  BY <1>1 DEF EntryInv

(* A view that was just begun has nothing working on it.                   *)
LEMMA BegunFine ==
  ASSUME EntryInv, opened \in Nat, opened' = opened + 1, entry' = Begun(opened'), tool' = tool
  PROVE  EntryInv' /\ entry'.of = opened' /\ ~entry'.closing
<1>1. /\ entry' \in [of : 0 .. opened', ready : BOOLEAN, closing : BOOLEAN, held : Nat]
      /\ entry'.of = opened' /\ entry'.held = 0 /\ ~entry'.closing
  BY DEF Begun
<1>2. tool' \in [Tools -> 0 .. opened'] /\ \A t \in Tools : tool'[t] # opened'
  <2>1. \A t \in Tools : tool[t] \in 0 .. opened
    BY DEF EntryInv
  <2>2. \A t \in Tools : tool[t] \in 0 .. opened' /\ tool[t] # opened'
    BY <2>1
  <2>. QED
    BY <2>2 DEF EntryInv
<1>3. {t \in Tools : tool'[t] = entry'.of} = {}
  BY <1>1, <1>2
<1>. QED
  BY <1>1, <1>2, <1>3, FS_EmptySet DEF EntryInv, WorksOn

LEMMA HostSame ==
  ASSUME HostTypes, HostInv, UNCHANGED <<row, showing, view, native, label>>,
         entry'.of = entry.of /\ entry'.closing = entry.closing
  PROVE  HostInv'
  BY DEF HostInv

-----------------------------------------------------------------------------
(* The page, the browser and the session's worker.                         *)
DiscardStep == HostTypes' /\ HostInv' /\ EntryInv' /\ QueueInv' /\ SweepsInv'

LEMMA DiscardInts == HostTypes => opened \in Nat /\ view \in Nat /\ view <= opened
  BY BoundsAssumption DEF HostTypes, Views

LEMMA InstrumentedStep == ASSUME DiscardInductive, Instrumented PROVE DiscardStep
<1>. USE DEF DiscardInductive
<1>1. view # 0 /\ entry.of = view /\ UNCHANGED <<row, host, engine, misses, queue, tool, main>>
  BY DEF Instrumented, HostInv
<1>2. /\ sweep' \in [Sweepers -> SweepRecords] /\ \A s \in Sweepers : Lapsed(sweep[s], sweep'[s])
      /\ entry' = [entry EXCEPT !.ready = TRUE]
  <2>1. Update(view, [entry EXCEPT !.ready = TRUE])
    BY DEF Instrumented
  <2>. QED
    BY <1>1, <2>1, Updates DEF SweepsInv
<1>. USE <1>1 DEF host, engine
<1>3. HostTypes'
  BY DEF HostTypes
<1>4. /\ entry' \in [of : 0 .. opened, ready : BOOLEAN, closing : BOOLEAN, held : Nat]
      /\ entry'.of = entry.of /\ entry'.held = entry.held /\ entry'.closing = entry.closing
  BY <1>2 DEF EntryInv
<1>5. EntryInv' /\ HostInv'
  BY <1>4, EntryKept, HostSame
<1>6. QueueInv'
  BY QueueSame
<1>7. SweepsInv'
  BY <1>2, SweepsKeep, DiscardInts DEF HasWord
<1>. QED
  BY <1>3, <1>5, <1>6, <1>7 DEF DiscardStep

LEMMA ChangedIs == Changed \in Words /\ Changed.to = Nobody
  BY DEF Changed, Words

LEMMA PageActsStep == ASSUME DiscardInductive, PageActs PROVE DiscardStep
<1>. USE DEF DiscardInductive
<1>1. /\ Len(queue) < MaxQueue /\ queue' = Append(queue, Changed)
      /\ UNCHANGED <<row, host, native, label, entry, misses, tool, sweep, main>>
  BY DEF PageActs
<1>. USE DEF host
<1>2. page' \in PageRecords
  BY DEF PageActs, HostTypes
<1>3. HostTypes'
  BY <1>1, <1>2 DEF HostTypes
<1>4. EntryInv' /\ HostInv'
  BY <1>1, EntrySame, HostSame
<1>5. /\ queue' \in Seq(Words) /\ Len(queue') = Len(queue) + 1 /\ DOMAIN queue' = 1 .. Len(queue) + 1
      /\ DOMAIN queue = 1 .. Len(queue) /\ Len(queue) \in Nat
      /\ queue'[Len(queue) + 1] = Changed /\ \A i \in DOMAIN queue : queue'[i] = queue[i]
  BY <1>1, ChangedIs DEF QueueInv
<1>6. HasWord'
  BY <1>5 DEF HasWord
<1>7. QueueInv'
  <2>1. Len(queue') <= MaxQueue
    BY <1>1, <1>5, BoundsAssumption
  <2>2. \A i \in DOMAIN queue' : queue'[i].to = Nobody => queue'[i] = Changed
    BY <1>5 DEF QueueInv
  <2>3. \A i \in DOMAIN queue' : queue'[i] # Changed => i < Len(queue) + 1
    BY <1>5
  <2>. QED
    BY <1>5, <2>1, <2>2, <2>3 DEF QueueInv
<1>8. SweepsInv'
  BY <1>1, <1>6, SweepsKeep, DiscardInts DEF SweepsInv, Lapsed
<1>. QED
  BY <1>3, <1>4, <1>7, <1>8 DEF DiscardStep

LEMMA PageHangsStep == ASSUME DiscardInductive, PageHangs PROVE DiscardStep
<1>. USE DEF DiscardInductive
<1>1. UNCHANGED <<row, host, native, label, entry, misses, queue, tool, sweep, main>>
  BY DEF PageHangs
<1>. USE <1>1 DEF host
<1>2. page' \in PageRecords /\ Busy' = Busy
  BY DEF PageHangs, HostTypes
<1>3. HostTypes'
  BY <1>2 DEF HostTypes
<1>4. EntryInv' /\ HostInv' /\ QueueInv'
  BY <1>2, EntrySame, HostSame, QueueSame
<1>5. SweepsInv'
  BY <1>2, SweepsKeep, DiscardInts DEF SweepsInv, Lapsed, HasWord
<1>. QED
  BY <1>3, <1>4, <1>5 DEF DiscardStep

LEMMA PageAnswersStep == ASSUME DiscardInductive, NEW s \in Sweepers, PageAnswers(s) PROVE DiscardStep
<1>. USE DEF DiscardInductive
<1>. DEFINE m == [to |-> s, busy |-> Busy]
            r == [sweep[s] EXCEPT !.at = "answered"]
<1>1. /\ Len(queue) < MaxQueue /\ queue' = Append(queue, m) /\ sweep' = [sweep EXCEPT ![s] = r]
      /\ sweep[s].at = "asked"
      /\ UNCHANGED <<row, host, engine, entry, misses, tool, main>>
  BY DEF PageAnswers
<1>2. m \in Words /\ m.to # Nobody /\ m.busy = Busy
  BY BoundsAssumption DEF Words, HostTypes
<1>3. /\ r \in SweepRecords /\ r.at = "answered" /\ r.of = sweep[s].of
  BY DEF SweepRecords, SweepsInv
<1>. HIDE DEF m, r
<1>. USE DEF host, engine
<1>4. HostTypes' /\ EntryInv' /\ HostInv'
  BY <1>1, EntrySame, HostSame DEF HostTypes
<1>5. /\ queue' \in Seq(Words) /\ Len(queue') = Len(queue) + 1 /\ DOMAIN queue' = 1 .. Len(queue) + 1
      /\ DOMAIN queue = 1 .. Len(queue) /\ Len(queue) \in Nat
      /\ queue'[Len(queue) + 1] = m /\ \A i \in DOMAIN queue : queue'[i] = queue[i]
  BY <1>1, <1>2 DEF QueueInv
<1>6. QueueInv'
  <2>1. Len(queue') <= MaxQueue
    BY <1>1, <1>5, BoundsAssumption
  <2>2. \A i \in DOMAIN queue' : queue'[i].to = Nobody => queue'[i] = Changed
    BY <1>2, <1>5 DEF QueueInv
  <2>3. ASSUME NEW i \in DOMAIN queue', queue'[i] # Changed, queue'[i].busy # Busy
        PROVE  \E j \in DOMAIN queue' : i < j /\ queue'[j] = Changed
    <3>1. i \in DOMAIN queue /\ queue'[i] = queue[i]
      BY <1>2, <1>5, <2>3
    <3>2. PICK j \in DOMAIN queue : i < j /\ queue[j] = Changed
      BY <2>3, <3>1 DEF QueueInv
    <3>. QED
      BY <1>5, <3>2
  <2>. QED
    BY <1>1, <1>5, <2>1, <2>2, <2>3 DEF QueueInv
<1>7. HasWord => HasWord'
  BY <1>5 DEF HasWord
<1>8. SweepsInv'
  <2>1. /\ sweep' \in [Sweepers -> SweepRecords] /\ sweep'[s] = r
        /\ \A u \in Sweepers : u # s => sweep'[u] = sweep[u]
    BY <1>1, <1>3, SweepSet DEF SweepsInv
  <2>2. SweepFine(sweep[s])'
    BY <1>1, <1>3, <2>1 DEF SweepsInv, SweepFine, NotItsView, KnowsView, FoundIdle
  <2>3. \A u \in Sweepers : u # s => SweepFine(sweep[u])'
    BY <1>1, <1>7, <2>1 DEF SweepsInv, SweepFine, NotItsView, KnowsView, FoundIdle
  <2>. QED
    BY <2>1, <2>2, <2>3 DEF SweepsInv
<1>. QED
  BY <1>4, <1>6, <1>8 DEF DiscardStep

LEMMA NativeDiesStep == ASSUME DiscardInductive, NEW v \in Views, NativeDies(v) PROVE DiscardStep
<1>. USE DEF DiscardInductive
<1>1. /\ native[v] = "closing" /\ native' = [native EXCEPT ![v] = "dead"]
      /\ UNCHANGED <<row, host, label, page, entry, misses, queue, tool, sweep, main>>
  BY DEF NativeDies
<1>. USE <1>1 DEF host
<1>2. HostTypes'
  BY DEF HostTypes
<1>3. HostInv'
  <2>1. 0 \notin Views /\ (view # 0 => view \in Views /\ view # v)
    BY BoundsAssumption, DiscardInts DEF HostTypes, HostInv, Views
  <2>. QED
    BY <2>1 DEF HostInv, HostTypes
<1>4. EntryInv' /\ QueueInv'
  BY EntrySame, QueueSame
<1>5. SweepsInv'
  BY SweepsKeep, DiscardInts DEF SweepsInv, Lapsed, HasWord
<1>. QED
  BY <1>2, <1>3, <1>4, <1>5 DEF DiscardStep

(* The worker takes the oldest message: word of a change makes every       *)
(* ticket lapse, and an answer is heard or not.                            *)
LEMMA TailIs ==
  ASSUME NEW q \in Seq(Words), q # <<>>
  PROVE  /\ Head(q) = q[1] /\ Head(q) \in Words /\ 1 \in DOMAIN q /\ DOMAIN q = 1 .. Len(q)
         /\ Tail(q) \in Seq(Words) /\ Len(Tail(q)) = Len(q) - 1 /\ Len(q) \in Nat
         /\ DOMAIN Tail(q) = 1 .. Len(q) - 1
         /\ \A i \in DOMAIN Tail(q) : i + 1 \in DOMAIN q /\ Tail(q)[i] = q[i + 1]
         /\ \A i \in DOMAIN q : i > 1 => i - 1 \in DOMAIN Tail(q) /\ Tail(q)[i - 1] = q[i]
  OBVIOUS

LEMMA IngestStep == ASSUME DiscardInductive, Ingest PROVE DiscardStep
<1>. USE DEF DiscardInductive
<1>1. /\ queue # <<>> /\ queue' = Tail(queue) /\ queue \in Seq(Words)
      /\ UNCHANGED <<row, host, engine, tool, main>>
  BY DEF Ingest, QueueInv
<1>. USE DEF host, engine
<1>2. /\ Head(queue) = queue[1] /\ Head(queue) \in Words /\ 1 \in DOMAIN queue
      /\ queue' \in Seq(Words) /\ Len(queue') = Len(queue) - 1 /\ Len(queue) \in Nat
      /\ DOMAIN queue = 1 .. Len(queue) /\ DOMAIN queue' = 1 .. Len(queue) - 1
      /\ \A i \in DOMAIN queue' : i + 1 \in DOMAIN queue /\ queue'[i] = queue[i + 1]
      /\ \A i \in DOMAIN queue : i > 1 => i - 1 \in DOMAIN queue' /\ queue'[i - 1] = queue[i]
  BY <1>1, TailIs
<1>3. QueueInv'
  <2>1. Len(queue') <= MaxQueue
    BY <1>2, BoundsAssumption DEF QueueInv
  <2>2. \A i \in DOMAIN queue' : queue'[i].to = Nobody => queue'[i] = Changed
    BY <1>2 DEF QueueInv
  <2>3. ASSUME NEW i \in DOMAIN queue', queue'[i] # Changed, queue'[i].busy # Busy
        PROVE  \E j \in DOMAIN queue' : i < j /\ queue'[j] = Changed
    <3>1. PICK j \in DOMAIN queue : i + 1 < j /\ queue[j] = Changed
      BY <1>2, <2>3 DEF QueueInv
    <3>2. j > 1 /\ j - 1 \in DOMAIN queue' /\ queue'[j - 1] = Changed /\ i < j - 1
      BY <1>2, <3>1
    <3>. QED
      BY <3>2
  <2>. QED
    BY <1>1, <1>2, <2>1, <2>2, <2>3 DEF QueueInv
<1>4. Head(queue) # Changed => (HasWord => HasWord')
  BY <1>2 DEF HasWord
<1>5. CASE Head(queue) = Changed
  <2>1. /\ sweep' \in [Sweepers -> SweepRecords] /\ \A s \in Sweepers : Lapsed(sweep[s], sweep'[s])
        /\ entry' = entry /\ (view # 0 => \A s \in Sweepers : ~sweep'[s].ticket)
    <3>1. Update(view, entry)
      BY <1>5 DEF Ingest
    <3>. QED
      BY <3>1, Updates DEF SweepsInv, HostInv
  <2>2. HostTypes' /\ EntryInv' /\ HostInv'
    BY <1>1, <1>5, <2>1, EntrySame, HostSame DEF HostTypes, Ingest
  <2>3. SweepsInv'
    BY <1>1, <2>1, SweepsKeep, DiscardInts
  <2>. QED
    BY <1>3, <2>2, <2>3 DEF DiscardStep
<1>6. CASE Head(queue) # Changed
  <2>. DEFINE m == Head(queue)
              r == [sweep[m.to] EXCEPT !.at = "request"]
  <2>1. Hear(m) /\ entry' = entry
    BY <1>6 DEF Ingest
  <2>2. m.to \in Sweepers
    BY <1>2, <1>6 DEF QueueInv, Words
  <2>3. misses' \in 0 .. Unanswered
    BY <2>1, BoundsAssumption DEF Hear, Forgotten, HostTypes
  <2>4. HostTypes' /\ EntryInv' /\ HostInv'
    BY <1>1, <2>1, <2>3, EntrySame, HostSame DEF HostTypes
  <2>5. ASSUME NEW x, SweepFine(x)
        PROVE  x.of <= opened' /\ (x.at \in {"granted", "receipt", "unconfirmed", "finish"} => x.of # 0 /\ x.of # view')
               /\ (x.at \in {"asked", "answered", "request"} => x.of # 0)
               /\ (x.at = "request" /\ ~x.forced /\ x.ticket /\ view' # 0 /\ x.of = view' /\ Busy' => HasWord')
    BY <1>1, <1>4, <1>6, <2>5 DEF SweepFine, NotItsView, KnowsView, FoundIdle
  <2>6. CASE sweep[m.to].at = "answered" /\ ~m.busy
    <3>1. sweep' = [sweep EXCEPT ![m.to] = r]
      BY <2>1, <2>6 DEF Hear
    <3>2. sweep[m.to] \in SweepRecords /\ SweepFine(sweep[m.to])
      BY <2>2 DEF SweepsInv
    <3>3. r \in SweepRecords /\ r.at = "request" /\ r.of = sweep[m.to].of
      BY <3>2 DEF SweepRecords
    <3>. HIDE DEF r
    <3>4. Busy => HasWord'
      <4>1. ASSUME Busy PROVE HasWord'
        <5>1. PICK j \in DOMAIN queue : 1 < j /\ queue[j] = Changed
          BY <1>2, <1>6, <2>6, <4>1 DEF QueueInv
        <5>. QED
          BY <1>2, <5>1 DEF HasWord
      <4>. QED
        BY <4>1
    <3>5. /\ sweep' \in [Sweepers -> SweepRecords] /\ sweep'[m.to] = r
          /\ \A u \in Sweepers : u # m.to => sweep'[u] = sweep[u]
      BY <2>2, <3>1, <3>3, SweepSet DEF SweepsInv
    <3>6. ASSUME NEW u \in Sweepers PROVE SweepFine(sweep[u])'
      <4>1. CASE sweep'[u] = sweep[u]
        BY <2>5, <4>1 DEF SweepsInv, SweepFine, NotItsView, KnowsView, FoundIdle
      <4>2. CASE u = m.to
        BY <1>1, <2>6, <3>2, <3>3, <3>4, <3>5, <4>2 DEF SweepFine, NotItsView, KnowsView, FoundIdle
      <4>. QED
        BY <3>5, <4>1, <4>2
    <3>. QED
      BY <1>3, <2>4, <3>5, <3>6 DEF DiscardStep, SweepsInv
  <2>7. CASE ~(sweep[m.to].at = "answered" /\ ~m.busy)
    <3>1. sweep' = sweep \/ sweep' = [sweep EXCEPT ![m.to] = Resting]
      BY <2>1, <2>7 DEF Hear
    <3>2. /\ sweep' \in [Sweepers -> SweepRecords]
          /\ \A u \in Sweepers : sweep'[u] = sweep[u] \/ sweep'[u] = Resting
      BY <2>2, <3>1, RestingFine, SweepSet DEF SweepsInv
    <3>3. SweepFine(Resting)
      BY RestingFine, DiscardInts
    <3>4. ASSUME NEW u \in Sweepers PROVE SweepFine(sweep[u])'
      BY <2>5, <3>2, <3>3 DEF SweepsInv, SweepFine, NotItsView, KnowsView, FoundIdle
    <3>. QED
      BY <1>3, <2>4, <3>2, <3>4 DEF DiscardStep, SweepsInv
  <2>. QED
    BY <2>6, <2>7
<1>. QED
  BY <1>5, <1>6

-----------------------------------------------------------------------------
(* The person.                                                             *)
LEMMA ClosedIs ==
  ASSUME HostTypes, NEW v \in 0 .. MaxViews
  PROVE  /\ Closed(v) \in [Views -> {"none", "live", "closing", "dead"}]
         /\ \A u \in Views : u # v => Closed(v)[u] = native[u]
         /\ v \in Views => Closed(v)[v] # "live"
  BY DEF Closed, HostTypes

LEMMA ActivateStep == ASSUME DiscardInductive, Activate PROVE DiscardStep
<1>. USE DEF DiscardInductive
<1>1. UNCHANGED <<misses, tool, main>> /\ row # "gone"
  BY DEF Activate
<1>2. sweep \in [Sweepers -> SweepRecords] /\ TicketsLapse(sweep) \in [Sweepers -> SweepRecords]
  BY Lapses DEF SweepsInv
<1>3. CASE /\ view # 0 /\ showing' = TRUE /\ row' = "active" /\ sweep' = RowsLapse(sweep)
           /\ UNCHANGED <<view, opened, engine, entry, queue>>
  <2>. USE <1>1, <1>3 DEF engine
  <2>1. HostTypes' /\ HostInv' /\ EntryInv' /\ QueueInv'
    BY EntrySame, QueueSame DEF HostTypes, HostInv
  <2>2. sweep' \in [Sweepers -> SweepRecords] /\ \A s \in Sweepers : Lapsed(sweep[s], sweep'[s])
    BY <1>2, Lapses
  <2>3. SweepsInv'
    BY <2>2, SweepsKeep, DiscardInts DEF HasWord
  <2>. QED
    BY <2>1, <2>3 DEF DiscardStep
<1>4. CASE view = 0 /\ opened < MaxViews /\ opened' = opened + 1 /\ entry' = Begun(opened + 1)
  <2>1. /\ EntryInv' /\ entry'.of = opened' /\ ~entry'.closing
        /\ opened' \in Views /\ opened' # 0 /\ opened' > opened /\ opened \in Nat /\ opened' \in Nat
    BY <1>1, <1>4, BegunFine, DiscardInts, BoundsAssumption DEF Views
  <2>2. CASE /\ view' = opened' /\ showing' = TRUE
             /\ native' = [native EXCEPT ![opened'] = "live"] /\ label' = label \cup {opened'}
             /\ page' = [hung |-> FALSE, does |-> "load"] /\ queue' = <<>> /\ row' = "active"
             /\ sweep' = RowsLapse(TicketsLapse(sweep))
    <3>1. HostTypes'
      BY <1>1, <2>1, <2>2 DEF HostTypes
    <3>2. \A v \in Views : v # opened' => native'[v] # "live"
      BY <1>4, <2>2, BoundsAssumption DEF HostInv, HostTypes, Views
    <3>3. HostInv'
      BY <2>1, <2>2, <3>2 DEF HostInv, HostTypes
    <3>4. QueueInv'
      BY <2>2, QueueEmpty
    <3>5. /\ sweep' \in [Sweepers -> SweepRecords]
          /\ \A s \in Sweepers : /\ Lapsed(sweep[s], TicketsLapse(sweep)[s])
                                 /\ ~TicketsLapse(sweep)[s].ticket
                                 /\ Lapsed(TicketsLapse(sweep)[s], sweep'[s])
      BY <1>2, <2>2, Lapses
    <3>6. \A s \in Sweepers : Lapsed(sweep[s], sweep'[s]) /\ ~sweep'[s].ticket
      BY <3>5 DEF Lapsed
    <3>7. SweepsInv'
      BY <2>1, <2>2, <3>5, <3>6, SweepsKeep
    <3>. QED
      BY <2>1, <3>1, <3>3, <3>4, <3>7 DEF DiscardStep
  <2>3. CASE sweep' = TicketsLapse(sweep) /\ UNCHANGED <<row, showing, view, engine, queue>>
    <3>. USE <2>3 DEF engine
    <3>1. HostTypes' /\ HostInv' /\ QueueInv'
      BY <1>1, <1>4, <2>1, QueueSame DEF HostTypes, HostInv
    <3>2. sweep' \in [Sweepers -> SweepRecords] /\ \A s \in Sweepers : Lapsed(sweep[s], sweep'[s])
      BY <1>2, Lapses
    <3>3. SweepsInv'
      BY <1>4, <2>1, <3>2, SweepsKeep
    <3>. QED
      BY <2>1, <3>1, <3>3 DEF DiscardStep
  <2>. QED
    BY <1>4, <2>2, <2>3 DEF Activate
<1>. QED
  BY <1>3, <1>4 DEF Activate

LEMMA HideStep == ASSUME DiscardInductive, Hide PROVE DiscardStep
<1>. USE DEF DiscardInductive
<1>1. /\ showing' = FALSE
      /\ UNCHANGED <<row, view, opened, engine, entry, misses, queue, tool, sweep, main>>
  BY DEF Hide
<1>. USE <1>1 DEF engine
<1>2. HostTypes' /\ HostInv' /\ EntryInv' /\ QueueInv'
  BY EntrySame, QueueSame DEF HostTypes, HostInv
<1>3. SweepsInv'
  BY SweepsKeep, DiscardInts DEF HasWord, SweepsInv, Lapsed
<1>. QED
  BY <1>2, <1>3 DEF DiscardStep

LEMMA CloseTabStep == ASSUME DiscardInductive, CloseTab PROVE DiscardStep
<1>. USE DEF DiscardInductive
<1>1. /\ row' = "gone" /\ showing' = FALSE /\ view' = 0
      /\ native' = IF view = 0 THEN native ELSE Closed(view)
      /\ label' = label \ {view} /\ entry' = NoEntry
      /\ sweep' = RowsLapse(TicketsLapse(sweep)) /\ queue' = <<>> /\ misses' = 0
      /\ UNCHANGED <<opened, page, tool, main>>
  BY DEF CloseTab, Forgotten
<1>2. view \in 0 .. MaxViews /\ opened \in Nat /\ 0 \notin Views
  BY DiscardInts, BoundsAssumption DEF HostTypes, Views
<1>3. /\ native' \in [Views -> {"none", "live", "closing", "dead"}]
      /\ \A v \in Views : native'[v] # "live"
  <2>1. CASE view = 0
    BY <1>1, <1>2, <2>1 DEF HostTypes, HostInv
  <2>2. CASE view # 0
    <3>1. /\ native' = Closed(view) /\ view \in Views
          /\ Closed(view) \in [Views -> {"none", "live", "closing", "dead"}]
          /\ \A u \in Views : u # view => Closed(view)[u] = native[u]
          /\ Closed(view)[view] # "live"
      BY <1>1, <1>2, <2>2, ClosedIs, BoundsAssumption DEF Views
    <3>. QED
      BY <3>1 DEF HostInv
  <2>. QED
    BY <2>1, <2>2
<1>4. HostTypes'
  <2>1. 0 \in 0 .. opened /\ 0 \in 0 .. Unanswered
    BY <1>2, BoundsAssumption
  <2>. QED
    BY <1>1, <1>3, <2>1 DEF HostTypes
<1>5. HostInv' /\ EntryInv' /\ QueueInv'
  BY <1>1, <1>2, <1>3, NoEntryFine, QueueEmpty DEF HostInv
<1>6. /\ sweep' \in [Sweepers -> SweepRecords]
      /\ \A s \in Sweepers : /\ Lapsed(sweep[s], TicketsLapse(sweep)[s])
                             /\ Lapsed(TicketsLapse(sweep)[s], sweep'[s])
  BY <1>1, Lapses DEF SweepsInv
<1>7. \A s \in Sweepers : Lapsed(sweep[s], sweep'[s])
  BY <1>6 DEF Lapsed
<1>8. SweepsInv'
  BY <1>1, <1>2, <1>6, <1>7, SweepsKeep
<1>. QED
  BY <1>4, <1>5, <1>8 DEF DiscardStep

(* What a tool holds is counted on the entry of the view it works on.      *)
LEMMA ToolBeginsStep == ASSUME DiscardInductive, NEW t \in Tools, ToolBegins(t) PROVE DiscardStep
<1>. USE DEF DiscardInductive
<1>1. /\ tool[t] = 0 /\ entry.of # 0 /\ tool' = [tool EXCEPT ![t] = entry.of]
      /\ UNCHANGED <<row, host, engine, misses, queue, main>>
  BY DEF ToolBegins
<1>. USE DEF host, engine
<1>2. /\ sweep' \in [Sweepers -> SweepRecords] /\ \A s \in Sweepers : Lapsed(sweep[s], sweep'[s])
      /\ entry' = [entry EXCEPT !.held = @ + 1]
  <2>1. Update(entry.of, [entry EXCEPT !.held = @ + 1])
    BY DEF ToolBegins
  <2>. QED
    BY <1>1, <2>1, Updates DEF SweepsInv
<1>3. /\ entry' \in [of : 0 .. opened, ready : BOOLEAN, closing : BOOLEAN, held : Nat]
      /\ entry'.of = entry.of /\ entry'.held = entry.held + 1 /\ entry'.closing = entry.closing
  BY <1>2 DEF EntryInv
<1>4. HostTypes' /\ HostInv' /\ QueueInv'
  BY <1>1, <1>3, HostSame, QueueSame DEF HostTypes
<1>5. EntryInv'
  <2>1. {u \in Tools : tool'[u] = entry'.of} = WorksOn(entry.of) \cup {t} /\ t \notin WorksOn(entry.of)
    BY <1>1, <1>3 DEF WorksOn, EntryInv
  <2>2. IsFiniteSet(WorksOn(entry.of))
    BY BoundsAssumption, FS_Subset DEF WorksOn
  <2>3. Cardinality({u \in Tools : tool'[u] = entry'.of}) = Cardinality(WorksOn(entry.of)) + 1
    BY <2>1, <2>2, FS_AddElement
  <2>4. tool' \in [Tools -> 0 .. opened]
    BY <1>1 DEF EntryInv
  <2>. QED
    BY <1>1, <1>3, <2>3, <2>4 DEF EntryInv, WorksOn
<1>6. SweepsInv'
  BY <1>1, <1>2, SweepsKeep, DiscardInts DEF HasWord
<1>. QED
  BY <1>4, <1>5, <1>6 DEF DiscardStep

LEMMA ToolEndsStep == ASSUME DiscardInductive, NEW t \in Tools, ToolEnds(t) PROVE DiscardStep
<1>. USE DEF DiscardInductive
<1>1. /\ tool[t] # 0 /\ tool' = [tool EXCEPT ![t] = 0]
      /\ UNCHANGED <<row, host, engine, misses, queue, main>>
  BY DEF ToolEnds
<1>. USE DEF host, engine
<1>2. /\ sweep' \in [Sweepers -> SweepRecords] /\ \A s \in Sweepers : Lapsed(sweep[s], sweep'[s])
      /\ \/ entry.of = tool[t] /\ entry' = [entry EXCEPT !.held = IF @ = 0 THEN 0 ELSE @ - 1]
         \/ entry.of # tool[t] /\ entry' = entry
  <2>1. Update(tool[t], [entry EXCEPT !.held = IF @ = 0 THEN 0 ELSE @ - 1])
    BY DEF ToolEnds
  <2>. QED
    BY <1>1, <2>1, Updates DEF SweepsInv
<1>3. IsFiniteSet(WorksOn(entry.of)) /\ tool' \in [Tools -> 0 .. opened] /\ opened \in Nat
  BY <1>1, BoundsAssumption, FS_Subset, DiscardInts DEF WorksOn, EntryInv
<1>4. EntryInv' /\ entry'.of = entry.of /\ entry'.closing = entry.closing
  <2>1. CASE entry.of = tool[t]
    <3>1. {u \in Tools : tool'[u] = entry.of} = WorksOn(entry.of) \ {t} /\ t \in WorksOn(entry.of)
      BY <1>1, <2>1 DEF WorksOn, EntryInv
    <3>2. /\ Cardinality({u \in Tools : tool'[u] = entry.of}) = Cardinality(WorksOn(entry.of)) - 1
          /\ Cardinality({u \in Tools : tool'[u] = entry.of}) \in Nat
      <4>1. IsFiniteSet(WorksOn(entry.of) \ {t})
        BY <1>3, FS_Subset
      <4>. QED
        BY <1>3, <3>1, <4>1, FS_RemoveElement, FS_CardinalityType
    <3>3. entry.held = Cardinality(WorksOn(entry.of)) /\ entry.held \in Nat
      BY <1>1, <2>1 DEF EntryInv
    <3>4. entry.held - 1 \in Nat /\ entry.held # 0
      BY <3>2, <3>3
    <3>5. /\ entry' \in [of : 0 .. opened, ready : BOOLEAN, closing : BOOLEAN, held : Nat]
          /\ entry'.of = entry.of /\ entry'.held = entry.held - 1 /\ entry'.closing = entry.closing
      BY <1>1, <1>2, <2>1, <3>4 DEF EntryInv
    <3>. QED
      BY <1>1, <1>3, <2>1, <3>2, <3>3, <3>5 DEF EntryInv, WorksOn
  <2>2. CASE entry.of # tool[t]
    <3>1. entry.of # 0 => {u \in Tools : tool'[u] = entry.of} = WorksOn(entry.of)
      BY <1>1, <2>2 DEF WorksOn, EntryInv
    <3>. QED
      BY <1>1, <1>2, <1>3, <2>2, <3>1 DEF EntryInv, WorksOn
  <2>. QED
    BY <2>1, <2>2
<1>5. HostTypes' /\ HostInv' /\ QueueInv'
  BY <1>1, <1>4, HostSame, QueueSame DEF HostTypes
<1>6. SweepsInv'
  BY <1>1, <1>2, SweepsKeep, DiscardInts DEF HasWord
<1>. QED
  BY <1>4, <1>5, <1>6 DEF DiscardStep

-----------------------------------------------------------------------------
(* A sweep. Steps that move the sweeps alone, which end where they may.    *)
LEMMA HostUnmoved ==
  ASSUME DiscardInductive, UNCHANGED <<host, engine, entry, queue, tool>>,
         row' = row, misses' \in 0 .. Unanswered, main' \in Sweepers \cup {Nobody, Unheard}
  PROVE  HostTypes' /\ HostInv' /\ EntryInv' /\ QueueInv'
<1>. USE DEF DiscardInductive, host, engine
<1>1. HostTypes' /\ HostInv'
  BY DEF HostTypes, HostInv
<1>. QED
  BY <1>1, EntrySame, QueueSame

LEMMA SweepGivesUp ==
  ASSUME DiscardInductive, NEW s \in Sweepers, NEW f \in [Sweepers -> SweepRecords],
         \A u \in Sweepers : SweepFine(f[u]), sweep' = [f EXCEPT ![s] = Resting],
         UNCHANGED <<view, opened, page, queue>>
  PROVE  SweepsInv'
<1>1. Resting \in SweepRecords /\ SweepFine(Resting)
  BY RestingFine, DiscardInts DEF DiscardInductive
<1>. QED
  BY <1>1, SweepsMove

LEMMA SweepGoes ==
  ASSUME DiscardInductive, NEW s \in Sweepers, NEW r \in SweepRecords, SweepFine(r),
         sweep' = [sweep EXCEPT ![s] = r], UNCHANGED <<view, opened, page, queue>>
  PROVE  SweepsInv'
  BY SweepsMove DEF DiscardInductive, SweepsInv

LEMMA SweepOf ==
  ASSUME DiscardInductive, NEW s \in Sweepers
  PROVE  /\ sweep[s] \in SweepRecords /\ SweepFine(sweep[s]) /\ sweep[s].of \in Nat
         /\ \A where \in {"idle", "look", "asked", "answered", "request", "granted", "refused",
                          "receipt", "unconfirmed", "finish"} :
              /\ [sweep[s] EXCEPT !.at = where] \in SweepRecords
              /\ [sweep[s] EXCEPT !.at = where].at = where
              /\ [sweep[s] EXCEPT !.at = where].of = sweep[s].of
<1>1. sweep[s] \in SweepRecords /\ SweepFine(sweep[s])
  BY DEF DiscardInductive, SweepsInv
<1>. QED
  BY <1>1, BoundsAssumption DEF SweepRecords

LEMMA PickStep == ASSUME DiscardInductive, NEW s \in Sweepers, Pick(s) PROVE DiscardStep
<1>. DEFINE r == [Resting EXCEPT !.at = "look", !.row = TRUE]
<1>1. /\ sweep' = [sweep EXCEPT ![s] = r]
      /\ UNCHANGED <<row, host, engine, entry, misses, queue, tool, main>>
  BY DEF Pick
<1>2. r \in SweepRecords /\ r.at = "look" /\ r.of = 0
  <2>1. Resting \in SweepRecords /\ Resting.of = 0
    BY RestingFine DEF Resting
  <2>. QED
    BY <2>1 DEF SweepRecords
<1>. HIDE DEF r
<1>3. SweepFine(r)
  BY <1>2, DiscardInts DEF DiscardInductive, SweepFine, NotItsView, KnowsView, FoundIdle
<1>4. SweepsInv'
  BY <1>1, <1>2, <1>3, SweepGoes DEF host, engine
<1>5. HostTypes' /\ HostInv' /\ EntryInv' /\ QueueInv'
  BY <1>1, HostUnmoved DEF DiscardInductive, HostTypes
<1>. QED
  BY <1>4, <1>5 DEF DiscardStep

LEMMA LookStep == ASSUME DiscardInductive, NEW s \in Sweepers, Look(s) PROVE DiscardStep
<1>1. UNCHANGED <<row, host, engine, entry, misses, queue, tool, main>> /\ sweep[s].at = "look"
  BY DEF Look, At
<1>2. HostTypes' /\ HostInv' /\ EntryInv' /\ QueueInv'
  BY <1>1, HostUnmoved DEF DiscardInductive, HostTypes
<1>3. sweep \in [Sweepers -> SweepRecords] /\ \A u \in Sweepers : SweepFine(sweep[u])
  BY DEF DiscardInductive, SweepsInv
<1>4. CASE sweep' = [RowsLapse(sweep) EXCEPT ![s] = Resting]
  <2>1. RowsLapse(sweep) \in [Sweepers -> SweepRecords] /\ \A u \in Sweepers : Lapsed(sweep[u], RowsLapse(sweep)[u])
    BY <1>3, Lapses
  <2>2. \A u \in Sweepers : SweepFine(RowsLapse(sweep)[u])
    BY <1>3, <2>1 DEF Lapsed, SweepFine, NotItsView, KnowsView, FoundIdle
  <2>3. SweepsInv'
    BY <1>1, <1>4, <2>1, <2>2, SweepGivesUp DEF host, engine
  <2>. QED
    BY <1>2, <2>3 DEF DiscardStep
<1>5. CASE GivesUp(s)
  <2>1. SweepsInv'
    BY <1>1, <1>3, <1>5, SweepGivesUp DEF host, engine, GivesUp
  <2>. QED
    BY <1>2, <2>1 DEF DiscardStep
<1>6. CASE /\ Ready
           /\ sweep' = [sweep EXCEPT ![s].at = "asked", ![s].of = entry.of, ![s].ticket = TRUE]
  <2>. DEFINE r == [sweep[s] EXCEPT !.at = "asked", !.of = entry.of, !.ticket = TRUE]
  <2>1. entry.of \in Nat /\ entry.of # 0 /\ entry.of <= opened /\ entry.of \in 0 .. MaxViews
    BY <1>6, DiscardInts, BoundsAssumption DEF Ready, DiscardInductive, EntryInv, HostTypes, Views
  <2>2. r \in SweepRecords /\ r.at = "asked" /\ r.of = entry.of
    <3>1. sweep[s] \in SweepRecords
      BY SweepOf
    <3>. QED
      BY <2>1, <3>1 DEF SweepRecords
  <2>3. sweep' = [sweep EXCEPT ![s] = r]
    BY <1>6
  <2>. HIDE DEF r
  <2>4. SweepFine(r)
    BY <2>1, <2>2 DEF SweepFine, NotItsView, KnowsView, FoundIdle
  <2>5. SweepsInv'
    BY <1>1, <2>2, <2>3, <2>4, SweepGoes DEF host, engine
  <2>. QED
    BY <1>2, <2>5 DEF DiscardStep
<1>. QED
  BY <1>4, <1>5, <1>6 DEF Look

LEMMA TimeoutStep ==
  ASSUME DiscardInductive, NEW s \in Sweepers, ProbeTimeout(s) \/ ProbeClosed(s) \/ TooLate(s) PROVE DiscardStep
<1>1. UNCHANGED <<row, host, engine, entry, queue, tool>>
  BY DEF ProbeTimeout, ProbeClosed, TooLate
<1>2. misses' \in 0 .. Unanswered /\ main' \in Sweepers \cup {Nobody, Unheard}
  <2>1. misses \in 0 .. Unanswered /\ main \in Sweepers \cup {Nobody, Unheard} /\ Unanswered \in Nat
    BY BoundsAssumption DEF DiscardInductive, HostTypes
  <2>2. misses' = More(misses) \/ misses' = 0 \/ misses' = misses
    BY DEF ProbeTimeout, ProbeClosed, TooLate, Forgotten
  <2>3. main' \in {main, Unheard}
    BY DEF ProbeTimeout, ProbeClosed, TooLate
  <2>. QED
    BY <2>1, <2>2, <2>3 DEF More
<1>3. HostTypes' /\ HostInv' /\ EntryInv' /\ QueueInv'
  BY <1>1, <1>2, HostUnmoved
<1>4. CASE GivesUp(s)
  <2>1. SweepsInv'
    BY <1>1, <1>4, SweepGivesUp DEF host, engine, GivesUp, DiscardInductive, SweepsInv
  <2>. QED
    BY <1>3, <2>1 DEF DiscardStep
<1>5. CASE /\ sweep[s].at \in {"asked", "answered"}
           /\ sweep' = [sweep EXCEPT ![s].at = "request", ![s].forced = TRUE]
  <2>. DEFINE r == [sweep[s] EXCEPT !.at = "request", !.forced = TRUE]
  <2>1. r \in SweepRecords /\ r.at = "request" /\ r.of = sweep[s].of /\ r.forced
    <3>1. sweep[s] \in SweepRecords
      BY SweepOf
    <3>. QED
      BY <3>1 DEF SweepRecords
  <2>2. sweep' = [sweep EXCEPT ![s] = r]
    BY <1>5
  <2>. HIDE DEF r
  <2>3. SweepFine(r)
    BY <1>5, <2>1, SweepOf DEF SweepFine, NotItsView, KnowsView, FoundIdle
  <2>4. SweepsInv'
    BY <1>1, <2>1, <2>2, <2>3, SweepGoes DEF host, engine
  <2>. QED
    BY <1>3, <2>4 DEF DiscardStep
<1>. QED
  BY <1>4, <1>5 DEF ProbeTimeout, ProbeClosed, TooLate

LEMMA ReceiptStep ==
  ASSUME DiscardInductive, NEW s \in Sweepers, Receipt(s) \/ ReceiptTimeout(s) PROVE DiscardStep
<1>1. UNCHANGED <<row, host, engine, entry, misses, queue, tool, main>> /\ sweep[s].at = "receipt"
  BY DEF Receipt, ReceiptTimeout, At
<1>2. HostTypes' /\ HostInv' /\ EntryInv' /\ QueueInv'
  BY <1>1, HostUnmoved DEF DiscardInductive, HostTypes
<1>3. PICK where \in {"finish", "unconfirmed"} : sweep' = [sweep EXCEPT ![s].at = where]
  BY DEF Receipt, ReceiptTimeout, Goes
<1>7. where \in {"idle", "look", "asked", "answered", "request", "granted", "refused",
                 "receipt", "unconfirmed", "finish"}
  OBVIOUS
<1>. DEFINE r == [sweep[s] EXCEPT !.at = where]
<1>4. r \in SweepRecords /\ r.at = where /\ r.of = sweep[s].of /\ sweep' = [sweep EXCEPT ![s] = r]
  BY <1>3, <1>7, SweepOf
<1>. HIDE DEF r
<1>5. SweepFine(r)
  <2>1. r.at \notin {"asked", "answered", "request"}
    BY <1>4
  <2>2. r.of <= opened /\ NotItsView(r)
    BY <1>1, <1>4, SweepOf DEF SweepFine, NotItsView
  <2>. QED
    BY <2>1, <2>2 DEF SweepFine, KnowsView, FoundIdle
<1>6. SweepsInv'
  BY <1>1, <1>4, <1>5, SweepGoes DEF host, engine
<1>. QED
  BY <1>2, <1>6 DEF DiscardStep

LEMMA RepliesStep == ASSUME DiscardInductive, Replies PROVE DiscardStep
<1>1. UNCHANGED <<row, host, engine, entry, misses, queue, tool>> /\ main # Nobody /\ main' = Nobody
  BY DEF Replies
<1>2. HostTypes' /\ HostInv' /\ EntryInv' /\ QueueInv'
  BY <1>1, HostUnmoved DEF DiscardInductive, HostTypes
<1>3. main = Unheard \/ main \in Sweepers
  BY <1>1 DEF DiscardInductive, HostTypes
<1>4. CASE sweep' = sweep
  <2>1. SweepsInv'
    BY <1>1, <1>4, SweepsMove DEF DiscardInductive, SweepsInv, host, engine
  <2>. QED
    BY <1>2, <2>1 DEF DiscardStep
<1>5. CASE main \in Sweepers /\ GivesUp(main)
  <2>1. SweepsInv'
    BY <1>1, <1>5, SweepGivesUp DEF host, engine, GivesUp, DiscardInductive, SweepsInv
  <2>. QED
    BY <1>2, <2>1 DEF DiscardStep
<1>6. CASE main \in Sweepers /\ At(main, "granted") /\ Goes(main, "receipt")
  <2>. DEFINE r == [sweep[main] EXCEPT !.at = "receipt"]
  <2>1. r \in SweepRecords /\ r.at = "receipt" /\ r.of = sweep[main].of /\ sweep' = [sweep EXCEPT ![main] = r]
    BY <1>6, SweepOf DEF Goes
  <2>. HIDE DEF r
  <2>2. SweepFine(r)
    BY <1>6, <2>1, SweepOf DEF SweepFine, NotItsView, KnowsView, FoundIdle, At
  <2>3. SweepsInv'
    BY <1>1, <1>6, <2>1, <2>2, SweepGoes DEF host, engine
  <2>. QED
    BY <1>2, <2>3 DEF DiscardStep
<1>. QED
  BY <1>3, <1>4, <1>5, <1>6 DEF Replies

(* The view is told to close; no sweep is then about the tab's view.       *)
LEMMA RequestDiscardStep == ASSUME DiscardInductive, NEW s \in Sweepers, RequestDiscard(s) PROVE DiscardStep
<1>. USE DEF DiscardInductive
<1>1. UNCHANGED <<row, label, page, misses, tool>> /\ main' = s /\ sweep[s].at = "request"
  BY DEF RequestDiscard, At
<1>2. CASE Goes(s, "refused") /\ UNCHANGED <<host, native, entry, queue>>
  <2>1. HostTypes' /\ HostInv' /\ EntryInv' /\ QueueInv'
    BY <1>1, <1>2, HostUnmoved DEF HostTypes, engine
  <2>. DEFINE r == [sweep[s] EXCEPT !.at = "refused"]
  <2>2. r \in SweepRecords /\ r.at = "refused" /\ r.of = sweep[s].of /\ sweep' = [sweep EXCEPT ![s] = r]
    BY <1>2, SweepOf DEF Goes
  <2>. HIDE DEF r
  <2>3. SweepFine(r)
    BY <2>2, SweepOf DEF SweepFine, NotItsView, KnowsView, FoundIdle
  <2>4. SweepsInv'
    BY <1>1, <1>2, <2>2, <2>3, SweepGoes DEF host
  <2>. QED
    BY <2>1, <2>4 DEF DiscardStep
<1>3. CASE MayClose(s) /\ Requested(s) /\ (Goes(s, "granted") \/ Goes(s, "refused"))
  <2>1. /\ entry' = [entry EXCEPT !.closing = TRUE] /\ native' = [native EXCEPT ![view] = "closing"]
        /\ view' = 0 /\ queue' = <<>> /\ UNCHANGED <<showing, opened>>
        /\ ~showing /\ view # 0 /\ row = "active"
    BY <1>3 DEF Requested, MayClose
  <2>2. view \in Views /\ 0 \notin Views /\ opened \in Nat
    BY <2>1, DiscardInts, BoundsAssumption DEF HostTypes, Views
  <2>3. HostTypes'
    BY <1>1, <2>1, <2>2 DEF HostTypes
  <2>4. HostInv'
    BY <1>1, <2>1, <2>2 DEF HostInv, HostTypes
  <2>5. /\ entry' \in [of : 0 .. opened, ready : BOOLEAN, closing : BOOLEAN, held : Nat]
        /\ entry'.of = entry.of /\ entry'.held = entry.held
    BY <2>1 DEF EntryInv
  <2>6. EntryInv' /\ QueueInv'
    BY <1>1, <2>1, <2>5, EntryKept, QueueEmpty
  <2>7. PICK where \in {"granted", "refused"} : sweep' = [sweep EXCEPT ![s].at = where]
    BY <1>3 DEF Goes
  <2>10. where \in {"idle", "look", "asked", "answered", "request", "granted", "refused",
                   "receipt", "unconfirmed", "finish"}
    OBVIOUS
  <2>. DEFINE r == [sweep[s] EXCEPT !.at = where]
  <2>8. r \in SweepRecords /\ r.at = where /\ r.of = sweep[s].of /\ sweep' = [sweep EXCEPT ![s] = r]
    BY <2>7, <2>10, SweepOf
  <2>. HIDE DEF r
  <2>9. SweepsInv'
    <3>1. /\ sweep' \in [Sweepers -> SweepRecords] /\ sweep'[s] = r
          /\ \A u \in Sweepers : u # s => sweep'[u] = sweep[u]
      BY <2>8, SweepSet DEF SweepsInv
    <3>2. ASSUME NEW u \in Sweepers PROVE SweepFine(sweep[u])'
      <4>1. CASE sweep'[u] = sweep[u]
        BY <2>1, <2>2, <4>1 DEF SweepsInv, SweepFine, NotItsView, KnowsView, FoundIdle
      <4>2. CASE u = s
        <5>1. sweep'[u] = r /\ r.of # 0 /\ r.of <= opened
          <6>1. SweepFine(sweep[s])
            BY SweepOf
          <6>2. sweep[s].of # 0 /\ sweep[s].of <= opened
            BY <1>1, <6>1 DEF SweepFine, KnowsView
          <6>3. sweep'[u] = r
            BY <3>1, <4>2
          <6>. QED
            BY <2>8, <6>2, <6>3
        <5>. QED
          BY <2>1, <5>1 DEF SweepFine, NotItsView, KnowsView, FoundIdle
      <4>. QED
        BY <3>1, <4>1, <4>2
    <3>. QED
      BY <3>1, <3>2 DEF SweepsInv
  <2>. QED
    BY <2>3, <2>4, <2>6, <2>9 DEF DiscardStep
<1>. QED
  BY <1>2, <1>3 DEF RequestDiscard

LEMMA UnconfirmedStep == ASSUME DiscardInductive, NEW s \in Sweepers, Unconfirmed(s) PROVE DiscardStep
<1>. USE DEF DiscardInductive
<1>1. /\ label' = label \ {sweep[s].of} /\ native' = Closed(sweep[s].of) /\ GivesUp(s)
      /\ sweep[s].at = "unconfirmed"
      /\ UNCHANGED <<row, host, page, entry, misses, queue, tool, main>>
  BY DEF Unconfirmed, At
<1>. USE DEF host
<1>2. sweep[s].of \in Views /\ sweep[s].of # view /\ sweep[s].of \in 0 .. MaxViews
  <2>1. sweep[s].of # 0 /\ sweep[s].of # view
    BY <1>1, SweepOf DEF SweepFine, NotItsView
  <2>2. sweep[s].of \in 0 .. MaxViews
    BY SweepOf DEF SweepRecords
  <2>. QED
    BY <2>1, <2>2, BoundsAssumption DEF Views
<1>3. /\ native' \in [Views -> {"none", "live", "closing", "dead"}]
      /\ \A v \in Views : v # sweep[s].of => native'[v] = native[v]
      /\ native'[sweep[s].of] # "live"
  BY <1>1, <1>2, ClosedIs
<1>4. HostTypes' /\ EntryInv' /\ QueueInv'
  BY <1>1, <1>3, EntrySame, QueueSame DEF HostTypes
<1>5. HostInv'
  <2>1. view # 0 => view \in Views
    BY DiscardInts, BoundsAssumption DEF HostTypes, Views
  <2>. QED
    BY <1>1, <1>2, <1>3, <2>1 DEF HostInv
<1>6. SweepsInv'
  BY <1>1, SweepGivesUp DEF GivesUp, SweepsInv
<1>. QED
  BY <1>4, <1>5, <1>6 DEF DiscardStep

LEMMA FinishDiscardStep == ASSUME DiscardInductive, NEW s \in Sweepers, FinishDiscard(s) PROVE DiscardStep
<1>. USE DEF DiscardInductive
<1>1. label' = label \ {sweep[s].of} /\ sweep[s].at = "finish" /\ UNCHANGED <<host, native, page, queue, tool, main>>
  BY DEF FinishDiscard, At
<1>. USE <1>1 DEF host
<1>2. sweep[s].of # view /\ opened \in Nat
  BY SweepOf, DiscardInts DEF SweepFine, NotItsView
<1>3. sweep \in [Sweepers -> SweepRecords] /\ \A u \in Sweepers : SweepFine(sweep[u])
  BY DEF SweepsInv
<1>4. CASE /\ StillClosing(s) /\ row' = "discarded" /\ entry' = NoEntry /\ Forgotten
           /\ sweep' = [RowsLapse(TicketsLapse(sweep)) EXCEPT ![s] = Resting]
  <2>1. HostTypes' /\ HostInv'
    <3>1. view = 0 /\ row' = "discarded" /\ entry' = NoEntry /\ misses' = 0 /\ 0 \in 0 .. Unanswered
      BY <1>4, BoundsAssumption DEF StillClosing, Forgotten
    <3>. QED
      BY <3>1 DEF HostTypes, HostInv
  <2>2. EntryInv' /\ QueueInv'
    BY <1>2, <1>4, NoEntryFine, QueueSame
  <2>. DEFINE f == RowsLapse(TicketsLapse(sweep))
  <2>3. /\ TicketsLapse(sweep) \in [Sweepers -> SweepRecords] /\ f \in [Sweepers -> SweepRecords]
        /\ \A u \in Sweepers : Lapsed(sweep[u], TicketsLapse(sweep)[u]) /\ Lapsed(TicketsLapse(sweep)[u], f[u])
    BY <1>3, Lapses
  <2>. HIDE DEF f
  <2>4. \A u \in Sweepers : SweepFine(f[u])
    BY <1>3, <2>3 DEF Lapsed, SweepFine, NotItsView, KnowsView, FoundIdle
  <2>5. sweep' = [f EXCEPT ![s] = Resting]
    BY <1>4 DEF f
  <2>6. SweepsInv'
    BY <2>3, <2>4, <2>5, SweepGivesUp
  <2>. QED
    BY <2>1, <2>2, <2>6 DEF DiscardStep
<1>5. CASE GivesUp(s) /\ UNCHANGED <<row, entry, misses>>
  <2>1. HostTypes' /\ HostInv' /\ EntryInv' /\ QueueInv'
    BY <1>2, <1>5, EntrySame, QueueSame DEF HostTypes, HostInv
  <2>2. SweepsInv'
    BY <1>3, <1>5, SweepGivesUp DEF GivesUp
  <2>. QED
    BY <2>1, <2>2 DEF DiscardStep
<1>. QED
  BY <1>4, <1>5 DEF FinishDiscard

-----------------------------------------------------------------------------
(* The inductive invariant, for any sweeps, views and queue and any finite *)
(* set of tools.                                                           *)
THEOREM DiscardInvariance == Safety => []DiscardInductive
<1>1. ASSUME Init PROVE DiscardInductive
  <2>. USE <1>1 DEF Init
  <2>1. 1 \in Views /\ opened \in Views /\ view \in 0 .. opened /\ 0 \in 0 .. Unanswered /\ 0 \notin Views
    BY BoundsAssumption DEF Views
  <2>2. HostTypes
    BY <2>1 DEF HostTypes
  <2>3. HostInv
    BY <2>1 DEF HostInv, Begun
  <2>4. EntryInv
    <3>1. WorksOn(1) = {} /\ entry.of = 1 /\ entry.held = 0
      BY DEF WorksOn, Begun
    <3>2. entry \in [of : 0 .. opened, ready : BOOLEAN, closing : BOOLEAN, held : Nat]
      BY DEF Begun
    <3>3. tool \in [Tools -> 0 .. opened]
      OBVIOUS
    <3>4. Cardinality(WorksOn(entry.of)) = 0
      BY <3>1, FS_EmptySet
    <3>. QED
      BY <3>1, <3>2, <3>3, <3>4 DEF EntryInv
  <2>5. QueueInv
    BY BoundsAssumption DEF QueueInv
  <2>6. SweepsInv
    <3>1. Resting \in SweepRecords /\ SweepFine(Resting)
      BY RestingFine
    <3>. QED
      BY <3>1 DEF SweepsInv
  <2>. QED
    BY <2>2, <2>3, <2>4, <2>5, <2>6 DEF DiscardInductive
<1>2. ASSUME DiscardInductive, [Next]_vars PROVE DiscardInductive'
  <2>1. CASE UNCHANGED vars
    <3>. USE <2>1 DEF vars
    <3>1. HostTypes' /\ HostInv' /\ EntryInv' /\ QueueInv'
      BY <1>2, HostUnmoved DEF DiscardInductive, HostTypes
    <3>2. SweepsInv'
      BY <1>2, SweepsMove DEF DiscardInductive, SweepsInv, host, engine
    <3>. QED
      BY <3>1, <3>2 DEF DiscardInductive
  <2>2. CASE Next
    <3>1. CASE Instrumented \/ PageActs \/ PageHangs \/ Ingest
      BY <1>2, <3>1, InstrumentedStep, PageActsStep, PageHangsStep, IngestStep DEF DiscardStep, DiscardInductive
    <3>2. CASE Activate \/ Hide \/ CloseTab \/ Replies
      BY <1>2, <3>2, ActivateStep, HideStep, CloseTabStep, RepliesStep DEF DiscardStep, DiscardInductive
    <3>3. ASSUME NEW v \in Views, NativeDies(v) PROVE DiscardInductive'
      BY <1>2, <3>3, NativeDiesStep DEF DiscardStep, DiscardInductive
    <3>4. ASSUME NEW t \in Tools, ToolBegins(t) \/ ToolEnds(t) PROVE DiscardInductive'
      BY <1>2, <3>4, ToolBeginsStep, ToolEndsStep DEF DiscardStep, DiscardInductive
    <3>5. ASSUME NEW s \in Sweepers, Pick(s) \/ PageAnswers(s) \/ SweepStep(s) PROVE DiscardInductive'
      BY <1>2, <3>5, PickStep, PageAnswersStep, LookStep, TimeoutStep, ReceiptStep, RequestDiscardStep,
         UnconfirmedStep, FinishDiscardStep DEF SweepStep, DiscardStep, DiscardInductive
    <3>. QED
      BY <2>2, <3>1, <3>2, <3>3, <3>4, <3>5 DEF Next
  <2>. QED
    BY <1>2, <2>1, <2>2
<1>. QED
  BY <1>1, <1>2, PTL DEF Safety

(* What the host shows is a live view of its own, and a tab asleep has     *)
(* none, whichever sweeps are late, time out or fail half way              *)
(* (housekeeping.rs: request_discard, finish_discard).                     *)
THEOREM ViewsAreLive == Safety => []ViewIsLive
  BY DiscardInvariance, DiscardTyped, PTL

(* Only a request that may close a view marks the entry closing.           *)
LEMMA ToldByRequest ==
  ASSUME DiscardInductive, [Next]_vars, Told
  PROVE  \E s \in Sweepers : RequestDiscard(s) /\ MayClose(s)
<1>. USE DEF DiscardInductive
<1>1. ~entry.closing /\ entry'.closing
  BY DEF Told
<1>2. entry \in [of : 0 .. opened, ready : BOOLEAN, closing : BOOLEAN, held : Nat]
  BY DEF EntryInv
<1>3. ASSUME NEW v, NEW e, Update(v, e), ~e.closing PROVE FALSE
  BY <1>1, <1>3 DEF Update
<1>4. ~[entry EXCEPT !.ready = TRUE].closing /\ ~[entry EXCEPT !.held = @ + 1].closing
      /\ ~[entry EXCEPT !.held = IF @ = 0 THEN 0 ELSE @ - 1].closing
  BY <1>1, <1>2
<1>5. ~NoEntry.closing /\ \A v : ~Begun(v).closing
  BY DEF NoEntry, Begun
<1>6. CASE \/ Instrumented \/ \E t \in Tools : ToolBegins(t) \/ ToolEnds(t)
  BY <1>3, <1>4, <1>6 DEF Instrumented, ToolBegins, ToolEnds
<1>7. CASE Ingest
  BY <1>1, <1>3, <1>7 DEF Ingest
<1>8. CASE Activate \/ CloseTab \/ \E s \in Sweepers : FinishDiscard(s)
  BY <1>1, <1>5, <1>8 DEF Activate, CloseTab, FinishDiscard
<1>9. CASE \/ UNCHANGED vars \/ PageActs \/ PageHangs \/ Hide \/ Replies \/ \E v \in Views : NativeDies(v)
           \/ \E s \in Sweepers : \/ Pick(s) \/ PageAnswers(s) \/ Look(s) \/ ProbeTimeout(s)
                                  \/ ProbeClosed(s) \/ TooLate(s) \/ Receipt(s) \/ ReceiptTimeout(s)
                                  \/ Unconfirmed(s)
  BY <1>1, <1>9 DEF vars, PageActs, PageHangs, Hide, Replies, NativeDies, Pick, PageAnswers, Look,
                    ProbeTimeout, ProbeClosed, TooLate, Receipt, ReceiptTimeout, Unconfirmed
<1>10. ASSUME NEW s \in Sweepers, RequestDiscard(s) PROVE MayClose(s)
  BY <1>1, <1>10 DEF RequestDiscard
<1>. QED
  BY <1>6, <1>7, <1>8, <1>9, <1>10 DEF Next, SweepStep

(* A view is told to close only while no tool works on it, and a page with *)
(* work to lose only when it stopped answering or its word of the work has *)
(* not been processed (request_discard and the activity registry).         *)
THEOREM ClosesAreGentle == Safety => GentleClose
<1>1. ASSUME DiscardInductive, [Next]_vars, Told
      PROVE  /\ \A t \in Tools : tool[t] # view
             /\ page.does = "work" => sweep[main'].forced \/ \E i \in DOMAIN queue : queue[i] = Changed
  <2>. USE <1>1 DEF DiscardInductive
  <2>1. PICK s \in Sweepers : RequestDiscard(s) /\ MayClose(s)
    BY ToldByRequest
  <2>2. /\ main' = s /\ sweep[s].at = "request" /\ view # 0 /\ entry.of = view
        /\ entry.held = 0 /\ sweep[s].ticket /\ sweep[s].of = view
    BY <2>1 DEF RequestDiscard, MayClose, Current, Ready, At, HostInv
  <2>3. \A t \in Tools : tool[t] # view
    <3>1. Cardinality(WorksOn(view)) = 0 /\ IsFiniteSet(WorksOn(view))
      BY <2>2, BoundsAssumption, FS_Subset DEF EntryInv, WorksOn
    <3>2. WorksOn(view) = {}
      BY <3>1, FS_EmptySet
    <3>. QED
      BY <3>2 DEF WorksOn
  <2>4. page.does = "work" /\ ~sweep[s].forced => HasWord
    BY <2>2, SweepOf DEF SweepFine, FoundIdle
  <2>. QED
    BY <2>2, <2>3, <2>4 DEF HasWord
<1>. QED
  BY <1>1, DiscardInvariance, PTL DEF Safety, GentleClose
===============================================================================
