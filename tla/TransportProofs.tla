-------------------------- MODULE TransportProofs --------------------------
(***************************************************************************)
(* Proofs about Transport, for any number of calls, every choice of ISO    *)
(* cases and of devices, and whatever an earlier program has left behind.  *)
(***************************************************************************)
EXTENDS Transport, FiniteSetTheorems, TLAPS

Apdus == [call : 0 .. MaxCalls, ins : {"cmd", "get"}, kind : 1 .. 4, lc : {"right", "wrong"},
          reps : Nat, id : Nat]
Lines == [type : Ends \cup {"csim"}, call : 0 .. MaxCalls, sw : {"none", "final", "61", "6C"}, id : Nat]

HostOK ==
    /\ device \in Devices /\ pc \in {"closed", "idle", "await", "drain", "scard"}
    /\ n \in 0 .. MaxCalls /\ sent \in Nat /\ skew \in Nat /\ lastOk \in 0 .. n
    /\ ret \in {"none", "answered", "lost"}
    /\ apdu \in Apdus /\ apdu.call <= n /\ (Busy => apdu.call = n)
    /\ rsp \in Lines /\ rsp.id <= sent
    /\ device = "pcsc" => skew = 0 /\ pc \notin {"await", "drain"}
    /\ device = "modem" => pc # "scard"

\* Commands q of the first c calls and lines h, of commands up to the number s.
CommandsOK(q, c, s) == q \in Seq(Apdus) /\ \A i \in 1 .. Len(q) : q[i].call <= c /\ q[i].id <= s
AnswersOK(h, s)     == h \in Seq(Lines) /\ \A i \in 1 .. Len(h) : h[i].id <= s

QueuesOK ==
    /\ CommandsOK(toModem, n, sent) /\ AnswersOK(toHost, sent)
    /\ device = "pcsc" => toModem = <<>> /\ toHost = <<>> /\ up

\* The card has run nothing of the calls to come.
CardOK ==
    /\ held \in 0 .. n /\ runs \in [0 .. MaxCalls -> Nat]
    /\ \A c \in 0 .. MaxCalls : c > n => runs[c] = 0

DataOK == HostOK /\ QueuesOK /\ CardOK

\* What follows is about the lines h that were not read while the modem has
\* m commands to work off, s were sent in all, the skew is k and main is at p.

\* The lines sendATCSIM stops at while it waits for an answer.
Stops(h, i) == h[i].type \in {"csim", "error"}

\* f gives every line the number of the command it belongs to.  Commands are
\* answered in the order they were sent in, each by one line or by +CSIM and
\* one more.
Order(f, h, m, s) ==
    /\ \A i \in 1 .. Len(h) : f[i] + m <= s
    /\ \A i, j \in 1 .. Len(h) : i < j => f[i] <= f[j]
    /\ \A i \in 1 .. Len(h) : h[i].type = "csim" => f[i] = h[i].id
    /\ \A i, j \in 1 .. Len(h) : i < j /\ Stops(h, i) /\ Stops(h, j) =>
          f[i] < f[j] \/ (h[i].type = "csim" /\ h[j].type = "error" /\ j = i + 1)

\* After a line of a command there is one of every command that was sent
\* later and that the modem has worked off.
Gapless(f, h, m, s) ==
    \A i \in 1 .. Len(h) : Stops(h, i) =>
        \A y \in f[i] .. s - m :
            \E j \in 1 .. Len(h) : f[j] = y /\ h[j].type \in {"csim", "error", "cme"}

\* No unread answer is more than k commands old; once the answer to a command
\* has been read the others are younger, but for the rest of that answer.
Bounded(f, h, s, k, p) ==
    \A i \in 1 .. Len(h) : Stops(h, i) =>
        /\ s <= f[i] + k
        /\ p \in {"idle", "drain"} => s < f[i] + k \/ (p = "drain" /\ i = 1 /\ h[1].type = "error")

LinesOK(h, m, s, k, p) ==
    \E f \in [1 .. Len(h) -> Nat] : Order(f, h, m, s) /\ Gapless(f, h, m, s) /\ Bounded(f, h, s, k, p)

LinesInv == LinesOK(toHost, Len(toModem), sent, skew, pc)

\* The modem has the last commands that were sent.
ModemInv ==
    /\ \A k \in DOMAIN toModem : toModem[k].id + Len(toModem) = sent + k
    /\ Len(toModem) <= sent
    /\ Len(toModem) <= skew + 1
    /\ pc \in {"idle", "drain"} => Len(toModem) <= skew

\* How often a card that has done what a asks for has run the call's command.
Ran(a) == IF a.lc = "right" THEN 1 ELSE 0

\* A response to the call in progress, and what the card has done by then.
Good(l) ==
    /\ l.call = n /\ l.sw \in {"final", "61", "6C"}
    /\ l.sw = "6C" /\ apdu.ins = "cmd" => runs[n] = 0
    /\ l.sw # "6C" \/ apdu.ins = "get" => runs[n] = Ran(apdu)
    /\ l.sw = "61" \/ (l.sw = "6C" /\ apdu.ins = "get") => held = n

\* The APDU has been sent and the card has not seen it.
Unseen ==
    /\ apdu.call = n /\ apdu.id = sent
    /\ apdu.ins = "cmd" => runs[n] = 0
    /\ apdu.ins = "get" => runs[n] = Ran(apdu) /\ held = n

\* A program that has found nothing outstanding when it opened the port.
InStepInv ==
    skew = 0 =>
        /\ toModem # <<>> => Unseen /\ toModem[1] = apdu
        /\ pc = "await" => \A i \in DOMAIN toHost : toHost[i].type = "csim" => Good(toHost[i])
        /\ pc = "drain" => Good(rsp)
        /\ pc = "scard" => Unseen

\* What transmit() has returned, and what it will find in the buffer.
ReturnInv ==
    /\ pc # "idle" => ret = "none"
    /\ pc = "drain" \/ (pc = "idle" /\ ret = "answered") => sent <= rsp.id + skew
    /\ skew = 0 =>
          /\ pc = "idle" /\ ret = "answered" => rsp.call = n
          /\ pc \in {"idle", "await", "scard"} => rsp.sw \in {"61", "6C"} \/ rsp.call = lastOk

\* The inductive invariant.  A port that has failed stays so: nothing is
\* read or answered any more.
TransportInv ==
    /\ DataOK
    /\ up => LinesInv /\ ModemInv /\ InStepInv
    /\ ReturnInv

----------------------------------------------------------------------------
(* Sequences, as the proofs below use them: reading the first element.     *)
LEMMA TailFacts ==
    ASSUME NEW S, NEW h \in Seq(S), h # <<>>
    PROVE  /\ Tail(h) \in Seq(S) /\ Len(h) \in Nat /\ Len(h) >= 1 /\ Len(Tail(h)) = Len(h) - 1
           /\ Head(h) = h[1] /\ h[1] \in S
           /\ \A i \in 1 .. Len(h) - 1 : Tail(h)[i] = h[i + 1]
  OBVIOUS

(* Adding one element at the end.                                          *)
LEMMA AppendFacts ==
    ASSUME NEW S, NEW h \in Seq(S), NEW e \in S
    PROVE  /\ Append(h, e) \in Seq(S) /\ Len(h) \in Nat /\ Len(Append(h, e)) = Len(h) + 1
           /\ \A i \in 1 .. Len(h) : Append(h, e)[i] = h[i]
           /\ Append(h, e)[Len(h) + 1] = e
  OBVIOUS

(* Adding two.                                                             *)
LEMMA PairFacts ==
    ASSUME NEW S, NEW h \in Seq(S), NEW d \in S, NEW e \in S
    PROVE  /\ h \o <<d, e>> \in Seq(S) /\ Len(h) \in Nat /\ Len(h \o <<d, e>>) = Len(h) + 2
           /\ \A i \in 1 .. Len(h) : (h \o <<d, e>>)[i] = h[i]
           /\ (h \o <<d, e>>)[Len(h) + 1] = d /\ (h \o <<d, e>>)[Len(h) + 2] = e
  <1>1. Len(<<d, e>>) = 2 /\ <<d, e>>[1] = d /\ <<d, e>>[2] = e /\ <<d, e>> \in Seq(S)
    OBVIOUS
  <1> QED BY <1>1

(* The lines keep their order when one is read.                            *)
LEMMA TailOK ==
    ASSUME NEW h \in Seq(Lines), h # <<>>, NEW m \in Nat, NEW s \in Nat, NEW k \in Nat, NEW p, NEW q,
           LinesOK(h, m, s, k, p),
           \/ p = "await" /\ q = "await" /\ ~Stops(h, 1)
           \/ p = "drain" /\ q = "drain"
           \/ p = "await" /\ q = "drain" /\ h[1].type = "csim"
           \/ p = "await" /\ q = "idle" /\ h[1].type = "error"
           \/ p = "drain" /\ q = "idle" /\ h[1].type = "ok"
    PROVE  LinesOK(Tail(h), m, s, k, q)
  <1> DEFINE t == Tail(h)
             L == Len(h)
  <1>1. t \in Seq(Lines) /\ L \in Nat /\ L >= 1 /\ Len(t) = L - 1 /\ \A i \in 1 .. L - 1 : t[i] = h[i + 1]
    BY TailFacts
  <1>2. PICK f \in [1 .. L -> Nat] : Order(f, h, m, s) /\ Gapless(f, h, m, s) /\ Bounded(f, h, s, k, p)
    BY DEF LinesOK
  <1> DEFINE g == [i \in 1 .. L - 1 |-> f[i + 1]]
  <1>3. g \in [1 .. Len(t) -> Nat] /\ \A i \in 1 .. L - 1 : g[i] = f[i + 1]
    BY <1>1
  <1>4. Len(t) = L - 1
    BY <1>1
  <1> HIDE DEF g, t, L
  <1>5. Order(g, t, m, s)
    <2>1. \A i \in 1 .. L - 1 : i + 1 \in 1 .. L
      <3>1. L \in Nat
        BY <1>1
      <3> QED BY <3>1
    <2>2. \A i \in 1 .. L - 1 : g[i] = f[i + 1] /\ t[i] = h[i + 1]
      BY <1>1, <1>3
    <2>3. \A i \in 1 .. L : f[i] + m <= s /\ (h[i].type = "csim" => f[i] = h[i].id)
      BY <1>2 DEF Order, L
    <2>4. \A i, j \in 1 .. L : i < j =>
              /\ f[i] <= f[j]
              /\ Stops(h, i) /\ Stops(h, j) => f[i] < f[j] \/ (h[i].type = "csim" /\ h[j].type = "error" /\ j = i + 1)
      BY <1>2 DEF Order, L
    <2>5. \A i \in 1 .. L - 1 : g[i] + m <= s /\ (t[i].type = "csim" => g[i] = t[i].id)
      BY <2>1, <2>2, <2>3
    <2>6. ASSUME NEW i \in 1 .. L - 1, NEW j \in 1 .. L - 1, i < j
          PROVE  /\ g[i] <= g[j]
                 /\ Stops(t, i) /\ Stops(t, j) => g[i] < g[j] \/ (t[i].type = "csim" /\ t[j].type = "error" /\ j = i + 1)
      <3>1. i + 1 \in 1 .. L /\ j + 1 \in 1 .. L /\ i + 1 < j + 1 /\ (j + 1 = (i + 1) + 1 => j = i + 1)
        BY <2>1, <2>6
      <3>2. g[i] = f[i + 1] /\ t[i] = h[i + 1] /\ g[j] = f[j + 1] /\ t[j] = h[j + 1]
        BY <2>2
      <3>3. (Stops(t, i) => Stops(h, i + 1)) /\ (Stops(t, j) => Stops(h, j + 1))
        BY <3>2 DEF Stops
      <3> QED BY <2>4, <3>1, <3>2, <3>3
    <2> QED BY <1>4, <2>5, <2>6 DEF Order
  <1>6. Gapless(g, t, m, s)
    <2> SUFFICES ASSUME NEW i \in 1 .. L - 1, Stops(t, i), NEW y \in g[i] .. s - m
                 PROVE  \E j \in 1 .. L - 1 : g[j] = y /\ t[j].type \in {"csim", "error", "cme"}
      BY <1>4, Zenon DEF Gapless
    <2>1. i + 1 \in 1 .. L /\ Stops(h, i + 1) /\ y \in f[i + 1] .. s - m /\ f[i + 1] = g[i]
      <3>1. i + 1 \in 1 .. L
        BY <1>1
      <3>2. t[i] = h[i + 1]
        BY <1>1
      <3>3. f[i + 1] = g[i]
        BY <1>3
      <3>4. Stops(h, i + 1)
        BY <3>2 DEF Stops
      <3> QED BY <3>1, <3>3, <3>4
    <2>2. PICK j \in 1 .. L : f[j] = y /\ h[j].type \in {"csim", "error", "cme"}
      BY <1>2, <2>1 DEF Gapless, L
    <2>3. CASE j > 1
      <3>1. j - 1 \in 1 .. L - 1 /\ (j - 1) + 1 = j
        BY <1>1, <2>3
      <3>2. g[j - 1] = f[j] /\ t[j - 1] = h[j]
        BY <1>1, <1>3, <3>1
      <3> QED BY <2>2, <3>1, <3>2
    <2>4. CASE j = 1
      <3>1. f[1] <= f[i + 1]
        BY <1>1, <1>2, <2>1 DEF Order, L
      <3>2. y = f[i + 1]
        BY <1>1, <1>2, <2>1, <2>2, <2>4, <3>1
      <3> QED BY <1>1, <2>1, <3>2 DEF Stops
    <2> QED BY <1>1, <2>3, <2>4
  <1>7. Bounded(g, t, s, k, q)
    <2> SUFFICES ASSUME NEW i \in 1 .. L - 1, Stops(t, i)
                 PROVE  /\ s <= g[i] + k
                        /\ q \in {"idle", "drain"} => s < g[i] + k \/ (q = "drain" /\ i = 1 /\ t[1].type = "error")
      BY <1>1 DEF Bounded
    <2>1. i + 1 \in 1 .. L /\ 1 \in 1 .. L /\ Stops(h, i + 1) /\ f[i + 1] = g[i] /\ t[i] = h[i + 1]
          /\ f[1] \in Nat /\ f[i + 1] \in Nat /\ i \in Nat /\ i >= 1
      <3>1. i + 1 \in 1 .. L /\ 1 \in 1 .. L /\ i \in Nat /\ i >= 1
        BY <1>1
      <3>2. f[i + 1] = g[i] /\ t[i] = h[i + 1]
        BY <1>1, <1>3
      <3>3. f[1] \in Nat /\ f[i + 1] \in Nat
        BY <3>1
      <3>4. Stops(h, i + 1)
        BY <3>2 DEF Stops
      <3> QED BY <3>1, <3>2, <3>3, <3>4
    <2>2. s <= f[i + 1] + k
      BY <1>2, <2>1 DEF Bounded, L
    <2>3. CASE p = "drain"
      BY <1>2, <2>1, <2>3 DEF Bounded, L
    <2>4. CASE p = "await" /\ Stops(h, 1)
      <3>1. s <= f[1] + k
        BY <1>2, <2>1, <2>4 DEF Bounded, L
      <3>2. f[1] < f[i + 1] \/ (h[1].type = "csim" /\ h[i + 1].type = "error" /\ i + 1 = 2)
        BY <1>2, <2>1, <2>4 DEF Order, L
      <3>3. CASE f[1] < f[i + 1]
        BY <2>1, <3>1, <3>3
      <3>4. CASE h[1].type = "csim" /\ h[i + 1].type = "error" /\ i + 1 = 2
        <4>1. i = 1 /\ t[1].type = "error" /\ q = "drain"
          BY <2>1, <2>4, <3>4
        <4> QED BY <2>1, <2>2, <4>1
      <3> QED BY <3>2, <3>3, <3>4
    <2>5. CASE q = "await"
      BY <2>1, <2>2, <2>5
    <2> QED BY <2>3, <2>4, <2>5 DEF Stops
  <1> QED BY <1>3, <1>5, <1>6, <1>7 DEF LinesOK, t

(* The answer that is read bounds how many commands the modem still has.   *)
LEMMA AwaitedBound ==
    ASSUME NEW h \in Seq(Lines), h # <<>>, NEW m \in Nat, NEW s \in Nat, NEW k \in Nat, NEW p,
           LinesOK(h, m, s, k, p), Stops(h, 1)
    PROVE  m <= k /\ (h[1].type = "csim" => s <= h[1].id + k /\ h[1].id + m <= s)
  <1>1. PICK f \in [1 .. Len(h) -> Nat] : Order(f, h, m, s) /\ Bounded(f, h, s, k, p)
    BY DEF LinesOK
  <1>2. 1 \in 1 .. Len(h)
    BY TailFacts
  <1>3. f[1] \in Nat /\ f[1] + m <= s /\ s <= f[1] + k /\ (h[1].type = "csim" => f[1] = h[1].id)
    BY <1>1, <1>2 DEF Order, Bounded
  <1> QED BY <1>3

(* A command is sent.                                                      *)
LEMMA SendOK ==
    ASSUME NEW h \in Seq(Lines), NEW m \in Nat, NEW s \in Nat, NEW k \in Nat, LinesOK(h, m, s, k, "idle")
    PROVE  LinesOK(h, m + 1, s + 1, k, "await")
  <1>1. PICK f \in [1 .. Len(h) -> Nat] : Order(f, h, m, s) /\ Gapless(f, h, m, s) /\ Bounded(f, h, s, k, "idle")
    BY DEF LinesOK
  <1>2. Order(f, h, m + 1, s + 1)
    BY <1>1 DEF Order
  <1>3. Gapless(f, h, m + 1, s + 1)
    <2>1. s + 1 - (m + 1) = s - m
      OBVIOUS
    <2> QED BY <1>1, <2>1 DEF Gapless
  <1>4. Bounded(f, h, s + 1, k, "await")
    <2>1. \A i \in 1 .. Len(h) : f[i] \in Nat
      OBVIOUS
    <2> QED BY <1>1, <2>1 DEF Bounded
  <1> QED BY <1>2, <1>3, <1>4 DEF LinesOK

(* Where main is when nobody reads: the program dies.                      *)
LEMMA DeadOK ==
    ASSUME NEW h, NEW m, NEW s, NEW k, NEW p, LinesOK(h, m, s, k, p)
    PROVE  LinesOK(h, m, s, k, "closed")
  BY DEF LinesOK, Bounded

(* The modem works off the command it has had longest.                     *)
LEMMA AnswerOK ==
    ASSUME NEW h \in Seq(Lines), NEW h2 \in Seq(Lines), NEW m \in Nat, NEW s \in Nat, NEW k \in Nat, NEW p,
           LinesOK(h, m, s, k, p), m >= 1, m <= s, m <= k + 1, p \in {"idle", "drain"} => m <= k,
           \A i \in 1 .. Len(h) : h2[i] = h[i],
           \/ Len(h2) = Len(h) + 1 /\ h2[Len(h) + 1].type \in {"error", "cme"}
           \/ /\ Len(h2) = Len(h) + 2
              /\ h2[Len(h) + 1].type = "csim" /\ h2[Len(h) + 1].id = s - m + 1
              /\ h2[Len(h) + 2].type \in {"ok", "error"}
    PROVE  LinesOK(h2, m - 1, s, k, p)
  <1> DEFINE L == Len(h)
             c == s - m + 1
  <1>1. PICK f \in [1 .. L -> Nat] : Order(f, h, m, s) /\ Gapless(f, h, m, s) /\ Bounded(f, h, s, k, p)
    BY DEF LinesOK
  <1>2. L \in Nat /\ Len(h2) \in Nat /\ L < Len(h2) /\ c \in Nat /\ m - 1 \in Nat /\ s - (m - 1) = c
    OBVIOUS
  <1> DEFINE g == [i \in 1 .. Len(h2) |-> IF i <= L THEN f[i] ELSE c]
  <1>3. g \in [1 .. Len(h2) -> Nat]
    BY <1>2
  <1>4. \A i \in 1 .. L : i \in 1 .. Len(h2) /\ g[i] = f[i] /\ h2[i] = h[i] /\ f[i] \in Nat
    <2>1. \A i \in 1 .. L : i \in 1 .. Len(h2) /\ i <= L
      BY <1>2
    <2>2. \A i \in 1 .. Len(h2) : i <= L => g[i] = f[i]
      OBVIOUS
    <2> HIDE DEF g
    <2> QED BY <2>1, <2>2
  <1>5. \A i \in 1 .. Len(h2) : i \notin 1 .. L => g[i] = c /\ i > L
    <2>1. \A i \in 1 .. Len(h2) : i \notin 1 .. L => i > L /\ ~(i <= L)
      BY <1>2
    <2>2. \A i \in 1 .. Len(h2) : ~(i <= L) => g[i] = c
      OBVIOUS
    <2> QED BY <2>1, <2>2
  <1>6. ASSUME NEW i \in 1 .. Len(h2), i \notin 1 .. L
        PROVE  \/ i = L + 1 /\ h2[i].type \in {"error", "cme"} /\ Len(h2) = L + 1
               \/ i = L + 1 /\ h2[i].type = "csim" /\ h2[i].id = c
               \/ i = L + 2 /\ h2[i].type \in {"ok", "error"} /\ h2[L + 1].type = "csim"
    <2>1. i = L + 1 \/ (i = L + 2 /\ Len(h2) = L + 2)
      BY <1>2, <1>6
    <2>2. CASE i = L + 1
      BY <2>2
    <2>3. CASE i = L + 2 /\ Len(h2) = L + 2
      <3>1. Len(h2) # L + 1
        BY <1>2, <2>3
      <3> QED BY <2>3, <3>1
    <2> QED BY <2>1, <2>2, <2>3
  <1>7. \A i \in 1 .. L : f[i] < c /\ (h[i].type = "csim" => f[i] = h[i].id)
    BY <1>1, <1>2, <1>4 DEF Order
  <1>8. \A i, j \in 1 .. L : i < j =>
            /\ f[i] <= f[j]
            /\ Stops(h, i) /\ Stops(h, j) => f[i] < f[j] \/ (h[i].type = "csim" /\ h[j].type = "error" /\ j = i + 1)
    BY <1>1 DEF Order
  <1>9. \A i \in 1 .. L : Stops(h2, i) <=> Stops(h, i)
    BY <1>4 DEF Stops
  <1> HIDE DEF g, L, c
  <1>10. Order(g, h2, m - 1, s)
    <2>1. \A i \in 1 .. Len(h2) : g[i] \in Nat /\ g[i] <= c
      <3> SUFFICES ASSUME NEW i \in 1 .. Len(h2) PROVE g[i] \in Nat /\ g[i] <= c
        OBVIOUS
      <3>1. CASE i \in 1 .. L
        BY <1>2, <1>3, <1>4, <1>7, <3>1
      <3>2. CASE i \notin 1 .. L
        BY <1>2, <1>5, <3>2
      <3> QED BY <3>1, <3>2
    <2>2. \A i \in 1 .. Len(h2) : g[i] + (m - 1) <= s
      BY <1>2, <2>1
    <2>3. \A i \in 1 .. Len(h2) : h2[i].type = "csim" => g[i] = h2[i].id
      <3> SUFFICES ASSUME NEW i \in 1 .. Len(h2), h2[i].type = "csim" PROVE g[i] = h2[i].id
        OBVIOUS
      <3>1. CASE i \in 1 .. L
        BY <1>4, <1>7, <3>1
      <3>2. CASE i \notin 1 .. L
        BY <1>5, <1>6, <3>2
      <3> QED BY <3>1, <3>2
    <2>4. ASSUME NEW i \in 1 .. Len(h2), NEW j \in 1 .. Len(h2), i < j
          PROVE  /\ g[i] <= g[j]
                 /\ Stops(h2, i) /\ Stops(h2, j) =>
                       g[i] < g[j] \/ (h2[i].type = "csim" /\ h2[j].type = "error" /\ j = i + 1)
      <3>1. CASE j \in 1 .. L
        <4>1. i \in 1 .. L
          BY <1>2, <2>4, <3>1
        <4>2. /\ f[i] <= f[j]
              /\ Stops(h, i) /\ Stops(h, j) => f[i] < f[j] \/ (h[i].type = "csim" /\ h[j].type = "error" /\ j = i + 1)
          BY <1>8, <2>4, <3>1, <4>1
        <4>3. g[i] = f[i] /\ g[j] = f[j] /\ h2[i] = h[i] /\ h2[j] = h[j]
          BY <1>4, <3>1, <4>1
        <4> QED BY <1>9, <3>1, <4>1, <4>2, <4>3
      <3>2. CASE j \notin 1 .. L /\ i \in 1 .. L
        <4>1. g[j] = c /\ g[i] = f[i] /\ f[i] < c /\ f[i] \in Nat
          BY <1>4, <1>5, <1>7, <3>2
        <4> QED BY <1>2, <4>1
      <3>3. CASE j \notin 1 .. L /\ i \notin 1 .. L
        <4>1. g[i] = c /\ g[j] = c
          BY <1>5, <3>3
        <4>2. i = L + 1 /\ j = L + 2
          BY <1>2, <1>6, <2>4, <3>3
        <4>3. h2[i].type = "csim" /\ (Stops(h2, j) => h2[j].type = "error") /\ j = i + 1
          BY <1>2, <1>6, <3>3, <4>2 DEF Stops
        <4> QED BY <1>2, <4>1, <4>3
      <3> QED BY <3>1, <3>2, <3>3
    <2> QED BY <2>2, <2>3, <2>4 DEF Order
  <1>11. Gapless(g, h2, m - 1, s)
    <2>1. L + 1 \in 1 .. Len(h2) /\ L + 1 \notin 1 .. L
      BY <1>2
    <2>2. g[L + 1] = c /\ h2[L + 1].type \in {"csim", "error", "cme"}
      BY <1>2, <1>5, <1>6, <2>1
    <2> SUFFICES ASSUME NEW i \in 1 .. Len(h2), Stops(h2, i), NEW y \in g[i] .. c
                 PROVE  \E j \in 1 .. Len(h2) : g[j] = y /\ h2[j].type \in {"csim", "error", "cme"}
      BY <1>2 DEF Gapless
    <2>3. CASE y = c
      BY <2>1, <2>2, <2>3
    <2>4. CASE y # c
      <3>1. i \in 1 .. L
        BY <1>2, <1>5, <2>4
      <3>2. Stops(h, i) /\ y \in f[i] .. s - m
        BY <1>2, <1>4, <1>9, <2>4, <3>1 DEF c
      <3>3. PICK j \in 1 .. L : f[j] = y /\ h[j].type \in {"csim", "error", "cme"}
        BY <1>1, <3>1, <3>2 DEF Gapless, L
      <3> QED BY <1>4, <3>3
    <2> QED BY <2>3, <2>4
  <1>12. Bounded(g, h2, s, k, p)
    <2> SUFFICES ASSUME NEW i \in 1 .. Len(h2), Stops(h2, i)
                 PROVE  /\ s <= g[i] + k
                        /\ p \in {"idle", "drain"} => s < g[i] + k \/ (p = "drain" /\ i = 1 /\ h2[1].type = "error")
      BY DEF Bounded
    <2>1. CASE i \in 1 .. L
      <3>1. /\ s <= f[i] + k
            /\ p \in {"idle", "drain"} => s < f[i] + k \/ (p = "drain" /\ i = 1 /\ h[1].type = "error")
        BY <1>1, <1>9, <2>1 DEF Bounded, L
      <3> QED BY <1>4, <2>1, <3>1
    <2>2. CASE i \notin 1 .. L
      <3>1. g[i] = c
        BY <1>5, <2>2
      <3>2. s <= c + k /\ (p \in {"idle", "drain"} => s < c + k)
        BY DEF c
      <3> QED BY <3>1, <3>2
    <2> QED BY <2>1, <2>2
  <1> QED BY <1>3, <1>10, <1>11, <1>12 DEF LinesOK

(* Lines nobody has to read.                                               *)
LEMMA NothingOK ==
    ASSUME NEW h \in Seq(Lines), NEW m \in Nat, NEW s \in Nat, NEW k \in Nat, NEW p, m <= s,
           \A i \in 1 .. Len(h) : ~Stops(h, i)
    PROVE  LinesOK(h, m, s, k, p)
  <1> DEFINE g == [i \in 1 .. Len(h) |-> 0]
  <1>1. g \in [1 .. Len(h) -> Nat] /\ \A i \in 1 .. Len(h) : g[i] = 0
    OBVIOUS
  <1> HIDE DEF g
  <1>2. Order(g, h, m, s) /\ Gapless(g, h, m, s) /\ Bounded(g, h, s, k, p)
    BY <1>1 DEF Order, Gapless, Bounded, Stops
  <1> QED BY <1>1, <1>2 DEF LinesOK

(* None at all.                                                            *)
LEMMA EmptyOK ==
    ASSUME NEW m \in Nat, NEW s \in Nat, NEW k \in Nat, NEW p, m <= s
    PROVE  LinesOK(<<>>, m, s, k, p)
  <1>1. <<>> \in Seq(Lines) /\ Len(<<>>) = 0
    OBVIOUS
  <1>2. \A i \in 1 .. Len(<<>>) : ~Stops(<<>>, i)
    BY <1>1
  <1> QED BY <1>1, <1>2, NothingOK

(* No answer is unread when the modem has as many commands as it may, and  *)
(* none when a program that is in step is not in transmit().               *)
LEMMA NoStops ==
    ASSUME NEW h \in Seq(Lines), NEW m \in Nat, NEW s \in Nat, NEW k \in Nat, NEW p, LinesOK(h, m, s, k, p),
           m > k \/ (m = k /\ p = "idle")
    PROVE  \A i \in 1 .. Len(h) : ~Stops(h, i)
  <1>1. PICK f \in [1 .. Len(h) -> Nat] : Order(f, h, m, s) /\ Bounded(f, h, s, k, p)
    BY DEF LinesOK
  <1> SUFFICES ASSUME NEW i \in 1 .. Len(h), Stops(h, i) PROVE FALSE
    OBVIOUS
  <1>2. f[i] \in Nat /\ f[i] + m <= s /\ s <= f[i] + k
    BY <1>1 DEF Order, Bounded
  <1>3. p = "idle" => s < f[i] + k
    BY <1>1 DEF Bounded
  <1> QED BY <1>2, <1>3

(* A program opens the port: none of the answers that are outstanding is   *)
(* older than there are lines and commands that have to do with answers.   *)
LEMMA CountOK ==
    ASSUME NEW h \in Seq(Lines), NEW m \in Nat, NEW s \in Nat, NEW k \in Nat, LinesOK(h, m, s, k, "closed")
    PROVE  LinesOK(h, m, s, m + Cardinality({i \in 1 .. Len(h) : h[i].type \in {"csim", "error", "cme"}}), "idle")
  <1> DEFINE L == Len(h)
             T == {i \in 1 .. L : h[i].type \in {"csim", "error", "cme"}}
  <1>1. PICK f \in [1 .. L -> Nat] : Order(f, h, m, s) /\ Gapless(f, h, m, s) /\ Bounded(f, h, s, k, "closed")
    BY DEF LinesOK
  <1>2. IsFiniteSet(T) /\ Cardinality(T) \in Nat
    <2>1. L \in Nat
      OBVIOUS
    <2>2. IsFiniteSet(1 .. L)
      BY <2>1, FS_Interval
    <2>3. T \in SUBSET (1 .. L)
      OBVIOUS
    <2> HIDE DEF T
    <2>4. IsFiniteSet(T)
      BY <2>2, <2>3, FS_Subset
    <2> QED BY <2>4, FS_CardinalityType
  <1>3. ASSUME NEW i \in 1 .. L, Stops(h, i)
        PROVE  s < f[i] + (m + Cardinality(T))
    <2> DEFINE Y == f[i] .. s - m
    <2>1. f[i] \in Nat /\ f[i] + m <= s
      BY <1>1 DEF Order
    <2>2. \A y \in Y : \E j \in T : f[j] = y
      BY <1>1, <1>3 DEF Gapless
    <2> DEFINE e == [y \in Y |-> CHOOSE j \in T : f[j] = y]
    <2> HIDE DEF T
    <2>3. \A y \in Y : e[y] \in T /\ f[e[y]] = y
      BY <2>2
    <2>4. e \in Injection(Y, T)
      <3>1. e \in [Y -> T]
        BY <2>3
      <3> HIDE DEF e
      <3>2. \A y, z \in Y : e[y] = e[z] => y = z
        BY <2>3
      <3> QED BY <3>1, <3>2 DEF Injection, IsInjective
    <2>5. Cardinality(Y) <= Cardinality(T)
      BY <1>2, <2>4, FS_Injection
    <2>6. Cardinality(Y) = s - m - f[i] + 1
      <3>1. f[i] \in Int /\ s - m \in Int /\ ~(f[i] > s - m)
        BY <2>1
      <3> QED BY <3>1, FS_Interval
    <2> QED BY <1>2, <2>1, <2>5, <2>6
  <1>4. Bounded(f, h, s, m + Cardinality(T), "idle")
    <2> HIDE DEF T
    <2>1. \A i \in 1 .. L : f[i] \in Nat
      OBVIOUS
    <2> QED BY <1>2, <1>3, <2>1 DEF Bounded
  <1> QED BY <1>1, <1>4 DEF LinesOK

----------------------------------------------------------------------------
(* What sending an APDU does, over a modem or a reader.                    *)
LEMMA SendEffect ==
    ASSUME DataOK, NEW a \in Apdus, transmitApdu(a)
    PROVE  /\ sent' = sent + 1
           /\ apdu' \in Apdus /\ apdu'.id = sent + 1
           /\ apdu'.call = a.call /\ apdu'.ins = a.ins /\ apdu'.kind = a.kind /\ apdu'.lc = a.lc
           /\ toModem' \in Seq(Apdus)
           /\ device = "modem" => pc' = "await" /\ (up => toModem' = Append(toModem, apdu')) /\ (~up => toModem' = toModem)
           /\ device = "pcsc" => pc' = "scard" /\ toModem' = toModem
  <1> DEFINE b == [a EXCEPT !.id = sent + 1]
  <1>1. sent \in Nat
    BY DEF DataOK, HostOK, Busy
  <1>2. b \in Apdus /\ b.id = sent + 1 /\ b.call = a.call /\ b.ins = a.ins /\ b.kind = a.kind /\ b.lc = a.lc
    <2>1. sent + 1 \in Nat
      BY <1>1
    <2>2. PICK d \in Nat : d = sent + 1
      BY <2>1
    <2>3. [a EXCEPT !.id = d] \in Apdus
      BY DEF Apdus
    <2>4. /\ [a EXCEPT !.id = d].id = d /\ [a EXCEPT !.id = d].call = a.call /\ [a EXCEPT !.id = d].ins = a.ins
          /\ [a EXCEPT !.id = d].kind = a.kind /\ [a EXCEPT !.id = d].lc = a.lc
      BY DEF Apdus
    <2> QED BY <2>2, <2>3, <2>4
  <1>3. /\ sent' = sent + 1 /\ apdu' = b
        /\ \/ device = "modem" /\ toModem' = (IF up THEN Append(toModem, b) ELSE toModem) /\ pc' = "await"
           \/ device = "pcsc" /\ pc' = "scard" /\ toModem' = toModem
    BY DEF transmitApdu
  <1> HIDE DEF b
  <1>4. toModem \in Seq(Apdus) /\ Append(toModem, b) \in Seq(Apdus)
    BY <1>2, AppendFacts DEF DataOK, QueuesOK, CommandsOK
  <1>5. toModem' \in Seq(Apdus)
    BY <1>3, <1>4
  <1> QED BY <1>2, <1>3, <1>5

(* Sending when all that has to be read has been read: the rest stays in   *)
(* order, one command longer.                                              *)
LEMMA SendKeeps ==
    ASSUME DataOK, up, NEW a \in Apdus, transmitApdu(a), NEW h \in Seq(Lines), toHost' = h, UNCHANGED <<skew, device>>,
           LinesOK(h, Len(toModem), sent, skew, "idle"), ModemInv, Len(toModem) <= skew,
           device = "pcsc" => h = <<>>
    PROVE  LinesInv' /\ ModemInv'
  <1>1. /\ sent' = sent + 1 /\ sent \in Nat /\ skew \in Nat /\ apdu' \in Apdus /\ apdu'.id = sent + 1
        /\ toModem \in Seq(Apdus)
        /\ device = "modem" => pc' = "await" /\ toModem' = Append(toModem, apdu')
        /\ device = "pcsc" => pc' = "scard" /\ toModem' = toModem /\ toModem = <<>>
        /\ device \in {"modem", "pcsc"}
    BY SendEffect, DevicesAssumption DEF DataOK, HostOK, Busy, QueuesOK, CommandsOK
  <1>2. CASE device = "modem"
    <2>1. pc' = "await" /\ toModem' = Append(toModem, apdu')
      BY <1>1, <1>2
    <2>2. PICK b \in Apdus : b = apdu'
      BY <1>1
    <2>3. /\ Len(toModem) \in Nat /\ Len(toModem') = Len(toModem) + 1
          /\ \A i \in 1 .. Len(toModem) : toModem'[i] = toModem[i]
          /\ toModem'[Len(toModem) + 1] = apdu'
          /\ DOMAIN toModem = 1 .. Len(toModem) /\ DOMAIN toModem' = 1 .. Len(toModem) + 1
      BY <1>1, <2>1, <2>2, AppendFacts
    <2>4. LinesOK(h, Len(toModem) + 1, sent + 1, skew, "await")
      BY <1>1, <2>3, SendOK
    <2>5. LinesInv'
      BY <1>1, <2>1, <2>3, <2>4 DEF LinesInv
    <2>6. \A i \in 1 .. Len(toModem) + 1 : i \in 1 .. Len(toModem) \/ i = Len(toModem) + 1
      BY <2>3
    <2>7. \A i \in 1 .. Len(toModem) + 1 : toModem'[i].id + (Len(toModem) + 1) = (sent + 1) + i
      <3>1. ASSUME NEW i \in 1 .. Len(toModem)
            PROVE  toModem'[i].id + (Len(toModem) + 1) = (sent + 1) + i
        <4>1. toModem[i].id \in Nat /\ toModem[i].id + Len(toModem) = sent + i
          <5>1. toModem[i] \in Apdus
            BY <1>1
          <5>2. toModem[i].id \in Nat
            BY <5>1 DEF Apdus
          <5> QED BY <2>3, <5>2 DEF ModemInv
        <4>2. toModem'[i] = toModem[i] /\ i \in Nat
          BY <2>3
        <4>3. toModem'[i].id = toModem[i].id
          BY <4>2
        <4>4. \A x, m, s \in Nat : x + m = s + i => x + (m + 1) = (s + 1) + i
          BY <4>2
        <4>5. toModem[i].id + (Len(toModem) + 1) = (sent + 1) + i
          BY <1>1, <2>3, <4>1, <4>4
        <4> QED BY <4>3, <4>5
      <3>2. toModem'[Len(toModem) + 1].id + (Len(toModem) + 1) = (sent + 1) + (Len(toModem) + 1)
        BY <1>1, <2>3
      <3> QED BY <2>6, <3>1, <3>2
    <2>8. ModemInv'
      BY <1>1, <2>1, <2>3, <2>7 DEF ModemInv
    <2> QED BY <2>5, <2>8
  <1>3. CASE device = "pcsc"
    <2>1. h = <<>> /\ toModem' = <<>> /\ pc' = "scard" /\ skew' = skew
      BY <1>1, <1>3
    <2>2. LinesOK(<<>>, 0, sent + 1, skew, "scard")
      BY <1>1, EmptyOK
    <2>3. LinesInv'
      BY <1>1, <2>1, <2>2 DEF LinesInv
    <2> QED BY <1>1, <2>1, <2>3 DEF ModemInv
  <1> QED BY <1>1, <1>2, <1>3

(* What the card does with a command, and what it answers.                 *)
LEMMA CardEffect ==
    ASSUME DataOK, NEW a \in Apdus, a.call <= n, NEW sw \in CardStatus(a), CardRuns(a, sw), n' = n
    PROVE  /\ held' \in 0 .. n /\ runs' \in [0 .. MaxCalls -> Nat]
           /\ \A c \in 0 .. MaxCalls : c > n => runs'[c] = 0
           /\ runs'[n] = IF a.call = n /\ a.ins = "cmd" /\ a.lc = "right" /\ sw # "6C" THEN runs[n] + 1 ELSE runs[n]
           /\ sw = "61" /\ a.ins = "cmd" => held' = a.call
           /\ sw # "final" /\ a.ins = "get" => held' = held
           /\ sw \in {"final", "61", "6C"}
           /\ CardResponse(a, sw) \in Lines
           /\ CardResponse(a, sw).type = "csim" /\ CardResponse(a, sw).id = a.id /\ CardResponse(a, sw).sw = sw
           /\ CardResponse(a, sw).call = IF a.ins = "get" THEN held ELSE a.call
  <1>1. /\ a.call \in 0 .. n /\ n \in 0 .. MaxCalls /\ MaxCalls \in Nat /\ a.id \in Nat /\ a.ins \in {"cmd", "get"}
        /\ held \in 0 .. n /\ runs \in [0 .. MaxCalls -> Nat]
        /\ \A c \in 0 .. MaxCalls : c > n => runs[c] = 0
    <2>1. /\ n \in 0 .. MaxCalls /\ MaxCalls \in Nat /\ held \in 0 .. n /\ runs \in [0 .. MaxCalls -> Nat]
          /\ \A c \in 0 .. MaxCalls : c > n => runs[c] = 0
      BY MaxCallsAssumption DEF DataOK, HostOK, Busy, CardOK
    <2>2. a.call \in 0 .. MaxCalls /\ a.id \in Nat /\ a.ins \in {"cmd", "get"}
      BY DEF Apdus
    <2> QED BY <2>1, <2>2
  <1>2. sw \in {"final", "61", "6C"}
    BY DEF CardStatus
  <1>3. /\ held' \in 0 .. n
        /\ sw = "61" /\ a.ins = "cmd" => held' = a.call
        /\ sw # "final" /\ a.ins = "get" => held' = held
    BY <1>1, <1>2 DEF CardRuns
  <1>4. /\ runs' \in [0 .. MaxCalls -> Nat]
        /\ \A c \in 0 .. MaxCalls : c > n => runs'[c] = 0
        /\ runs'[n] = IF a.call = n /\ a.ins = "cmd" /\ a.lc = "right" /\ sw # "6C" THEN runs[n] + 1 ELSE runs[n]
    BY <1>1 DEF CardRuns
  <1>5. /\ CardResponse(a, sw) \in Lines
        /\ CardResponse(a, sw).type = "csim" /\ CardResponse(a, sw).id = a.id /\ CardResponse(a, sw).sw = sw
        /\ CardResponse(a, sw).call = IF a.ins = "get" THEN held ELSE a.call
    BY <1>1, <1>2 DEF CardResponse, Csim, Lines
  <1> QED BY <1>2, <1>3, <1>4, <1>5

(* A command of the call in progress that the card has not seen gets a     *)
(* response of that call.                                                  *)
LEMMA UnseenAnswered ==
    ASSUME DataOK, Unseen, NEW sw \in CardStatus(apdu), CardRuns(apdu, sw), n' = n, apdu' = apdu,
           NEW l, l = CardResponse(apdu, sw)
    PROVE  Good(l)'
  <1>1. /\ runs'[n] = IF apdu.call = n /\ apdu.ins = "cmd" /\ apdu.lc = "right" /\ sw # "6C" THEN runs[n] + 1 ELSE runs[n]
        /\ sw = "61" /\ apdu.ins = "cmd" => held' = apdu.call
        /\ sw # "final" /\ apdu.ins = "get" => held' = held
        /\ sw \in {"final", "61", "6C"}
        /\ l.sw = sw /\ l.call = IF apdu.ins = "get" THEN held ELSE apdu.call
    BY CardEffect DEF DataOK, HostOK, Busy
  <1>2. apdu.ins \in {"cmd", "get"}
    BY DEF DataOK, HostOK, Busy, Apdus
  <1> QED BY <1>1, <1>2 DEF Good, Unseen, Ran

----------------------------------------------------------------------------
(* The first state.                                                        *)
LEMMA InitInv == Init => TransportInv
  <1> SUFFICES ASSUME Init PROVE TransportInv
    OBVIOUS
  <1>1. MaxCalls \in Nat /\ 0 \in 0 .. MaxCalls
    BY MaxCallsAssumption
  <1>2. NoApdu \in Apdus /\ NoRsp \in Lines /\ NoApdu.call = 0 /\ NoRsp.id = 0 /\ NoRsp.call = 0
    BY <1>1 DEF NoApdu, Command, NoRsp, Apdus, Lines
  <1>3. HostOK
    BY <1>1, <1>2, DevicesAssumption DEF HostOK, Busy, Init
  <1>4. QueuesOK
    BY DEF QueuesOK, CommandsOK, AnswersOK, Init
  <1>5. CardOK
    BY <1>1 DEF CardOK, Init
  <1>6. LinesInv
    BY EmptyOK DEF LinesInv, Init
  <1>7. ModemInv /\ InStepInv
    BY DEF ModemInv, InStepInv, Init
  <1>8. ReturnInv
    BY <1>2 DEF ReturnInv, Init
  <1> QED BY <1>3, <1>4, <1>5, <1>6, <1>7, <1>8 DEF TransportInv, DataOK

(* What an opening program may find.                                       *)
LEMMA OutstandingFacts ==
    ASSUME DataOK
    PROVE  /\ Outstanding \in Nat /\ Len(toModem) \in Nat /\ Len(toModem) <= Outstanding
           /\ \/ toModem = <<>> /\ \A i \in 1 .. Len(toHost) : ~Stops(toHost, i)
              \/ Outstanding = Len(toModem) + Cardinality({i \in 1 .. Len(toHost) : toHost[i].type \in {"csim", "error", "cme"}})
  <1> DEFINE T == {i \in 1 .. Len(toHost) : toHost[i].type \in {"csim", "error", "cme"}}
             U == {i \in 1 .. Len(toHost) : toHost[i].type \in {"csim", "error"}}
  <1>1. toHost \in Seq(Lines) /\ Len(toHost) \in Nat /\ DOMAIN toHost = 1 .. Len(toHost)
        /\ toModem \in Seq(Apdus) /\ Len(toModem) \in Nat
    BY DEF DataOK, QueuesOK, CommandsOK, AnswersOK
  <1>2. IsFiniteSet(T) /\ IsFiniteSet(U)
    <2>1. IsFiniteSet(1 .. Len(toHost))
      BY <1>1, FS_Interval
    <2>2. T \in SUBSET (1 .. Len(toHost)) /\ U \in SUBSET (1 .. Len(toHost))
      OBVIOUS
    <2> HIDE DEF T, U
    <2> QED BY <2>1, <2>2, FS_Subset
  <1>3. Outstanding = IF Len(toModem) + Cardinality(U) = 0 THEN 0 ELSE Len(toModem) + Cardinality(T)
    BY <1>1, Zenon DEF Outstanding
  <1>4. Cardinality(T) \in Nat /\ Cardinality(U) \in Nat
    <2> HIDE DEF T, U
    <2> QED BY <1>2, FS_CardinalityType
  <1>5. CASE Len(toModem) + Cardinality(U) = 0
    <2>1. Len(toModem) = 0 /\ Cardinality(U) = 0
      <3> HIDE DEF U
      <3> QED BY <1>1, <1>4, <1>5
    <2>2. U = {}
      <3> HIDE DEF U
      <3> QED BY <1>2, <2>1, FS_EmptySet
    <2>3. toModem = <<>> /\ \A i \in 1 .. Len(toHost) : ~Stops(toHost, i)
      BY <1>1, <2>1, <2>2 DEF Stops
    <2>4. Outstanding = 0
      BY <1>3, <1>5
    <2> QED BY <2>1, <2>3, <2>4
  <1>6. CASE Len(toModem) + Cardinality(U) # 0
    <2>1. Outstanding = Len(toModem) + Cardinality(T)
      BY <1>3, <1>6
    <2> HIDE DEF T
    <2>2. Outstanding \in Nat /\ Len(toModem) <= Outstanding
      BY <1>1, <1>4, <2>1
    <2> QED BY <1>1, <2>1, <2>2 DEF T
  <1> QED BY <1>5, <1>6

(* A program opens the port.                                               *)
LEMMA StartKeeps == TransportInv /\ start /\ Opened => TransportInv'
  <1> SUFFICES ASSUME TransportInv, start, Opened PROVE TransportInv'
    OBVIOUS
  <1>1. /\ pc = "closed" /\ device = "modem" /\ pc' = "idle" /\ ret' = "none" /\ lastOk' = 0
        /\ apdu' = NoApdu /\ rsp' = NoRsp
        /\ device' = device /\ n' = n /\ sent' = sent /\ toModem' = toModem /\ up' = up /\ held' = held /\ runs' = runs
    BY DEF start, Opened, cardVars
  <1>2. \/ toHost' = <<>> /\ skew' = Len(toModem)
        \/ toHost' = toHost /\ skew' = Outstanding
    BY <1>1 DEF start, hostVars
  <1>3. NoApdu \in Apdus /\ NoRsp \in Lines /\ NoApdu.call = 0 /\ NoRsp.id = 0 /\ NoRsp.call = 0
    BY MaxCallsAssumption DEF NoApdu, Command, NoRsp, Apdus, Lines
  <1>4. DataOK /\ HostOK /\ QueuesOK /\ CardOK
    BY DEF TransportInv, DataOK
  <1>5. Outstanding \in Nat /\ Len(toModem) \in Nat /\ Len(toModem) <= Outstanding
    BY <1>4, OutstandingFacts
  <1>6. skew' \in Nat /\ Len(toModem) <= skew'
    BY <1>2, <1>5
  <1>7. HostOK'
    BY <1>1, <1>3, <1>4, <1>6 DEF HostOK, Busy
  <1>8. QueuesOK'
    <2>1. AnswersOK(toHost', sent)
      <3>1. CASE toHost' = <<>>
        BY <3>1 DEF AnswersOK
      <3>2. CASE toHost' = toHost
        BY <1>4, <3>2 DEF QueuesOK
      <3> QED BY <1>2, <3>1, <3>2
    <2> QED BY <1>1, <1>4, <2>1 DEF QueuesOK
  <1>9. CardOK'
    BY <1>1, <1>4 DEF CardOK
  <1>10. ASSUME up PROVE LinesInv' /\ ModemInv' /\ InStepInv'
    <2>1. LinesInv /\ ModemInv
      BY <1>10 DEF TransportInv
    <2>2. LinesOK(toHost, Len(toModem), sent, skew, "closed") /\ Len(toModem) <= sent /\ sent \in Nat /\ skew \in Nat
          /\ toHost \in Seq(Lines)
      BY <1>1, <1>4, <2>1 DEF LinesInv, ModemInv, HostOK, Busy, QueuesOK, AnswersOK
    <2>3. LinesOK(toHost', Len(toModem), sent, skew', "idle")
      <3>1. CASE toHost' = <<>>
        BY <1>5, <1>6, <2>2, <3>1, EmptyOK
      <3>2. CASE toHost' = toHost /\ skew' = Outstanding
        <4>1. CASE \A i \in 1 .. Len(toHost) : ~Stops(toHost, i)
          BY <1>5, <1>6, <2>2, <3>2, <4>1, NothingOK
        <4>2. CASE Outstanding = Len(toModem) + Cardinality({i \in 1 .. Len(toHost) : toHost[i].type \in {"csim", "error", "cme"}})
          <5>1. LinesOK(toHost, Len(toModem), sent, Outstanding, "idle")
            BY <1>5, <2>2, <4>2, CountOK
          <5> QED BY <3>2, <5>1
        <4> QED BY <1>4, <4>1, <4>2, OutstandingFacts
      <3> QED BY <1>2, <3>1, <3>2
    <2>4. ModemInv'
      BY <1>1, <1>5, <1>6, <2>1 DEF ModemInv
    <2>5. toModem' # <<>> => skew' # 0
      <3>1. toModem \in Seq(Apdus)
        BY <1>4 DEF QueuesOK, CommandsOK
      <3>2. toModem # <<>> => Len(toModem) >= 1
        BY <3>1
      <3> QED BY <1>1, <1>5, <1>6, <3>2
    <2>6. InStepInv'
      BY <1>1, <2>5 DEF InStepInv
    <2> QED BY <1>1, <2>3, <2>4, <2>6 DEF LinesInv
  <1>11. ReturnInv'
    BY <1>1, <1>3 DEF ReturnInv
  <1> QED BY <1>1, <1>7, <1>8, <1>9, <1>10, <1>11 DEF TransportInv, DataOK

(* A program finds no port, or does not know its baud rate: the lines that *)
(* came while the port was closed may be gone.                             *)
LEMMA NoPortKeeps == TransportInv /\ start /\ ~Opened => TransportInv'
  <1> SUFFICES ASSUME TransportInv, start, ~Opened PROVE TransportInv'
    OBVIOUS
  <1>1. /\ pc = "closed" /\ device = "modem" /\ toHost' \in {<<>>, toHost}
        /\ device' = device /\ pc' = pc /\ n' = n /\ sent' = sent /\ apdu' = apdu /\ rsp' = rsp /\ ret' = ret
        /\ skew' = skew /\ lastOk' = lastOk /\ toModem' = toModem /\ up' = up /\ held' = held /\ runs' = runs
    BY DEF start, hostVars, cardVars
  <1>2. HostOK /\ QueuesOK /\ CardOK /\ ReturnInv
    BY DEF TransportInv, DataOK
  <1>3. HostOK' /\ CardOK' /\ ReturnInv'
    BY <1>1, <1>2 DEF HostOK, Busy, CardOK, ReturnInv
  <1>4. QueuesOK'
    <2>1. AnswersOK(<<>>, sent)
      BY DEF AnswersOK
    <2>2. AnswersOK(toHost', sent)
      BY <1>1, <1>2, <2>1 DEF QueuesOK
    <2> QED BY <1>1, <1>2, <2>2 DEF QueuesOK
  <1>5. ASSUME up PROVE LinesInv' /\ ModemInv' /\ InStepInv'
    <2>1. LinesInv /\ ModemInv /\ InStepInv
      BY <1>5 DEF TransportInv
    <2>2. sent \in Nat /\ skew \in Nat /\ toModem \in Seq(Apdus) /\ Len(toModem) \in Nat /\ Len(toModem) <= sent
      BY <1>2, <2>1 DEF HostOK, Busy, QueuesOK, CommandsOK, ModemInv
    <2>3. LinesOK(<<>>, Len(toModem), sent, skew, pc)
      BY <2>2, EmptyOK
    <2>4. LinesInv'
      BY <1>1, <2>1, <2>3 DEF LinesInv
    <2>5. ModemInv'
      BY <1>1, <2>1 DEF ModemInv
    <2>6. InStepInv'
      BY <1>1, <2>1 DEF InStepInv, Unseen
    <2> QED BY <2>4, <2>5, <2>6
  <1> QED BY <1>1, <1>3, <1>4, <1>5 DEF TransportInv, DataOK

(* A program opens the reader.                                             *)
LEMMA PcscOpenKeeps == TransportInv /\ PcscOpen /\ Opened => TransportInv'
  <1> SUFFICES ASSUME TransportInv, PcscOpen, Opened PROVE TransportInv'
    OBVIOUS
  <1>1. /\ pc = "closed" /\ device = "pcsc" /\ pc' = "idle" /\ ret' = "none" /\ lastOk' = 0 /\ skew' = 0
        /\ apdu' = NoApdu /\ rsp' = NoRsp
        /\ device' = device /\ n' = n /\ sent' = sent /\ toModem' = toModem /\ toHost' = toHost /\ up' = up
        /\ held' = held /\ runs' = runs
    <2>1. pc # "idle" /\ pc' = "idle"
      BY DEF PcscOpen, Opened
    <2>2. ~UNCHANGED vars
      BY <2>1 DEF vars, hostVars
    <2> QED BY <2>1, <2>2 DEF PcscOpen, Opened, cardVars
  <1>2. NoApdu \in Apdus /\ NoRsp \in Lines /\ NoApdu.call = 0 /\ NoRsp.id = 0 /\ NoRsp.call = 0
    BY MaxCallsAssumption DEF NoApdu, Command, NoRsp, Apdus, Lines
  <1>3. HostOK /\ QueuesOK /\ CardOK
    BY DEF TransportInv, DataOK
  <1>4. HostOK'
    BY <1>1, <1>2, <1>3 DEF HostOK, Busy
  <1>5. QueuesOK' /\ toModem' = <<>> /\ toHost' = <<>>
    BY <1>1, <1>3 DEF QueuesOK
  <1>6. CardOK'
    BY <1>1, <1>3 DEF CardOK
  <1>7. LinesInv' /\ ModemInv' /\ InStepInv'
    <2>1. sent \in Nat
      BY <1>3 DEF HostOK, Busy
    <2>2. LinesOK(<<>>, 0, sent, 0, "idle")
      BY <2>1, EmptyOK
    <2>3. LinesInv'
      BY <1>1, <1>5, <2>2 DEF LinesInv
    <2> QED BY <1>1, <1>5, <2>1, <2>3 DEF ModemInv, InStepInv
  <1>8. ReturnInv'
    BY <1>1, <1>2 DEF ReturnInv
  <1> QED BY <1>4, <1>5, <1>6, <1>7, <1>8 DEF TransportInv, DataOK

(* The program dies, wherever it is.                                       *)
LEMMA DieKeeps == TransportInv /\ Die => TransportInv'
  <1> SUFFICES ASSUME TransportInv, Die PROVE TransportInv'
    OBVIOUS
  <1>1. /\ pc' = "closed" /\ ret' = "none" /\ lastOk' = lastOk /\ skew' = skew /\ apdu' = apdu /\ rsp' = rsp
        /\ device' = device /\ n' = n /\ sent' = sent /\ toModem' = toModem /\ toHost' = toHost /\ up' = up
        /\ held' = held /\ runs' = runs
    BY DEF Die, modemVars, cardVars
  <1>2. HostOK' /\ QueuesOK' /\ CardOK'
    BY <1>1 DEF TransportInv, DataOK, HostOK, Busy, QueuesOK, CardOK
  <1>3. ASSUME up PROVE LinesInv' /\ ModemInv' /\ InStepInv'
    <2>1. LinesInv /\ ModemInv /\ InStepInv
      BY <1>3 DEF TransportInv
    <2>2. LinesInv'
      BY <1>1, <2>1, DeadOK DEF LinesInv
    <2> QED BY <1>1, <2>1, <2>2 DEF ModemInv, InStepInv, Unseen
  <1>4. ReturnInv'
    BY <1>1 DEF ReturnInv
  <1> QED BY <1>1, <1>2, <1>3, <1>4 DEF TransportInv, DataOK

(* Sending keeps the data in their sets: what is sent is of a call that    *)
(* has been made.                                                          *)
LEMMA SendData ==
    ASSUME DataOK, NEW a \in Apdus, transmitApdu(a), n' \in 0 .. MaxCalls, n <= n', a.call = n',
           UNCHANGED <<skew, device, up>>, ret' = ret \/ ret' = "none", lastOk' = lastOk,
           rsp' \in Lines, rsp'.id <= sent, AnswersOK(toHost', sent), device = "pcsc" => toHost' = <<>>
    PROVE  HostOK' /\ QueuesOK'
  <1>1. /\ sent' = sent + 1 /\ apdu' \in Apdus /\ apdu'.id = sent + 1 /\ apdu'.call = a.call
        /\ toModem' \in Seq(Apdus)
        /\ device = "modem" => pc' = "await" /\ (up => toModem' = Append(toModem, apdu')) /\ (~up => toModem' = toModem)
        /\ device = "pcsc" => pc' = "scard" /\ toModem' = toModem
    BY SendEffect
  <1>2. HostOK /\ QueuesOK /\ sent \in Nat /\ n \in Nat /\ n' \in Nat /\ device \in {"modem", "pcsc"} /\ apdu'.call \in Nat
        /\ rsp'.id \in Nat /\ lastOk \in Nat /\ lastOk <= n
    <2>1. HostOK /\ QueuesOK /\ sent \in Nat /\ n \in Nat /\ n' \in Nat /\ device \in {"modem", "pcsc"}
          /\ lastOk \in Nat /\ lastOk <= n
      BY MaxCallsAssumption, DevicesAssumption DEF DataOK, HostOK, Busy
    <2>2. apdu'.call \in Nat
      BY <1>1, MaxCallsAssumption DEF Apdus
    <2>3. rsp'.id \in Nat
      BY DEF Lines
    <2> QED BY <2>1, <2>2, <2>3
  <1>3. HostOK'
    <2>1. lastOk' \in 0 .. n' /\ rsp'.id <= sent' /\ sent' \in Nat
      BY <1>1, <1>2
    <2> QED BY <1>1, <1>2, <2>1 DEF HostOK, Busy
  <1>4. AnswersOK(toHost', sent')
    <2>1. \A i \in 1 .. Len(toHost') : toHost'[i] \in Lines
      BY DEF AnswersOK
    <2>2. \A i \in 1 .. Len(toHost') : toHost'[i].id \in Nat
      BY <2>1 DEF Lines
    <2> QED BY <1>1, <1>2, <2>2 DEF AnswersOK
  <1>5. CommandsOK(toModem', n', sent')
    <2>1. toModem \in Seq(Apdus) /\ Len(toModem) \in Nat /\ \A i \in 1 .. Len(toModem) : toModem[i] \in Apdus
      BY <1>2 DEF QueuesOK, CommandsOK
    <2>2. \A i \in 1 .. Len(toModem) : toModem[i].call \in Nat /\ toModem[i].id \in Nat
      BY <2>1, MaxCallsAssumption DEF Apdus
    <2>3. \A i \in 1 .. Len(toModem) : toModem[i].call <= n' /\ toModem[i].id <= sent'
      BY <1>1, <1>2, <2>2 DEF QueuesOK, CommandsOK
    <2>4. CASE toModem' = toModem
      BY <1>1, <2>3, <2>4 DEF CommandsOK
    <2>5. CASE toModem' = Append(toModem, apdu')
      <3>1. PICK b \in Apdus : b = apdu'
        BY <1>1
      <3>2. /\ Len(toModem') = Len(toModem) + 1 /\ toModem'[Len(toModem) + 1] = apdu'
            /\ \A i \in 1 .. Len(toModem) : toModem'[i] = toModem[i]
        BY <2>1, <2>5, <3>1, AppendFacts
      <3>3. \A i \in 1 .. Len(toModem) + 1 : i \in 1 .. Len(toModem) \/ i = Len(toModem) + 1
        BY <2>1
      <3>4. \A i \in 1 .. Len(toModem) + 1 : toModem'[i].call <= n' /\ toModem'[i].id <= sent'
        BY <1>1, <1>2, <2>3, <3>2, <3>3
      <3> QED BY <1>1, <3>2, <3>4 DEF CommandsOK
    <2> QED BY <1>1, <1>2, <2>4, <2>5
  <1> QED BY <1>1, <1>2, <1>3, <1>4, <1>5 DEF QueuesOK

(* A program that is in step sends a command of the call in progress, or   *)
(* GET RESPONSE once the card has run it.                                  *)
LEMMA SendInStep ==
    ASSUME DataOK, up, NEW a \in Apdus, transmitApdu(a), NEW h \in Seq(Lines), toHost' = h, UNCHANGED <<skew, device>>,
           LinesOK(h, Len(toModem), sent, skew, "idle"), ModemInv, Len(toModem) <= skew,
           device = "pcsc" => h = <<>>,
           skew = 0 => /\ a.call = n'
                       /\ a.ins = "cmd" => runs'[n'] = 0
                       /\ a.ins = "get" => runs'[n'] = Ran(a) /\ held' = n'
    PROVE  InStepInv'
  <1> SUFFICES ASSUME skew = 0 PROVE InStepInv'
    BY DEF InStepInv
  <1>1. /\ sent' = sent + 1 /\ sent \in Nat /\ apdu' \in Apdus /\ apdu'.id = sent + 1
        /\ apdu'.call = a.call /\ apdu'.ins = a.ins /\ apdu'.lc = a.lc
        /\ toModem \in Seq(Apdus)
        /\ device = "modem" => pc' = "await" /\ toModem' = Append(toModem, apdu')
        /\ device = "pcsc" => pc' = "scard" /\ toModem' = toModem
        /\ device \in {"modem", "pcsc"}
    BY SendEffect, DevicesAssumption DEF DataOK, HostOK, Busy, QueuesOK, CommandsOK
  <1>2. Len(toModem) = 0 /\ toModem = <<>>
    <2>1. Len(toModem) \in Nat
      BY <1>1
    <2>2. Len(toModem) = 0
      BY <2>1
    <2> QED BY <1>1, <2>2
  <1>3. Unseen'
    BY <1>1 DEF Unseen, Ran
  <1>4. \A i \in 1 .. Len(h) : ~Stops(h, i)
    BY <1>1, <1>2, NoStops
  <1>5. \A i \in DOMAIN toHost' : toHost'[i].type # "csim"
    BY <1>4 DEF Stops
  <1>6. toModem' # <<>> => toModem'[1] = apdu'
    <2>1. PICK b \in Apdus : b = apdu'
      BY <1>1
    <2>2. Append(toModem, b)[1] = b
      BY <1>2
    <2> QED BY <1>1, <1>2, <2>1, <2>2
  <1> QED BY <1>1, <1>3, <1>5, <1>6 DEF InStepInv, Unseen

(* transmit() sends a command.                                             *)
LEMMA TransmitKeeps == \A k \in Cases : TransportInv /\ transmit(k) => TransportInv'
  <1> SUFFICES ASSUME NEW k \in Cases, TransportInv, transmit(k) PROVE TransportInv'
    OBVIOUS
  <1> DEFINE a == Command(n + 1, k)
  <1>1. /\ pc = "idle" /\ n < MaxCalls /\ n' = n + 1 /\ ret' = "none" /\ transmitApdu(a)
        /\ device' = device /\ rsp' = rsp /\ skew' = skew /\ lastOk' = lastOk /\ toHost' = toHost /\ up' = up
        /\ held' = held /\ runs' = runs
    BY DEF transmit, cardVars
  <1>2. DataOK /\ HostOK /\ QueuesOK /\ CardOK /\ ReturnInv
    BY DEF TransportInv, DataOK
  <1>3. n \in Nat /\ MaxCalls \in Nat /\ n' \in 0 .. MaxCalls /\ k \in 1 .. 4
    BY <1>1, <1>2, MaxCallsAssumption, CasesAssumption DEF HostOK, Busy
  <1>4. a \in Apdus /\ a.call = n' /\ a.ins = "cmd"
    <2>1. n + 1 \in 0 .. MaxCalls
      BY <1>1, <1>3
    <2> QED BY <1>1, <1>3, <2>1 DEF Apdus, Command
  <1> HIDE DEF a
  <1>5. /\ sent' = sent + 1 /\ sent \in Nat /\ skew \in Nat
        /\ pc' \in {"await", "scard"}
    BY <1>1, <1>2, <1>4, SendEffect, DevicesAssumption DEF HostOK, Busy
  <1>6. HostOK' /\ QueuesOK'
    <2>1. n <= n' /\ a.call = n' /\ rsp' \in Lines /\ rsp'.id <= sent /\ AnswersOK(toHost', sent) /\ (device = "pcsc" => toHost' = <<>>)
      BY <1>1, <1>2, <1>3, <1>4 DEF HostOK, Busy, QueuesOK
    <2> QED BY <1>1, <1>2, <1>3, <1>4, <2>1, SendData
  <1>7. CardOK'
    <2>1. held' \in 0 .. n'
      BY <1>1, <1>2, <1>3 DEF CardOK
    <2>2. \A c \in 0 .. MaxCalls : c > n' => c > n
      BY <1>1, <1>3
    <2> QED BY <1>1, <1>2, <2>1, <2>2 DEF CardOK
  <1>8. ASSUME up PROVE LinesInv' /\ ModemInv' /\ InStepInv'
    <2>1. LinesInv /\ ModemInv
      BY <1>8 DEF TransportInv
    <2>2. LinesOK(toHost, Len(toModem), sent, skew, "idle") /\ Len(toModem) <= skew /\ toHost \in Seq(Lines)
          /\ (device = "pcsc" => toHost = <<>>)
      BY <1>1, <1>2, <2>1 DEF LinesInv, ModemInv, QueuesOK, AnswersOK
    <2>3. PICK h \in Seq(Lines) : h = toHost
      BY <2>2
    <2>4. runs'[n'] = 0
      <3>1. n' > n
        BY <1>1, <1>3
      <3> QED BY <1>1, <1>2, <1>3, <3>1 DEF CardOK
    <2>5. LinesInv' /\ ModemInv'
      BY <1>1, <1>2, <1>4, <1>8, <2>1, <2>2, <2>3, SendKeeps
    <2>6. InStepInv'
      BY <1>1, <1>2, <1>4, <1>8, <2>1, <2>2, <2>3, <2>4, SendInStep
    <2> QED BY <2>5, <2>6
  <1>9. ReturnInv'
    BY <1>1, <1>2, <1>5 DEF ReturnInv
  <1> QED BY <1>1, <1>6, <1>7, <1>8, <1>9 DEF TransportInv, DataOK

(* What readLine gives a program and leaves behind.                        *)
LEMMA ReadFacts ==
    ASSUME DataOK, readLine
    PROVE  /\ up /\ device = "modem" /\ toHost # <<>> /\ toHost \in Seq(Lines)
           /\ toHost' = Tail(toHost) /\ AnswersOK(toHost', sent)
           /\ Head(toHost) = toHost[1] /\ toHost[1] \in Lines /\ toHost[1].id <= sent /\ 1 \in DOMAIN toHost
           /\ \A i \in DOMAIN toHost' : \E j \in DOMAIN toHost : toHost'[i] = toHost[j]
           /\ device' = device /\ n' = n /\ skew' = skew /\ up' = up /\ held' = held /\ runs' = runs
  <1>1. /\ up /\ toHost # <<>> /\ toHost' = Tail(toHost)
        /\ device' = device /\ n' = n /\ skew' = skew /\ up' = up /\ held' = held /\ runs' = runs
    BY DEF readLine, cardVars
  <1>2. device = "modem" /\ toHost \in Seq(Lines) /\ \A i \in 1 .. Len(toHost) : toHost[i].id <= sent
    BY <1>1, DevicesAssumption DEF DataOK, HostOK, Busy, QueuesOK, AnswersOK
  <1>3. /\ Tail(toHost) \in Seq(Lines) /\ Len(toHost) \in Nat /\ Len(toHost) >= 1 /\ Len(Tail(toHost)) = Len(toHost) - 1
        /\ Head(toHost) = toHost[1] /\ toHost[1] \in Lines
        /\ \A i \in 1 .. Len(toHost) - 1 : Tail(toHost)[i] = toHost[i + 1]
    BY <1>1, <1>2, TailFacts
  <1>4. \A i \in 1 .. Len(toHost) - 1 : i + 1 \in 1 .. Len(toHost)
    BY <1>3
  <1>5. \A i \in 1 .. Len(toHost) - 1 : \E j \in 1 .. Len(toHost) : Tail(toHost)[i] = toHost[j]
    BY <1>3, <1>4
  <1>6. 1 \in 1 .. Len(toHost) /\ DOMAIN toHost = 1 .. Len(toHost) /\ DOMAIN Tail(toHost) = 1 .. Len(toHost) - 1
    BY <1>2, <1>3
  <1>7. AnswersOK(toHost', sent)
    BY <1>1, <1>2, <1>3, <1>5 DEF AnswersOK
  <1> QED BY <1>1, <1>2, <1>3, <1>5, <1>6, <1>7

(* The first loop of sendATCSIM reads a line.                              *)
LEMMA AwaitCsimKeeps == TransportInv /\ AwaitCsim => TransportInv'
  <1> SUFFICES ASSUME TransportInv, AwaitCsim PROVE TransportInv'
    OBVIOUS
  <1>1. DataOK /\ HostOK /\ QueuesOK /\ CardOK /\ ReturnInv /\ readLine /\ pc = "await"
    BY DEF TransportInv, DataOK, AwaitCsim
  <1>2. /\ up /\ device = "modem" /\ toHost # <<>> /\ toHost \in Seq(Lines)
        /\ toHost' = Tail(toHost) /\ AnswersOK(toHost', sent)
        /\ Head(toHost) = toHost[1] /\ toHost[1] \in Lines /\ toHost[1].id <= sent /\ 1 \in DOMAIN toHost
        /\ \A i \in DOMAIN toHost' : \E j \in DOMAIN toHost : toHost'[i] = toHost[j]
        /\ device' = device /\ n' = n /\ skew' = skew /\ up' = up /\ held' = held /\ runs' = runs
    BY <1>1, ReadFacts
  <1>3. /\ sent' = sent /\ apdu' = apdu /\ toModem' = toModem
        /\ \/ toHost[1].type = "error" /\ pc' = "idle" /\ ret' = "lost" /\ rsp' = rsp /\ lastOk' = lastOk
           \/ toHost[1].type = "csim" /\ pc' = "drain" /\ ret' = ret /\ rsp' = toHost[1] /\ lastOk' = lastOk
           \/ toHost[1].type \notin {"error", "csim"} /\ pc' = "await" /\ ret' = ret /\ rsp' = rsp /\ lastOk' = lastOk
    BY <1>1, <1>2 DEF AwaitCsim, Return
  <1>4. /\ LinesOK(toHost, Len(toModem), sent, skew, "await") /\ ModemInv /\ InStepInv
        /\ sent \in Nat /\ skew \in Nat /\ toModem \in Seq(Apdus) /\ Len(toModem) \in Nat
    BY <1>1, <1>2 DEF TransportInv, LinesInv, HostOK, Busy, QueuesOK, CommandsOK
  <1>5. LinesInv'
    <2>1. LinesOK(Tail(toHost), Len(toModem), sent, skew, pc')
      BY <1>2, <1>3, <1>4, TailOK DEF Stops
    <2> QED BY <1>2, <1>3, <2>1 DEF LinesInv
  <1>6. toHost[1].type \in {"error", "csim"} => Len(toModem) <= skew /\ (toHost[1].type = "csim" => sent <= toHost[1].id + skew)
    BY <1>2, <1>4, AwaitedBound DEF Stops
  <1>7. ModemInv'
    BY <1>2, <1>3, <1>4, <1>6 DEF ModemInv
  <1>8. toHost[1].type \in {"error", "csim"} /\ skew = 0 => toModem = <<>>
    BY <1>4, <1>6
  <1>9. InStepInv'
    <2> SUFFICES ASSUME skew = 0 PROVE InStepInv'
      BY <1>2 DEF InStepInv
    <2>1. apdu.call = n /\ (toModem # <<>> => Unseen /\ toModem[1] = apdu)
          /\ \A i \in DOMAIN toHost : toHost[i].type = "csim" => Good(toHost[i])
      BY <1>1, <1>4 DEF InStepInv, HostOK, Busy
    <2>2. (Unseen => Unseen') /\ \A l : Good(l) => Good(l)'
      BY <1>2, <1>3 DEF Unseen, Good
    <2>3. CASE pc' = "idle"
      BY <1>3, <1>8, <2>3 DEF InStepInv
    <2>4. CASE pc' = "drain"
      <3>1. rsp' = toHost[1] /\ toHost[1].type = "csim"
        BY <1>3, <2>4
      <3>2. Good(toHost[1])
        BY <1>2, <2>1, <3>1
      <3>3. PICK l : l = toHost[1]
        OBVIOUS
      <3>4. Good(l)' /\ rsp' = l
        BY <2>2, <3>1, <3>2, <3>3
      <3>5. Good(rsp)'
        BY <3>4 DEF Good
      <3> QED BY <1>2, <1>3, <1>8, <2>1, <2>4, <3>1, <3>5 DEF InStepInv
    <2>5. CASE pc' = "await"
      <3>1. ASSUME NEW i \in DOMAIN toHost', toHost'[i].type = "csim" PROVE Good(toHost[i])'
        <4>1. PICK j \in DOMAIN toHost : toHost'[i] = toHost[j]
          BY <1>2
        <4>2. Good(toHost[j])
          BY <2>1, <3>1, <4>1
        <4> QED BY <1>2, <1>3, <4>1, <4>2 DEF Good
      <3> QED BY <1>2, <1>3, <2>1, <2>2, <2>5, <3>1 DEF InStepInv, Good
    <2> QED BY <1>3, <2>3, <2>4, <2>5
  <1>10. HostOK'
    BY <1>1, <1>2, <1>3 DEF HostOK, Busy
  <1>11. QueuesOK'
    BY <1>1, <1>2, <1>3 DEF QueuesOK
  <1>12. CardOK'
    BY <1>1, <1>2 DEF CardOK
  <1>13. ReturnInv'
    BY <1>1, <1>2, <1>3, <1>6 DEF ReturnInv
  <1> QED BY <1>2, <1>5, <1>7, <1>9, <1>10, <1>11, <1>12, <1>13 DEF TransportInv, DataOK

\* What transmit() sends after the response r: the command again, its length
\* of the data perhaps written over, or GET RESPONSE.
Follows(a, r) ==
    /\ a.call = apdu.call
    /\ r.sw = "6C" => a.ins = apdu.ins
    /\ r.sw = "61" => a.ins = "get"
    /\ a.lc = apdu.lc \/ (a.lc = "wrong" /\ r.sw = "6C" /\ apdu.ins = "cmd")

(* What transmit() makes of a response: it returns, or it sends the APDU   *)
(* again or a GET RESPONSE for the same call.                              *)
LEMMA HandleEffect ==
    ASSUME DataOK, NEW r, HandleResponse(r)
    PROVE  \/ /\ r.sw \in {"6C", "61"} /\ ret' = ret /\ lastOk' = lastOk
              /\ \E a \in Apdus : transmitApdu(a) /\ Follows(a, r)
           \/ /\ r.sw \notin {"6C", "61"}
              /\ pc' = "idle" /\ ret' = "answered" /\ lastOk' = n /\ sent' = sent /\ apdu' = apdu /\ toModem' = toModem
  <1> DEFINE a1 == Again(apdu)
             a2 == Fetch(apdu)
  <1>1. apdu \in Apdus
    BY DEF DataOK, HostOK, Busy
  <1>2. a1 \in Apdus /\ (r.sw = "6C" => Follows(a1, r))
    <2>1. PICK d \in Nat : d = apdu.reps + 1
      BY <1>1 DEF Apdus
    <2>2. PICK v \in {"right", "wrong"} : v = IF apdu.ins = "cmd" /\ apdu.kind \in {3, 4} THEN "wrong" ELSE apdu.lc
      BY <1>1 DEF Apdus
    <2>3. a1 = [apdu EXCEPT !.reps = d, !.lc = v]
      BY <2>1, <2>2 DEF Again
    <2> HIDE DEF a1
    <2>4. a1 \in Apdus /\ a1.call = apdu.call /\ a1.ins = apdu.ins /\ a1.lc = v
      BY <1>1, <2>3 DEF Apdus
    <2> QED BY <2>2, <2>4 DEF Follows
  <1>3. a2 \in Apdus /\ (r.sw = "61" => Follows(a2, r))
    <2>1. PICK d \in Nat : d = apdu.reps + 1
      BY <1>1 DEF Apdus
    <2>2. a2 = [apdu EXCEPT !.reps = d, !.ins = "get"]
      BY <2>1 DEF Fetch
    <2> HIDE DEF a2
    <2>3. a2 \in Apdus /\ a2.call = apdu.call /\ a2.ins = "get" /\ a2.lc = apdu.lc
      BY <1>1, <2>2 DEF Apdus
    <2> QED BY <2>3 DEF Follows
  <1>4. \/ r.sw = "6C" /\ transmitApdu(a1) /\ UNCHANGED <<ret, lastOk>>
        \/ r.sw = "61" /\ transmitApdu(a2) /\ UNCHANGED <<ret, lastOk>>
        \/ r.sw \notin {"6C", "61"} /\ Return("answered")
    BY DEF HandleResponse
  <1> HIDE DEF a1, a2
  <1>5. CASE r.sw = "6C" /\ transmitApdu(a1) /\ UNCHANGED <<ret, lastOk>>
    BY <1>2, <1>5
  <1>6. CASE r.sw = "61" /\ transmitApdu(a2) /\ UNCHANGED <<ret, lastOk>>
    BY <1>3, <1>6
  <1>7. CASE r.sw \notin {"6C", "61"} /\ Return("answered")
    BY <1>7 DEF Return
  <1> QED BY <1>4, <1>5, <1>6, <1>7

(* The second loop reads a line; at OK transmit() looks at the response.   *)
LEMMA DrainOkKeeps == TransportInv /\ DrainOk => TransportInv'
  <1> SUFFICES ASSUME TransportInv, DrainOk PROVE TransportInv'
    OBVIOUS
  <1>1. DataOK /\ HostOK /\ QueuesOK /\ CardOK /\ ReturnInv /\ readLine /\ pc = "drain" /\ rsp' = rsp
    BY DEF TransportInv, DataOK, DrainOk
  <1>2. /\ up /\ device = "modem" /\ toHost # <<>> /\ toHost \in Seq(Lines)
        /\ toHost' = Tail(toHost) /\ AnswersOK(toHost', sent) /\ Head(toHost) = toHost[1]
        /\ device' = device /\ n' = n /\ skew' = skew /\ up' = up /\ held' = held /\ runs' = runs
    BY <1>1, ReadFacts
  <1>3. /\ LinesOK(toHost, Len(toModem), sent, skew, "drain") /\ ModemInv /\ Len(toModem) <= skew /\ InStepInv
        /\ sent \in Nat /\ skew \in Nat /\ n \in 0 .. MaxCalls /\ MaxCalls \in Nat
        /\ toModem \in Seq(Apdus) /\ Len(toModem) \in Nat
    BY <1>1, <1>2, MaxCallsAssumption DEF TransportInv, LinesInv, ModemInv, HostOK, Busy, QueuesOK, CommandsOK
  <1>4. skew = 0 => Good(rsp) /\ apdu.call = n /\ toModem = <<>>
    BY <1>1, <1>3 DEF InStepInv, HostOK, Busy
  <1>5. CardOK'
    BY <1>1, <1>2 DEF CardOK
  <1>6. sent <= rsp.id + skew
    BY <1>1 DEF ReturnInv
  <1>7. CASE toHost[1].type = "ok" /\ HandleResponse(rsp)
    <2>1. LinesOK(Tail(toHost), Len(toModem), sent, skew, "idle")
      BY <1>2, <1>3, <1>7, TailOK
    <2>2. CASE /\ rsp.sw \in {"6C", "61"} /\ ret' = ret /\ lastOk' = lastOk
               /\ \E a \in Apdus : transmitApdu(a) /\ Follows(a, rsp)
      <3>1. PICK a \in Apdus : transmitApdu(a) /\ Follows(a, rsp)
        BY <2>2
      <3>2. PICK h \in Seq(Lines) : h = Tail(toHost)
        BY <1>2, TailFacts
      <3>3. skew = 0 => /\ a.call = n
                        /\ a.ins = "cmd" => runs[n] = 0
                        /\ a.ins = "get" => runs[n] = Ran(a) /\ held = n
        <4>1. apdu.ins \in {"cmd", "get"}
          BY <1>1 DEF HostOK, Apdus
        <4> QED BY <1>4, <2>2, <3>1, <4>1 DEF Good, Follows, Ran
      <3>4. LinesInv' /\ ModemInv'
        BY <1>1, <1>2, <1>3, <2>1, <3>1, <3>2, SendKeeps
      <3>5. InStepInv'
        BY <1>1, <1>2, <1>3, <2>1, <3>1, <3>2, <3>3, SendInStep
      <3>6. HostOK' /\ QueuesOK'
        <4>1. a.call = n' /\ n <= n' /\ n' \in 0 .. MaxCalls /\ rsp' \in Lines /\ rsp'.id <= sent
          BY <1>1, <1>2, <1>3, <3>1 DEF HostOK, Busy, Follows
        <4> QED BY <1>1, <1>2, <2>2, <3>1, <4>1, SendData
      <3>7. pc' = "await"
        BY <1>1, <1>2, <3>1, SendEffect
      <3>8. ReturnInv'
        BY <1>1, <1>2, <2>2, <3>7 DEF ReturnInv
      <3> QED BY <1>2, <1>5, <3>4, <3>5, <3>6, <3>8 DEF TransportInv, DataOK
    <2>3. CASE /\ rsp.sw \notin {"6C", "61"}
               /\ pc' = "idle" /\ ret' = "answered" /\ lastOk' = n /\ sent' = sent /\ apdu' = apdu /\ toModem' = toModem
      <3>1. LinesInv'
        BY <1>2, <2>1, <2>3 DEF LinesInv
      <3>2. ModemInv' /\ InStepInv'
        BY <1>2, <1>3, <1>4, <2>3 DEF ModemInv, InStepInv
      <3>3. HostOK'
        BY <1>1, <1>2, <1>3, <2>3 DEF HostOK, Busy
      <3>4. QueuesOK'
        BY <1>1, <1>2, <2>3 DEF QueuesOK
      <3>5. ReturnInv'
        BY <1>1, <1>2, <1>4, <1>6, <2>3 DEF ReturnInv, Good
      <3> QED BY <1>2, <1>5, <3>1, <3>2, <3>3, <3>4, <3>5 DEF TransportInv, DataOK
    <2> QED BY <1>1, <1>7, <2>2, <2>3, HandleEffect
  <1>8. CASE /\ pc' = pc /\ sent' = sent /\ apdu' = apdu /\ ret' = ret /\ lastOk' = lastOk /\ toModem' = toModem
    <2>1. LinesOK(Tail(toHost), Len(toModem), sent, skew, "drain")
      BY <1>2, <1>3, TailOK
    <2>2. LinesInv'
      BY <1>1, <1>2, <1>8, <2>1 DEF LinesInv
    <2>3. ModemInv' /\ InStepInv'
      BY <1>1, <1>2, <1>3, <1>4, <1>8 DEF ModemInv, InStepInv, Good
    <2>4. HostOK'
      BY <1>1, <1>2, <1>8 DEF HostOK, Busy
    <2>5. QueuesOK'
      BY <1>1, <1>2, <1>8 DEF QueuesOK
    <2>6. ReturnInv'
      BY <1>1, <1>2, <1>8 DEF ReturnInv
    <2> QED BY <1>2, <1>5, <2>2, <2>3, <2>4, <2>5, <2>6 DEF TransportInv, DataOK
  <1> QED BY <1>2, <1>7, <1>8 DEF DrainOk

(* SCardTransmit returns.                                                  *)
LEMMA PcscTransmitKeeps == TransportInv /\ PcscTransmit => TransportInv'
  <1> SUFFICES ASSUME TransportInv, PcscTransmit PROVE TransportInv'
    OBVIOUS
  <1>1. DataOK /\ HostOK /\ QueuesOK /\ CardOK /\ ReturnInv /\ pc = "scard"
        /\ device' = device /\ n' = n /\ skew' = skew /\ toHost' = toHost /\ up' = up
    BY DEF TransportInv, DataOK, PcscTransmit
  <1>2. device = "pcsc" /\ skew = 0 /\ toModem = <<>> /\ toHost = <<>> /\ up /\ sent \in Nat
        /\ n \in 0 .. MaxCalls /\ MaxCalls \in Nat /\ apdu \in Apdus /\ apdu.call <= n
    BY <1>1, DevicesAssumption, MaxCallsAssumption DEF HostOK, Busy, QueuesOK
  <1>3. ModemInv /\ Unseen
    BY <1>1, <1>2 DEF TransportInv, InStepInv
  <1>4. LinesOK(<<>>, 0, sent, 0, "idle")
    BY <1>2, EmptyOK
  <1>5. ASSUME CardOK', Return("lost"), rsp' = rsp PROVE TransportInv'
    <2>1. pc' = "idle" /\ ret' = "lost" /\ lastOk' = lastOk /\ sent' = sent /\ apdu' = apdu /\ toModem' = toModem
      BY <1>5 DEF Return
    <2>2. LinesInv'
      BY <1>1, <1>2, <1>4, <2>1 DEF LinesInv
    <2>3. ModemInv' /\ InStepInv'
      BY <1>1, <1>2, <1>3, <2>1 DEF ModemInv, InStepInv
    <2>4. HostOK' /\ QueuesOK'
      BY <1>1, <1>5, <2>1 DEF HostOK, Busy, QueuesOK
    <2>5. ReturnInv'
      BY <1>1, <1>2, <1>5, <2>1 DEF ReturnInv
    <2> QED BY <1>5, <2>2, <2>3, <2>4, <2>5 DEF TransportInv, DataOK
  <1>6. ASSUME NEW sw \in CardStatus(apdu), CardRuns(apdu, sw) PROVE CardOK'
    BY <1>1, <1>2, <1>6, CardEffect DEF CardOK
  <1>7. ASSUME NEW sw \in CardStatus(apdu), CardRuns(apdu, sw), rsp' = CardResponse(apdu, sw), HandleResponse(rsp')
        PROVE  TransportInv'
    <2>1. /\ runs'[n] = IF apdu.call = n /\ apdu.ins = "cmd" /\ apdu.lc = "right" /\ sw # "6C" THEN runs[n] + 1 ELSE runs[n]
          /\ sw = "61" /\ apdu.ins = "cmd" => held' = apdu.call
          /\ sw # "final" /\ apdu.ins = "get" => held' = held
          /\ sw \in {"final", "61", "6C"}
          /\ rsp' \in Lines /\ rsp'.id = apdu.id /\ rsp'.sw = sw
          /\ rsp'.call = IF apdu.ins = "get" THEN held ELSE apdu.call
      BY <1>1, <1>2, <1>7, CardEffect
    <2>2. apdu.ins \in {"cmd", "get"}
      BY <1>2 DEF Apdus
    <2>3. rsp'.id = sent /\ rsp'.call = n
      BY <1>3, <2>1, <2>2 DEF Unseen
    <2>4. CardOK'
      BY <1>6, <1>7
    <2>5. PICK r : r = rsp'
      OBVIOUS
    <2>6. HandleResponse(r)
      BY <1>7, <2>5 DEF HandleResponse, transmitApdu, Return
    <2>7. CASE /\ r.sw \in {"6C", "61"} /\ ret' = ret /\ lastOk' = lastOk
               /\ \E a \in Apdus : transmitApdu(a) /\ Follows(a, r)
      <3>1. PICK a \in Apdus : transmitApdu(a) /\ Follows(a, r)
        BY <2>7
      <3>2. /\ a.call = n'
            /\ a.ins = "cmd" => runs'[n'] = 0
            /\ a.ins = "get" => runs'[n'] = Ran(a) /\ held' = n'
        BY <1>1, <1>3, <2>1, <2>2, <2>5, <2>7, <3>1 DEF Unseen, Follows, Ran
      <3>3. PICK h \in Seq(Lines) : h = <<>>
        <4>1. <<>> \in Seq(Lines)
          OBVIOUS
        <4> QED BY <4>1, Zenon
      <3>4. Len(toModem) = 0 /\ toHost' = h /\ LinesOK(h, Len(toModem), sent, skew, "idle") /\ Len(toModem) <= skew
        BY <1>1, <1>2, <1>4, <3>3
      <3>5. LinesInv' /\ ModemInv'
        BY <1>1, <1>2, <1>3, <3>1, <3>3, <3>4, SendKeeps
      <3>6. InStepInv'
        BY <1>1, <1>2, <1>3, <3>1, <3>2, <3>3, <3>4, SendInStep
      <3>7. HostOK' /\ QueuesOK'
        <4>1. a.call = n' /\ n <= n' /\ n' \in 0 .. MaxCalls /\ rsp'.id <= sent /\ AnswersOK(toHost', sent)
          BY <1>1, <1>2, <2>3, <3>2 DEF QueuesOK
        <4> QED BY <1>1, <1>2, <2>1, <2>7, <3>1, <4>1, SendData
      <3>8. pc' = "scard"
        BY <1>1, <1>2, <3>1, SendEffect
      <3>9. ReturnInv'
        BY <1>1, <1>2, <2>5, <2>7, <3>8 DEF ReturnInv
      <3> QED BY <2>4, <3>5, <3>6, <3>7, <3>9 DEF TransportInv, DataOK
    <2>8. CASE /\ r.sw \notin {"6C", "61"}
               /\ pc' = "idle" /\ ret' = "answered" /\ lastOk' = n /\ sent' = sent /\ apdu' = apdu /\ toModem' = toModem
      <3>1. LinesInv'
        BY <1>1, <1>2, <1>4, <2>8 DEF LinesInv
      <3>2. ModemInv' /\ InStepInv'
        BY <1>1, <1>2, <1>3, <2>8 DEF ModemInv, InStepInv
      <3>3. HostOK'
        BY <1>1, <1>2, <2>1, <2>3, <2>8 DEF HostOK, Busy
      <3>4. QueuesOK'
        BY <1>1, <2>8 DEF QueuesOK
      <3>5. ReturnInv'
        BY <1>1, <1>2, <2>3, <2>8 DEF ReturnInv
      <3> QED BY <2>4, <3>1, <3>2, <3>3, <3>4, <3>5 DEF TransportInv, DataOK
    <2> QED BY <1>1, <2>6, <2>7, <2>8, HandleEffect
  <1>8. CASE Return("lost") /\ UNCHANGED <<rsp, cardVars>>
    <2>1. CardOK'
      BY <1>1, <1>8 DEF CardOK, cardVars
    <2> QED BY <1>5, <1>8, <2>1
  <1>9. CASE \E sw \in CardStatus(apdu) :
                /\ CardRuns(apdu, sw)
                /\ \/ rsp' = CardResponse(apdu, sw) /\ HandleResponse(rsp')
                   \/ Return("lost") /\ UNCHANGED rsp
    BY <1>5, <1>6, <1>7, <1>9
  <1> QED BY <1>8, <1>9 DEF PcscTransmit

(* Lines nobody has asked for.                                             *)
LEMMA OtherLineKeeps == TransportInv /\ OtherLine => TransportInv'
  <1> SUFFICES ASSUME TransportInv, OtherLine PROVE TransportInv'
    OBVIOUS
  <1> DEFINE u == Line("urc")
  <1>1. /\ device = "modem" /\ toHost' = <<u>> /\ toModem' = toModem /\ up' = up
        /\ device' = device /\ pc' = pc /\ n' = n /\ sent' = sent /\ apdu' = apdu /\ rsp' = rsp /\ ret' = ret
        /\ skew' = skew /\ lastOk' = lastOk /\ held' = held /\ runs' = runs /\ up
    BY DEF OtherLine, hostVars, cardVars
  <1>2. u \in Lines /\ u.type = "urc" /\ u.id = 0
    BY MaxCallsAssumption DEF Line, Lines, Ends
  <1> HIDE DEF u
  <1>3. HostOK /\ QueuesOK /\ CardOK /\ LinesInv /\ ModemInv /\ InStepInv /\ ReturnInv
    BY <1>1 DEF TransportInv, DataOK
  <1>4. <<u>> \in Seq(Lines) /\ Len(<<u>>) = 1 /\ <<u>>[1] = u
    BY <1>2
  <1>5. HostOK' /\ CardOK' /\ ReturnInv'
    BY <1>1, <1>3 DEF HostOK, Busy, CardOK, ReturnInv
  <1>6. QueuesOK'
    <2>1. sent \in Nat
      BY <1>3 DEF HostOK, Busy
    <2>2. AnswersOK(<<u>>, sent)
      BY <1>2, <1>4, <2>1 DEF AnswersOK
    <2> QED BY <1>1, <1>3, <2>2 DEF QueuesOK
  <1>7. LinesInv'
    <2>1. sent \in Nat /\ skew \in Nat /\ toModem \in Seq(Apdus) /\ Len(toModem) \in Nat /\ Len(toModem) <= sent
      BY <1>3 DEF HostOK, Busy, QueuesOK, CommandsOK, ModemInv
    <2>2. \A i \in 1 .. Len(<<u>>) : ~Stops(<<u>>, i)
      BY <1>2, <1>4 DEF Stops
    <2>3. LinesOK(<<u>>, Len(toModem), sent, skew, pc)
      BY <1>4, <2>1, <2>2, NothingOK
    <2> QED BY <1>1, <2>3 DEF LinesInv
  <1>8. ModemInv'
    BY <1>1, <1>3 DEF ModemInv
  <1>9. InStepInv'
    <2>1. \A i \in DOMAIN toHost' : toHost'[i].type # "csim"
      BY <1>1, <1>2, <1>4
    <2> QED BY <1>1, <1>3, <2>1 DEF InStepInv, Unseen, Good
  <1> QED BY <1>5, <1>6, <1>7, <1>8, <1>9 DEF TransportInv, DataOK

(* The port fails.                                                         *)
LEMMA PortFailsKeeps == TransportInv /\ PortFails => TransportInv'
  <1> SUFFICES ASSUME TransportInv, PortFails PROVE TransportInv'
    OBVIOUS
  <1>1. /\ device = "modem" /\ toHost' = toHost /\ toModem' = toModem /\ ~up'
        /\ device' = device /\ pc' = pc /\ n' = n /\ sent' = sent /\ apdu' = apdu /\ rsp' = rsp /\ ret' = ret
        /\ skew' = skew /\ lastOk' = lastOk /\ held' = held /\ runs' = runs
    BY DEF PortFails, hostVars, cardVars
  <1>2. HostOK' /\ QueuesOK' /\ CardOK' /\ ReturnInv'
    BY <1>1 DEF TransportInv, DataOK, HostOK, Busy, QueuesOK, CardOK, ReturnInv
  <1> QED BY <1>1, <1>2 DEF TransportInv, DataOK

(* The modem works off a command.                                          *)
LEMMA ModemAnswersKeeps == TransportInv /\ ModemAnswers => TransportInv'
  <1> SUFFICES ASSUME TransportInv, ModemAnswers PROVE TransportInv'
    OBVIOUS
  <1> DEFINE m == Len(toModem)
  <1>1. PICK L : L = Len(toHost)
    OBVIOUS
  <1>2. /\ up /\ toModem # <<>> /\ toModem' = Tail(toModem) /\ up' = up
        /\ device' = device /\ pc' = pc /\ n' = n /\ sent' = sent /\ apdu' = apdu /\ rsp' = rsp /\ ret' = ret
        /\ skew' = skew /\ lastOk' = lastOk
    BY DEF ModemAnswers, hostVars
  <1>3. DataOK /\ HostOK /\ QueuesOK /\ CardOK /\ LinesInv /\ ModemInv /\ InStepInv /\ ReturnInv
    BY <1>2 DEF TransportInv, DataOK
  <1>4. PICK a : a = Head(toModem)
    OBVIOUS
  <1>5. /\ toModem \in Seq(Apdus) /\ m \in Nat /\ m >= 1 /\ a = toModem[1] /\ a \in Apdus
        /\ Tail(toModem) \in Seq(Apdus) /\ Len(Tail(toModem)) = m - 1
        /\ \A i \in 1 .. m - 1 : Tail(toModem)[i] = toModem[i + 1]
    BY <1>2, <1>3, <1>4, TailFacts DEF QueuesOK, CommandsOK
  <1>6. /\ 1 \in 1 .. m /\ a.call <= n /\ a.id <= sent /\ a.id \in Nat /\ a.id + m = sent + 1
        /\ sent \in Nat /\ skew \in Nat /\ toHost \in Seq(Lines) /\ L = Len(toHost) /\ L \in Nat
        /\ m <= sent /\ m <= skew + 1 /\ (pc \in {"idle", "drain"} => m <= skew)
    <2>1. 1 \in 1 .. m /\ DOMAIN toModem = 1 .. m
      BY <1>5
    <2>2. a.id \in Nat
      BY <1>5 DEF Apdus
    <2>3. a.call <= n /\ a.id <= sent /\ a.id + m = sent + 1
      BY <1>3, <1>5, <2>1 DEF QueuesOK, CommandsOK, ModemInv
    <2> QED BY <1>1, <1>3, <2>1, <2>2, <2>3 DEF HostOK, Busy, QueuesOK, AnswersOK, ModemInv
  <1>7. device = "modem" /\ pc # "scard" /\ device # "pcsc"
    BY <1>2, <1>3, DevicesAssumption DEF QueuesOK, HostOK, Busy
  <1>8. CommandsOK(toModem', n, sent)
    <2>1. \A i \in 1 .. m - 1 : i + 1 \in 1 .. m
      BY <1>5
    <2> QED BY <1>2, <1>3, <1>5, <2>1 DEF QueuesOK, CommandsOK
  <1>9. ModemInv'
    <2>1. DOMAIN toModem = 1 .. m /\ DOMAIN toModem' = 1 .. m - 1
      BY <1>2, <1>5
    <2>2. ASSUME NEW i \in 1 .. m - 1 PROVE toModem'[i].id + (m - 1) = sent + i
      <3>1. i + 1 \in 1 .. m /\ toModem'[i] = toModem[i + 1] /\ i \in Nat
        BY <1>2, <1>5
      <3>2. toModem[i + 1] \in Apdus
        BY <1>5, <3>1
      <3>3. toModem[i + 1].id \in Nat
        BY <3>2 DEF Apdus
      <3>4. toModem[i + 1].id + m = sent + (i + 1)
        BY <1>3, <2>1, <3>1 DEF ModemInv
      <3>5. toModem'[i].id = toModem[i + 1].id
        BY <3>1
      <3>6. toModem[i + 1].id + (m - 1) = sent + i
        <4>1. \A x, y, z \in Nat : x + y = z + (i + 1) => x + (y - 1) = z + i
          BY <3>1
        <4> QED BY <1>5, <1>6, <3>3, <3>4, <4>1
      <3> QED BY <3>5, <3>6
    <2>3. Len(toModem') = m - 1
      BY <1>2, <1>5
    <2> HIDE DEF m
    <2> QED BY <1>2, <1>5, <1>6, <2>1, <2>2, <2>3 DEF ModemInv
  <1>10. ASSUME NEW end \in {"ok", "error", "cme"}
        PROVE  Line(end) \in Lines /\ Line(end).type = end /\ Line(end).id = 0
    BY MaxCallsAssumption DEF Line, Lines, Ends
  <1>11. HostOK' /\ ReturnInv'
    BY <1>2, <1>3 DEF HostOK, Busy, ReturnInv
  <1>12. ASSUME CardOK', NEW h \in Seq(Lines), toHost' = h,
                \A i \in 1 .. L : h[i] = toHost[i],
                \/ Len(h) = L + 1 /\ h[L + 1].type \in {"error", "cme"} /\ h[L + 1].id = 0
                \/ /\ Len(h) = L + 2 /\ h[L + 1].type = "csim" /\ h[L + 1].id = a.id
                   /\ h[L + 2].type \in {"ok", "error"} /\ h[L + 2].id = 0
                   /\ skew = 0 => Good(h[L + 1])'
         PROVE  TransportInv'
    <2>1. \A i \in 1 .. Len(h) : i \in 1 .. L \/ i = L + 1 \/ (i = L + 2 /\ Len(h) = L + 2)
      BY <1>6, <1>12
    <2>2. AnswersOK(h, sent)
      <3>1. \A i \in 1 .. L : h[i].id <= sent
        BY <1>3, <1>6, <1>12 DEF QueuesOK, AnswersOK
      <3>2. h[L + 1].id <= sent /\ (Len(h) = L + 2 => h[L + 2].id <= sent)
        BY <1>6, <1>12
      <3>3. \A i \in 1 .. Len(h) : h[i].id <= sent
        BY <2>1, <3>1, <3>2
      <3> QED BY <1>12, <3>3 DEF AnswersOK
    <2>3. QueuesOK'
      BY <1>2, <1>7, <1>8, <1>12, <2>2 DEF QueuesOK
    <2>4. LinesInv'
      <3>1. h[L + 1].type = "csim" => h[L + 1].id = sent - m + 1
        BY <1>5, <1>6, <1>12
      <3>2. LinesOK(toHost, m, sent, skew, pc)
        BY <1>3 DEF LinesInv
      <3> HIDE DEF m
      <3>3. LinesOK(h, m - 1, sent, skew, pc)
        BY <1>5, <1>6, <1>12, <3>1, <3>2, AnswerOK
      <3> QED BY <1>2, <1>5, <1>12, <3>3 DEF LinesInv
    <2>5. InStepInv'
      <3> SUFFICES ASSUME skew = 0 PROVE InStepInv'
        BY <1>2 DEF InStepInv
      <3>1. m = 1 /\ pc \notin {"idle", "drain"} /\ toModem' = <<>>
        <4>1. m = 1 /\ pc \notin {"idle", "drain"}
          BY <1>5, <1>6
        <4>2. Len(toModem') = 0 /\ toModem' \in Seq(Apdus)
          BY <1>2, <1>5, <4>1
        <4> QED BY <4>1, <4>2
      <3>2. \A i \in 1 .. L : ~Stops(toHost, i)
        BY <1>3, <1>6, <3>1, NoStops DEF LinesInv
      <3>3. ASSUME NEW i \in DOMAIN toHost', toHost'[i].type = "csim" PROVE Good(toHost[i])'
        <4>1. i \in 1 .. Len(h) /\ h[i].type = "csim"
          BY <1>12, <3>3
        <4>2. i \notin 1 .. L
          BY <1>12, <3>2, <4>1 DEF Stops
        <4>3. i = L + 1
          BY <1>12, <2>1, <4>1, <4>2
        <4>4. Good(h[L + 1])'
          BY <1>12, <4>1, <4>3
        <4> QED BY <1>12, <4>3, <4>4 DEF Good
      <3> QED BY <1>2, <1>3, <1>7, <3>1, <3>3 DEF InStepInv, Good
    <2> QED BY <1>9, <1>11, <1>12, <2>3, <2>4, <2>5 DEF TransportInv, DataOK
  <1>13. ASSUME NEW end \in {"error", "cme"}, CardOK', toHost' = Append(toHost, Line(end))
         PROVE  TransportInv'
    <2>1. Line(end) \in Lines /\ Line(end).type = end /\ Line(end).id = 0
      BY <1>10
    <2>2. PICK h : h = Append(toHost, Line(end))
      OBVIOUS
    <2>3. /\ h \in Seq(Lines) /\ Len(h) = L + 1 /\ h[L + 1] = Line(end)
          /\ \A i \in 1 .. L : h[i] = toHost[i]
      BY <1>6, <2>1, <2>2, AppendFacts
    <2>4. toHost' = h /\ h[L + 1].type \in {"error", "cme"} /\ h[L + 1].id = 0
      BY <1>13, <2>1, <2>2, <2>3
    <2> QED BY <1>12, <1>13, <2>3, <2>4
  <1>14. ASSUME NEW sw \in CardStatus(a), CardRuns(a, sw)
         PROVE  CardOK' /\ CardResponse(a, sw) \in Lines /\ CardResponse(a, sw).type = "csim" /\ CardResponse(a, sw).id = a.id
    BY <1>2, <1>3, <1>5, <1>6, <1>14, CardEffect DEF CardOK
  <1>15. ASSUME NEW sw \in CardStatus(a), NEW end \in {"ok", "error"}, CardRuns(a, sw),
                toHost' = toHost \o <<CardResponse(a, sw), Line(end)>>
         PROVE  TransportInv'
    <2>1. PICK l : l = CardResponse(a, sw)
      OBVIOUS
    <2>2. CardOK' /\ l \in Lines /\ l.type = "csim" /\ l.id = a.id
      BY <1>14, <1>15, <2>1
    <2>3. Line(end) \in Lines /\ Line(end).type = end /\ Line(end).id = 0
      BY <1>10
    <2>4. PICK h : h = toHost \o <<l, Line(end)>>
      OBVIOUS
    <2>5. /\ h \in Seq(Lines) /\ Len(h) = L + 2 /\ h[L + 1] = l /\ h[L + 2] = Line(end)
          /\ \A i \in 1 .. L : h[i] = toHost[i]
      BY <1>6, <2>2, <2>3, <2>4, PairFacts
    <2>6. skew = 0 => Good(h[L + 1])'
      <3> SUFFICES ASSUME skew = 0 PROVE Good(h[L + 1])'
        OBVIOUS
      <3>1. Unseen /\ a = apdu
        BY <1>2, <1>3, <1>5 DEF InStepInv
      <3>2. sw \in CardStatus(apdu) /\ CardRuns(apdu, sw) /\ l = CardResponse(apdu, sw)
        BY <1>15, <2>1, <3>1
      <3>3. Good(l)'
        BY <1>2, <1>3, <3>1, <3>2, UnseenAnswered
      <3> QED BY <2>5, <3>3 DEF Good
    <2>7. toHost' = h
      BY <1>15, <2>1, <2>4
    <2>8. h[L + 1].type = "csim" /\ h[L + 1].id = a.id /\ h[L + 2].type \in {"ok", "error"} /\ h[L + 2].id = 0
      BY <2>2, <2>3, <2>5
    <2> QED BY <1>12, <2>2, <2>5, <2>6, <2>7, <2>8
  <1>16. ASSUME NEW end \in {"error", "cme"}, toHost' = Append(toHost, Line(end)), UNCHANGED cardVars
         PROVE  TransportInv'
    <2>1. CardOK'
      BY <1>2, <1>3, <1>16 DEF CardOK, cardVars
    <2> QED BY <1>13, <1>16, <2>1
  <1> HIDE DEF m
  <1>17. \/ \E sw \in CardStatus(a), end \in {"ok", "error"} :
               CardRuns(a, sw) /\ toHost' = toHost \o <<CardResponse(a, sw), Line(end)>>
         \/ \E sw \in CardStatus(a), end \in {"error", "cme"} :
               CardRuns(a, sw) /\ toHost' = Append(toHost, Line(end))
         \/ \E end \in {"error", "cme"} : toHost' = Append(toHost, Line(end)) /\ UNCHANGED cardVars
    BY <1>4, Zenon DEF ModemAnswers
  <1> QED BY <1>13, <1>14, <1>15, <1>16, <1>17

(* Every step keeps the invariant.                                         *)
LEMMA StepKeeps == TransportInv /\ [Next]_vars => TransportInv'
  <1> SUFFICES ASSUME TransportInv, [Next]_vars PROVE TransportInv'
    OBVIOUS
  <1>1. ASSUME UNCHANGED vars PROVE TransportInv'
    <2>1. /\ device' = device /\ pc' = pc /\ n' = n /\ sent' = sent /\ apdu' = apdu /\ rsp' = rsp /\ ret' = ret
          /\ skew' = skew /\ lastOk' = lastOk /\ toModem' = toModem /\ toHost' = toHost /\ up' = up
          /\ held' = held /\ runs' = runs
      BY <1>1 DEF vars, hostVars, modemVars, cardVars
    <2>2. DataOK' /\ ReturnInv'
      BY <2>1 DEF TransportInv, DataOK, HostOK, Busy, QueuesOK, CardOK, ReturnInv
    <2>3. up => LinesInv' /\ ModemInv' /\ InStepInv'
      BY <2>1 DEF TransportInv, LinesInv, ModemInv, InStepInv, Unseen, Good, Ran
    <2> QED BY <2>1, <2>2, <2>3 DEF TransportInv
  <1>2. CASE PcscOpen
    <2>1. Opened \/ UNCHANGED vars
      BY <1>2 DEF PcscOpen
    <2> QED BY <1>1, <1>2, <2>1, PcscOpenKeeps
  <1>3. CASE Next /\ ~PcscOpen
    BY <1>3, StartKeeps, NoPortKeeps, DieKeeps, TransmitKeeps, AwaitCsimKeeps, DrainOkKeeps, PcscTransmitKeeps,
       ModemAnswersKeeps, OtherLineKeeps, PortFailsKeeps DEF Next, Program
  <1> QED BY <1>1, <1>2, <1>3

----------------------------------------------------------------------------
(* The unread lines, the commands on their way and the response buffer     *)
(* stay in the relation that sendATCSIM, SCardTransmit and the modem's     *)
(* order of work give them, for any number of calls and of programs that   *)
(* died with answers outstanding.                                          *)
THEOREM TransportInvariant == Spec => []TransportInv
  BY InitInv, StepKeeps, PTL DEF Spec

(* A transmit() that succeeds returns a response that is no further behind *)
(* than the answers that were outstanding when the port was opened, and    *)
(* its own when there were none.                                           *)
THEOREM InStepHolds == Spec => []InStep
  <1>1. TransportInv => InStep
    <2> SUFFICES ASSUME TransportInv, pc = "idle", ret = "answered"
                 PROVE  sent - rsp.id <= skew /\ (skew = 0 => rsp.call = n)
      BY DEF InStep
    <2>1. sent \in Nat /\ skew \in Nat /\ rsp \in Lines
      BY DEF TransportInv, DataOK, HostOK, Busy
    <2>2. rsp.id \in Nat
      BY <2>1 DEF Lines
    <2>3. sent <= rsp.id + skew /\ (skew = 0 => rsp.call = n)
      BY DEF TransportInv, ReturnInv
    <2> QED BY <2>1, <2>2, <2>3
  <1> QED BY <1>1, TransportInvariant, PTL

(* getResponse() copies the data of the last transmit() that succeeded, or *)
(* none: a failure, in a repetition too, never leaves the data of a failed *)
(* command in the buffer.                                                  *)
THEOREM ResponseIsLastGoodHolds == Spec => []ResponseIsLastGood
  <1>1. TransportInv => ResponseIsLastGood
    BY DEF TransportInv, ReturnInv, ResponseIsLastGood, getResponse
  <1> QED BY <1>1, TransportInvariant, PTL

----------------------------------------------------------------------------
(* How often the card has run the command, after it has seen the APDU of   *)
(* the call in progress: once if its response says so.                     *)
LEMMA RunsOnce ==
    ASSUME DataOK, Unseen, NEW sw \in CardStatus(apdu), CardRuns(apdu, sw), n' = n
    PROVE  /\ runs'[n] = runs[n] \/ (runs[n] = 0 /\ runs'[n] = 1)
           /\ sw # "6C" => runs'[n] = Ran(apdu)
           /\ sw = "6C" => runs'[n] = runs[n]
           /\ CardResponse(apdu, sw).sw = sw
  <1>1. /\ runs'[n] = IF apdu.call = n /\ apdu.ins = "cmd" /\ apdu.lc = "right" /\ sw # "6C" THEN runs[n] + 1 ELSE runs[n]
        /\ CardResponse(apdu, sw).sw = sw
    BY CardEffect DEF DataOK, HostOK, Busy
  <1>2. apdu.ins \in {"cmd", "get"}
    BY DEF DataOK, HostOK, Busy, Apdus
  <1> QED BY <1>1, <1>2 DEF Unseen, Ran

(* A program that is not in step may do anything.                          *)
LEMMA OutOfStep ==
    ASSUME DataOK, skew # 0, skew' = skew
    PROVE  Abstract!Void
  <1>1. skew \in Nat
    BY DEF DataOK, HostOK, Busy
  <1> QED BY <1>1 DEF Abstract!Void

(* A step of the exchange, as ApduExchange sees it.                        *)
LEMMA ExchangeEnds ==
    ASSUME Busy, pc' = "idle", ret' \in {"answered", "lost"}, n' = n, skew' = skew, apdu' = apdu,
           runs'[n] = runs[n] \/ (runs[n] = 0 /\ runs'[n] = 1),
           ret' = "answered" => runs'[n] = 1 \/ apdu.lc = "wrong"
    PROVE  Abstract!End
  BY DEF Abstract!End, Busy

(* A step in which the exchange goes on; the card may run the command.     *)
LEMMA ExchangeGoesOn ==
    ASSUME Busy \/ pc = "closed", Busy => Busy', pc = "closed" => pc' = "closed",
           ret' = ret, n' = n, skew' = skew, apdu'.lc = apdu.lc,
           runs'[n] = runs[n] \/ (runs[n] = 0 /\ runs'[n] = 1)
    PROVE  Abstract!Run \/ UNCHANGED Abstract!vars
  BY DEF Abstract!Run, Abstract!vars, Busy

(* transmit() has looked at a response and sends again.                    *)
LEMMA ExchangeRepeats ==
    ASSUME DataOK, Busy, NEW r, NEW a \in Apdus, transmitApdu(a), Follows(a, r),
           ret' = ret, n' = n, skew' = skew,
           runs'[n] = runs[n] \/ (runs[n] = 0 /\ runs'[n] = 1),
           r.sw = "6C" => runs'[n] = runs[n] /\ (apdu.ins = "cmd" => runs[n] = 0)
    PROVE  Abstract!Next \/ UNCHANGED Abstract!vars
  <1>1. pc' \in {"await", "scard"} /\ apdu'.lc = a.lc /\ Busy'
    BY SendEffect DEF transmitApdu, Busy
  <1>2. CASE a.lc = apdu.lc
    BY <1>1, <1>2, ExchangeGoesOn DEF Abstract!Next, Busy
  <1>3. CASE a.lc = "wrong" /\ r.sw = "6C" /\ apdu.ins = "cmd"
    <2>1. runs[n] = 0 /\ runs'[n] = runs[n] /\ apdu'.lc = "wrong"
      BY <1>1, <1>3
    <2>2. Abstract!Spoil
      BY <1>1, <2>1 DEF Abstract!Spoil, Busy
    <2> QED BY <2>2 DEF Abstract!Next
  <1> QED BY <1>2, <1>3 DEF Follows

(* Every step of the transport is a step of ApduExchange or none.          *)
LEMMA ExchangeStep == TransportInv /\ [Next]_vars => [Abstract!Next]_Abstract!vars
  <1> SUFFICES ASSUME TransportInv, Next PROVE Abstract!Next \/ UNCHANGED Abstract!vars
    <2>1. UNCHANGED vars => UNCHANGED Abstract!vars
      BY DEF vars, hostVars, modemVars, cardVars, Abstract!vars
    <2> QED BY <2>1
  <1>1. DataOK /\ HostOK /\ QueuesOK /\ CardOK /\ ReturnInv
    BY DEF TransportInv, DataOK
  <1>2. Abstract!Start \/ Abstract!Begin \/ Abstract!Run \/ Abstract!End \/ Abstract!Die \/ Abstract!Void => Abstract!Next
    BY DEF Abstract!Next
  <1>3. CASE start \/ PcscOpen
    <2>1. CASE Opened
      <3>1. pc = "closed" /\ pc' = "idle" /\ ret' = "none" /\ n' = n /\ runs' = runs /\ apdu' = NoApdu
        BY <1>3, <2>1 DEF start, PcscOpen, Opened, cardVars
      <3>2. ret = "none" /\ NoApdu.lc = "right"
        BY <1>1, <3>1 DEF ReturnInv, NoApdu, Command
      <3>3. Abstract!Start
        BY <3>1, <3>2 DEF Abstract!Start
      <3> QED BY <1>2, <3>3
    <2>2. CASE ~Opened
      <3>1. pc' = pc /\ ret' = ret /\ n' = n /\ runs' = runs /\ skew' = skew /\ apdu' = apdu
        BY <1>3, <2>2 DEF start, PcscOpen, vars, hostVars, cardVars
      <3> QED BY <3>1 DEF Abstract!vars
    <2> QED BY <2>1, <2>2
  <1>4. CASE Die
    <2>1. pc # "closed" /\ pc' = "closed" /\ ret' = "none" /\ n' = n /\ runs' = runs /\ skew' = skew /\ apdu' = apdu
      BY <1>4 DEF Die, cardVars
    <2>2. Abstract!Die
      BY <2>1 DEF Abstract!Die
    <2> QED BY <1>2, <2>2
  <1>5. ASSUME NEW k \in Cases, transmit(k) PROVE Abstract!Next
    <2>1. pc = "idle" /\ n < MaxCalls /\ n' = n + 1 /\ ret' = "none" /\ runs' = runs /\ skew' = skew /\ pc' \in {"await", "scard"}
      BY <1>5 DEF transmit, transmitApdu, cardVars
    <2>2. runs[n + 1] = 0
      <3>1. n + 1 \in 0 .. MaxCalls /\ n + 1 > n
        BY <1>1, <2>1, MaxCallsAssumption DEF HostOK, Busy
      <3> QED BY <1>1, <3>1 DEF CardOK
    <2>3. apdu'.lc = "right"
      BY <1>5 DEF transmit, transmitApdu, Command
    <2>4. Abstract!Begin
      BY <2>1, <2>2, <2>3 DEF Abstract!Begin
    <2> QED BY <1>2, <2>4
  <1>6. CASE OtherLine \/ PortFails
    <2>1. pc' = pc /\ ret' = ret /\ n' = n /\ runs' = runs /\ skew' = skew /\ apdu' = apdu
      BY <1>6 DEF OtherLine, PortFails, hostVars, cardVars
    <2> QED BY <2>1 DEF Abstract!vars
  <1>7. CASE AwaitCsim
    <2>1. pc = "await" /\ n' = n /\ skew' = skew /\ runs' = runs /\ apdu' = apdu
      BY <1>7 DEF AwaitCsim, Return, readLine, cardVars
    <2>2. \/ pc' = "idle" /\ ret' = "lost"
          \/ pc' \in {"await", "drain"} /\ ret' = ret
      BY <1>7, <2>1 DEF AwaitCsim, Return
    <2>3. CASE pc' = "idle" /\ ret' = "lost"
      BY <1>2, <2>1, <2>3, ExchangeEnds DEF Busy
    <2>4. CASE pc' \in {"await", "drain"} /\ ret' = ret
      BY <1>2, <2>1, <2>4, ExchangeGoesOn DEF Busy
    <2> QED BY <2>2, <2>3, <2>4
  <1>8. CASE DrainOk
    <2>1. pc = "drain" /\ up /\ n' = n /\ skew' = skew /\ runs' = runs
      BY <1>8 DEF DrainOk, readLine, cardVars
    <2>2. CASE skew # 0
      BY <1>1, <1>2, <2>1, <2>2, OutOfStep
    <2>3. CASE skew = 0
      <3>1. Good(rsp)
        BY <2>1, <2>3 DEF TransportInv, InStepInv
      <3>2. CASE HandleResponse(rsp)
        <4>1. CASE /\ rsp.sw \in {"6C", "61"} /\ ret' = ret /\ lastOk' = lastOk
                   /\ \E a \in Apdus : transmitApdu(a) /\ Follows(a, rsp)
          <5>1. PICK a \in Apdus : transmitApdu(a) /\ Follows(a, rsp)
            BY <4>1
          <5>2. rsp.sw = "6C" /\ apdu.ins = "cmd" => runs[n] = 0
            BY <3>1 DEF Good
          <5> QED BY <1>1, <2>1, <4>1, <5>1, <5>2, ExchangeRepeats DEF Busy
        <4>2. CASE rsp.sw \notin {"6C", "61"} /\ pc' = "idle" /\ ret' = "answered" /\ apdu' = apdu
          <5>1. apdu.lc \in {"right", "wrong"}
            BY <1>1 DEF HostOK, Apdus
          <5>2. runs'[n] = runs[n] /\ (runs[n] = 1 \/ apdu.lc = "wrong")
            BY <2>1, <3>1, <4>2, <5>1 DEF Good, Ran
          <5> QED BY <1>2, <2>1, <4>2, <5>2, ExchangeEnds DEF Busy
        <4> QED BY <1>1, <3>2, <4>1, <4>2, HandleEffect
      <3>3. CASE pc' = pc /\ ret' = ret /\ apdu' = apdu
        BY <1>2, <2>1, <3>3, ExchangeGoesOn DEF Busy
      <3> QED BY <1>8, <3>2, <3>3 DEF DrainOk
    <2> QED BY <2>2, <2>3
  <1>9. CASE PcscTransmit
    <2>1. pc = "scard" /\ n' = n /\ skew' = skew
      BY <1>9 DEF PcscTransmit
    <2>2. Unseen
      BY <1>1, <2>1, DevicesAssumption DEF TransportInv, InStepInv, HostOK, Busy, QueuesOK
    <2>3. ASSUME NEW sw \in CardStatus(apdu), CardRuns(apdu, sw), rsp' = CardResponse(apdu, sw), HandleResponse(rsp')
          PROVE  Abstract!Next \/ UNCHANGED Abstract!vars
      <3>1. /\ runs'[n] = runs[n] \/ (runs[n] = 0 /\ runs'[n] = 1)
            /\ sw # "6C" => runs'[n] = Ran(apdu)
            /\ sw = "6C" => runs'[n] = runs[n]
            /\ rsp'.sw = sw
        BY <1>1, <2>1, <2>2, <2>3, RunsOnce
      <3>2. PICK r : r = rsp'
        OBVIOUS
      <3>3. HandleResponse(r)
        BY <2>3, <3>2 DEF HandleResponse, transmitApdu, Return
      <3>4. CASE /\ r.sw \in {"6C", "61"} /\ ret' = ret /\ lastOk' = lastOk
                 /\ \E a \in Apdus : transmitApdu(a) /\ Follows(a, r)
        <4>1. PICK a \in Apdus : transmitApdu(a) /\ Follows(a, r)
          BY <3>4
        <4>2. r.sw = "6C" => runs'[n] = runs[n] /\ (apdu.ins = "cmd" => runs[n] = 0)
          BY <2>2, <3>1, <3>2 DEF Unseen
        <4> QED BY <1>1, <2>1, <3>1, <3>4, <4>1, <4>2, ExchangeRepeats DEF Busy
      <3>5. CASE r.sw \notin {"6C", "61"} /\ pc' = "idle" /\ ret' = "answered" /\ apdu' = apdu
        <4>1. apdu.lc \in {"right", "wrong"}
          BY <1>1 DEF HostOK, Apdus
        <4>2. runs'[n] = 1 \/ apdu.lc = "wrong"
          BY <3>1, <3>2, <3>5, <4>1 DEF Ran
        <4> QED BY <1>2, <2>1, <3>1, <3>5, <4>2, ExchangeEnds DEF Busy
      <3> QED BY <1>1, <3>3, <3>4, <3>5, HandleEffect
    <2>4. ASSUME NEW sw \in CardStatus(apdu), CardRuns(apdu, sw), Return("lost")
          PROVE  Abstract!Next \/ UNCHANGED Abstract!vars
      <3>1. runs'[n] = runs[n] \/ (runs[n] = 0 /\ runs'[n] = 1)
        BY <1>1, <2>1, <2>2, <2>4, RunsOnce
      <3>2. pc' = "idle" /\ ret' = "lost" /\ apdu' = apdu
        BY <2>4 DEF Return
      <3> QED BY <1>2, <2>1, <3>1, <3>2, ExchangeEnds DEF Busy
    <2>5. CASE Return("lost") /\ UNCHANGED <<rsp, cardVars>>
      <3>1. pc' = "idle" /\ ret' = "lost" /\ runs' = runs /\ apdu' = apdu
        BY <2>5 DEF Return, cardVars
      <3> QED BY <1>2, <2>1, <3>1, ExchangeEnds DEF Busy
    <2> QED BY <1>9, <2>3, <2>4, <2>5 DEF PcscTransmit
  <1>10. CASE ModemAnswers
    <2>1. up /\ toModem # <<>> /\ pc' = pc /\ ret' = ret /\ n' = n /\ skew' = skew /\ apdu' = apdu
      BY <1>10 DEF ModemAnswers, hostVars
    <2>2. CASE skew # 0
      BY <1>1, <1>2, <2>1, <2>2, OutOfStep
    <2>3. CASE skew = 0
      <3>1. Unseen /\ toModem[1] = apdu
        BY <2>1, <2>3 DEF TransportInv, InStepInv
      <3>2. Head(toModem) = apdu
        BY <1>1, <2>1, <3>1, TailFacts DEF QueuesOK, CommandsOK
      <3>3. runs' = runs \/ \E sw \in CardStatus(apdu) : CardRuns(apdu, sw)
        BY <1>10, <3>2, Zenon DEF ModemAnswers, cardVars
      <3>4. runs'[n] = runs[n] \/ (runs[n] = 0 /\ runs'[n] = 1)
        BY <1>1, <2>1, <3>1, <3>3, RunsOnce
      <3>5. Busy \/ pc = "closed"
        <4>1. Len(toModem) >= 1 /\ Len(toModem) \in Nat
          BY <1>1, <2>1, TailFacts DEF QueuesOK, CommandsOK
        <4>2. pc # "idle"
          BY <2>1, <2>3, <4>1 DEF TransportInv, ModemInv
        <4> QED BY <1>1, <4>2 DEF HostOK, Busy
      <3> QED BY <1>2, <2>1, <3>4, <3>5, ExchangeGoesOn DEF Busy
    <2> QED BY <2>2, <2>3
  <1> QED BY <1>3, <1>4, <1>5, <1>6, <1>7, <1>8, <1>9, <1>10 DEF Next, Program

(* transmit() over a modem or a reader implements the exchange the applets *)
(* are written for: the card runs a command at most once, and true means   *)
(* that it was run and answered, unless the length of its data was written *)
(* over after a 6Cxx or the port was opened with answers outstanding.      *)
THEOREM ImplementsExchangeHolds == Spec => ImplementsExchange
  <1>1. Init => Abstract!Init
    BY MaxCallsAssumption DEF Init, Abstract!Init, NoApdu, Command
  <1> QED BY <1>1, ExchangeStep, TransportInvariant, PTL DEF Spec, ImplementsExchange, Abstract!Spec

----------------------------------------------------------------------------
FlagsOK == up \in BOOLEAN /\ strange \in BOOLEAN

(* The variables have their types.                                         *)
THEOREM TypeOKHolds == Spec => []TypeOK
  <1>1. Init => FlagsOK
    BY Zenon DEF Init, FlagsOK
  <1>2. ASSUME FlagsOK, [Next]_vars PROVE FlagsOK'
    <2>1. CASE UNCHANGED vars
      BY <1>2, <2>1, Zenon DEF FlagsOK, vars, hostVars, modemVars
    <2>2. CASE Next
      <3>1. CASE start \/ PcscOpen \/ Die \/ \E k \in Cases : transmit(k)
        BY <1>2, <3>1, Zenon DEF FlagsOK, start, PcscOpen, Opened, Die, transmit, vars, hostVars, modemVars
      <3>2. CASE AwaitCsim
        BY <1>2, <3>2, Zenon DEF FlagsOK, AwaitCsim, readLine
      <3>3. CASE DrainOk
        BY <1>2, <3>3, Zenon DEF FlagsOK, DrainOk, readLine
      <3>4. CASE PcscTransmit
        BY <1>2, <3>4, Zenon DEF FlagsOK, PcscTransmit
      <3>5. CASE ModemAnswers \/ OtherLine
        BY <1>2, <3>5, Zenon DEF FlagsOK, ModemAnswers, OtherLine, hostVars
      <3>6. CASE PortFails
        BY <1>2, <3>6, Zenon DEF FlagsOK, PortFails, hostVars
      <3> QED BY <2>2, <3>1, <3>2, <3>3, <3>4, <3>5, <3>6 DEF Next, Program
    <2> QED BY <1>2, <2>1, <2>2
  <1>3. TransportInv /\ FlagsOK => TypeOK
    <2> SUFFICES ASSUME TransportInv, FlagsOK PROVE TypeOK
      OBVIOUS
    <2>1. HostOK /\ QueuesOK /\ CardOK
      BY DEF TransportInv, DataOK
    <2>2. apdu.kind \in 1 .. 4 /\ apdu.ins \in {"cmd", "get"} /\ apdu.lc \in {"right", "wrong"} /\ apdu.reps \in Nat
      BY <2>1 DEF HostOK, Apdus
    <2>3. rsp.sw \in {"none", "final", "61", "6C"}
      BY <2>1 DEF HostOK, Lines
    <2>4. \A i \in DOMAIN toModem : toModem[i].id <= sent
      BY <2>1 DEF QueuesOK, CommandsOK
    <2>5. \A i \in DOMAIN toHost : toHost[i].type \in Ends \cup {"csim"}
      <3>1. \A i \in DOMAIN toHost : toHost[i] \in Lines
        BY <2>1 DEF QueuesOK, AnswersOK
      <3> QED BY <3>1 DEF Lines
    <2>6. apdu.call = n \/ pc \in {"closed", "idle"}
      BY <2>1 DEF HostOK, Busy
    <2>7. up \in BOOLEAN /\ strange \in BOOLEAN
      BY Zenon DEF FlagsOK
    <2>8. /\ device \in Devices /\ n \in 0 .. MaxCalls /\ sent \in Nat
          /\ pc \in {"closed", "idle", "await", "drain", "scard"} /\ rsp.id <= sent
          /\ ret \in {"none", "answered", "lost"} /\ skew \in Nat /\ lastOk \in 0 .. n
          /\ held \in 0 .. n /\ runs \in [0 .. MaxCalls -> Nat]
      BY <2>1 DEF HostOK, CardOK
    <2> QED BY <2>2, <2>3, <2>4, <2>5, <2>6, <2>7, <2>8, Zenon DEF TypeOK
  <1> QED BY <1>1, <1>2, <1>3, TransportInvariant, PTL DEF Spec
=============================================================================
