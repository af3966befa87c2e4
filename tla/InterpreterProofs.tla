-------------------------- MODULE InterpreterProofs --------------------------
(***************************************************************************)
(* Proofs about Interpreter, for every program: any procs, exception       *)
(* checks, statics and instances, and any depth of calls and recursion.    *)
(***************************************************************************)
EXTENDS Interpreter, SequenceTheorems, NaturalsInduction, WellFoundedInduction, TLAPS

-----------------------------------------------------------------------------
(* The invariant.                                                          *)

Cells == Statics \cup Instances
Kinds == {"value", "ref"}
Operands == [from : Procs, depth : Nat, kind : Kinds]
Frames == [proc : Procs, returnIP : Nat, returns : BOOLEAN, guard : Nat]
Machines == [calls : Seq(Frames), ip : Nat, data : Seq(Operands)]

\* The operands of m lie above the guards of their own call and below those of
\* the calls that it has made. Only the main call returns to nowhere.
Balanced(m) ==
    /\ m \in Machines
    /\ \A k \in 1 .. Len(m.data) : m.data[k].depth <= Len(m.calls)
    /\ \A n \in 1 .. Len(m.calls) :
          /\ m.calls[n].guard <= Len(m.data)
          /\ m.calls[n].returnIP = 0 <=> n = 1
          /\ \A k \in 1 .. Len(m.data) :
                k <= m.calls[n].guard <=> m.data[k].depth < n

\* The loops that are active: each but the first was entered for a cell, by the
\* call of its initializer. A static's initializer returns a value, and below the
\* guard of an instance's there is the object, which belongs to the caller.
Entered(cs, gs, ns) ==
    /\ gs \in Seq(Nat) /\ Len(gs) > 0 /\ gs[1] = 1
    /\ ns \in Seq({Main} \cup Cells) /\ Len(ns) = Len(gs) /\ ns[1] = Main
    /\ \A n \in 1 .. Len(gs) : gs[n] \in 1 .. Len(cs)
    /\ \A i, j \in 1 .. Len(gs) : i < j => gs[i] < gs[j]
    /\ cs[1].proc = Main
    /\ \A n \in 2 .. Len(gs) :
          /\ ns[n] \in Cells
          /\ cs[gs[n]].proc = Initializer[ns[n]]
          /\ ns[n] \in Statics => cs[gs[n]].returns
          /\ ns[n] \in Instances => cs[gs[n] - 1].guard < cs[gs[n]].guard

Typed ==
    /\ status \in {"running", "halted", "error"}
    /\ cells \in [Cells -> Operands \cup {None}]

IInv ==
    /\ Typed
    /\ CellsHoldTheirResult
    /\ status = "running" =>
          /\ Balanced(Machine)
          /\ guards # << >>
          /\ CheckGuard => Entered(calls, guards, natives)

-----------------------------------------------------------------------------
(* Sequences.                                                              *)

LEMMA Ends ==
    ASSUME NEW S, NEW s \in Seq(S), Len(s) > 0
    PROVE  /\ Len(s) \in Nat /\ Last(s) = s[Len(s)] /\ Last(s) \in S
           /\ Front(s) \in Seq(S) /\ Len(Front(s)) = Len(s) - 1
           /\ \A i \in 1 .. Len(s) - 1 : Front(s)[i] = s[i]
<1> DEFINE n == Len(s)
<1>1. n \in Nat /\ n \in 1 .. n
  BY LenProperties
<1>2. s[n] \in S
  BY <1>1, ElementOfSeq
<1>3. \A i \in 1 .. n - 1 : i \in 1 .. n
  <2>1. n \in Nat
    BY <1>1
  <2> HIDE DEF n
  <2> QED  BY <2>1
<1>4. \A i \in 1 .. n - 1 : s[i] \in S
  BY <1>3, ElementOfSeq
<1>5. /\ SubSeq(s, 1, n - 1) \in Seq(S) /\ Len(SubSeq(s, 1, n - 1)) = n - 1
      /\ \A i \in 1 .. n - 1 : SubSeq(s, 1, n - 1)[i] = s[i]
  <2>1. n - 1 \in Int /\ 1 \in Int /\ (n - 1) - 1 + 1 = n - 1
        /\ (IF 1 <= n - 1 THEN (n - 1) - 1 + 1 ELSE 0) = n - 1
    <3>1. n \in Nat /\ n > 0
      BY <1>1
    <3> HIDE DEF n
    <3> QED  BY <3>1
  <2>2. \A i \in Int : 1 + i - 1 = i
    OBVIOUS
  <2> QED  BY <1>4, <2>1, <2>2, SubSeqProperties
<1> QED  BY <1>1, <1>2, <1>5 DEF Last, Front

LEMMA Prefix ==
    ASSUME NEW S, NEW s \in Seq(S), NEW k \in 0 .. Len(s)
    PROVE  /\ SubSeq(s, 1, k) \in Seq(S) /\ Len(SubSeq(s, 1, k)) = k
           /\ \A i \in 1 .. k : SubSeq(s, 1, k)[i] = s[i]
<1>1. Len(s) \in Nat
  BY LenProperties
<1>2. \A i \in 1 .. k : i \in 1 .. Len(s)
  BY <1>1
<1>3. \A i \in 1 .. k : s[i] \in S
  BY <1>2, ElementOfSeq
<1>4. k \in Int /\ 1 \in Int /\ k - 1 + 1 = k /\ (IF 1 <= k THEN k - 1 + 1 ELSE 0) = k
  BY <1>1
<1>5. \A i \in Int : 1 + i - 1 = i
  OBVIOUS
<1> QED  BY <1>3, <1>4, <1>5, SubSeqProperties

LEMMA Longer ==
    ASSUME NEW S, NEW s \in Seq(S), NEW x \in S
    PROVE  /\ Append(s, x) \in Seq(S) /\ Len(Append(s, x)) = Len(s) + 1
           /\ \A i \in 1 .. Len(s) : Append(s, x)[i] = s[i]
           /\ Append(s, x)[Len(s) + 1] = x /\ Last(Append(s, x)) = x
BY AppendProperties, LenProperties DEF Last

-----------------------------------------------------------------------------
(* Returning from a call.                                                  *)

LEMMA Parts ==
    ASSUME NEW m \in Machines
    PROVE  /\ m.calls \in Seq(Frames) /\ Len(m.calls) \in Nat
           /\ m.data \in Seq(Operands) /\ Len(m.data) \in Nat
           /\ m.ip \in Nat
           /\ \A n \in 1 .. Len(m.calls) :
                 /\ m.calls[n] \in Frames /\ m.calls[n].proc \in Procs
                 /\ m.calls[n].returnIP \in Nat /\ m.calls[n].guard \in Nat
                 /\ m.calls[n].returns \in BOOLEAN
           /\ \A k \in 1 .. Len(m.data) :
                 /\ m.data[k] \in Operands /\ m.data[k].depth \in Nat
                 /\ m.data[k].kind \in Kinds /\ m.data[k].from \in Procs
<1>1. /\ m.calls \in Seq(Frames) /\ m.data \in Seq(Operands) /\ m.ip \in Nat
  BY DEF Machines
<1>2. Len(m.calls) \in Nat /\ Len(m.data) \in Nat
  BY <1>1, LenProperties
<1>3. \A n \in 1 .. Len(m.calls) : m.calls[n] \in Frames
  BY <1>1, ElementOfSeq
<1>4. \A k \in 1 .. Len(m.data) : m.data[k] \in Operands
  BY <1>1, ElementOfSeq
<1> QED  BY <1>1, <1>2, <1>3, <1>4 DEF Frames, Operands

\* The guards of the calls rise with the stack.
LEMMA GuardsRise ==
    ASSUME NEW m, Balanced(m), NEW n \in 1 .. Len(m.calls), NEW o \in 1 .. Len(m.calls), n <= o
    PROVE  m.calls[n].guard <= m.calls[o].guard
<1> DEFINE k == m.calls[n].guard
<1>1. /\ Len(m.calls) \in Nat /\ m.calls[n] \in Frames /\ m.calls[o] \in Frames
      /\ m.data \in Seq(Operands) /\ Len(m.data) \in Nat
  BY ElementOfSeq, LenProperties DEF Balanced, Machines
<1>2. k \in Nat /\ m.calls[o].guard \in Nat
  BY <1>1 DEF Frames
<1>3. CASE k = 0
  BY <1>2, <1>3
<1>4. CASE k # 0
  <2>1. k \in 1 .. Len(m.data)
    BY <1>1, <1>2, <1>4 DEF Balanced
  <2>2. m.data[k].depth < n
    BY <1>2, <2>1 DEF Balanced
  <2>3. m.data[k].depth \in Nat
    BY <2>1, Parts DEF Balanced
  <2>4. m.data[k].depth < o
    BY <2>2, <2>3
  <2> QED  BY <2>1, <2>4 DEF Balanced
<1> QED  BY <1>3, <1>4

\* What a return leaves of the operands: those below the guard, and at most the
\* result on top.
ReturnedData(m, d) ==
    LET frame == m.calls[Len(m.calls)]
        g == frame.guard
        result == [from |-> frame.proc, depth |-> Len(m.calls) - 1,
                   kind |-> m.data[Len(m.data)].kind]
    IN /\ d \in Seq(Operands)
       /\ Len(d) = IF Len(m.data) > g /\ frame.returns THEN g + 1 ELSE g
       /\ \A k \in 1 .. g : d[k] = m.data[k]
       /\ Len(m.data) > g /\ frame.returns => d[g + 1] = result

LEMMA ReturnDrops ==
    ASSUME NEW m, Balanced(m), Len(m.calls) > 0
    PROVE  /\ ReturnToCaller(m).calls = Front(m.calls)
           /\ ReturnToCaller(m).ip = m.calls[Len(m.calls)].returnIP
           /\ ReturnToCaller(m) = [calls |-> ReturnToCaller(m).calls, ip |-> ReturnToCaller(m).ip,
                                   data |-> ReturnToCaller(m).data]
           /\ ReturnedData(m, ReturnToCaller(m).data)
<1> DEFINE l == Len(m.calls)
           frame == m.calls[l]
           g == frame.guard
           top == m.data[Len(m.data)]
           result == [top EXCEPT !.depth = l - 1, !.from = frame.proc]
           d == ReturnToCaller(m).data
<1>1. /\ l \in Nat /\ l \in 1 .. l /\ frame \in Frames /\ g \in Nat /\ frame.proc \in Procs
      /\ Len(m.data) \in Nat /\ g <= Len(m.data) /\ m.data \in Seq(Operands)
      /\ Last(m.calls) = frame /\ Last(m.data) = top
  <2>1. m \in Machines
    BY DEF Balanced
  <2>2. l \in Nat /\ l \in 1 .. l
    BY <2>1, Parts
  <2>3. g <= Len(m.data)
    BY <2>2 DEF Balanced
  <2> QED  BY <2>1, <2>2, <2>3, Parts DEF Last
<1>2. d = IF Len(m.data) <= g THEN m.data
          ELSE SubSeq(m.data, 1, g) \o (IF frame.returns THEN <<result>> ELSE << >>)
  BY <1>1 DEF ReturnToCaller
<1>3. /\ SubSeq(m.data, 1, g) \in Seq(Operands) /\ Len(SubSeq(m.data, 1, g)) = g
      /\ \A i \in 1 .. g : SubSeq(m.data, 1, g)[i] = m.data[i]
  BY <1>1, Prefix
<1>4. ASSUME Len(m.data) > g
      PROVE  /\ result = [from |-> frame.proc, depth |-> l - 1, kind |-> top.kind]
             /\ result \in Operands
  <2>1. top \in Operands
    BY <1>1, <1>4, ElementOfSeq
  <2>2. l - 1 \in Nat
    BY <1>1
  <2> DEFINE r == [top EXCEPT !.depth = l - 1]
  <2>3. r = [from |-> top.from, depth |-> l - 1, kind |-> top.kind]
    BY <2>1 DEF Operands
  <2>4. result = [r EXCEPT !.from = frame.proc]
    OBVIOUS
  <2> HIDE DEF r, result
  <2>5. result = [from |-> frame.proc, depth |-> l - 1, kind |-> top.kind]
    BY <2>3, <2>4
  <2>6. top.kind \in Kinds
    BY <2>1 DEF Operands
  <2> QED  BY <1>1, <2>2, <2>5, <2>6 DEF Operands
<1> HIDE DEF result
<1>5. ReturnedData(m, d)
  <2>1. CASE Len(m.data) <= g
    <3>1. Len(m.data) = g
      BY <1>1, <2>1
    <3> HIDE DEF d
    <3> QED  BY <1>1, <1>2, <2>1, <3>1 DEF ReturnedData
  <2>2. CASE Len(m.data) > g /\ ~frame.returns
    <3>1. d = SubSeq(m.data, 1, g) \o << >>
      BY <1>1, <1>2, <2>2
    <3>2. d = SubSeq(m.data, 1, g)
      BY <1>3, <3>1, ConcatEmptySeq
    <3> HIDE DEF d
    <3> QED  BY <1>1, <1>3, <2>2, <3>2 DEF ReturnedData
  <2>3. CASE Len(m.data) > g /\ frame.returns
    <3>1. d = SubSeq(m.data, 1, g) \o <<result>>
      <4>1. ~(Len(m.data) <= g)
        BY <1>1, <2>3
      <4> HIDE DEF d
      <4> QED  BY <1>2, <2>3, <4>1
    <3>2. d = Append(SubSeq(m.data, 1, g), result)
      BY <1>3, <1>4, <2>3, <3>1, AppendIsConcat
    <3>3. /\ d \in Seq(Operands) /\ Len(d) = g + 1
          /\ \A i \in 1 .. g : d[i] = m.data[i]
          /\ d[g + 1] = result
      BY <1>3, <1>4, <2>3, <3>2, Longer
    <3> HIDE DEF d
    <3> QED  BY <1>1, <1>4, <2>3, <3>3 DEF ReturnedData
  <2> QED  BY <1>1, <2>1, <2>2, <2>3
<1> QED  BY <1>1, <1>5 DEF ReturnToCaller

LEMMA ReturnBalanced ==
    ASSUME NEW m, Balanced(m), Len(m.calls) > 0
    PROVE  Balanced(ReturnToCaller(m))
<1> DEFINE r == ReturnToCaller(m)
           l == Len(m.calls)
           g == m.calls[l].guard
<1>1. /\ l \in Nat /\ l \in 1 .. l /\ m.calls[l] \in Frames /\ g \in Nat
      /\ m.calls[l].returnIP \in Nat
      /\ Len(m.data) \in Nat /\ g <= Len(m.data) /\ m.data \in Seq(Operands)
      /\ m.calls \in Seq(Frames)
  <2>1. m \in Machines
    BY DEF Balanced
  <2>2. l \in Nat /\ l \in 1 .. l
    BY <2>1, Parts
  <2>3. g <= Len(m.data)
    BY <2>2 DEF Balanced
  <2> QED  BY <2>1, <2>2, <2>3, Parts
<1>2. /\ r = [calls |-> r.calls, ip |-> r.ip, data |-> r.data]
      /\ r.calls = Front(m.calls) /\ r.ip = m.calls[l].returnIP /\ ReturnedData(m, r.data)
  BY ReturnDrops
<1> HIDE DEF r
<1>3. /\ r.calls \in Seq(Frames) /\ Len(r.calls) = l - 1
      /\ \A n \in 1 .. l - 1 : r.calls[n] = m.calls[n]
  BY <1>1, <1>2, Ends
<1>4. r \in Machines
  BY <1>1, <1>2, <1>3 DEF Machines, ReturnedData
<1>5. /\ Len(r.data) \in {g, g + 1} /\ \A k \in 1 .. g : r.data[k] = m.data[k]
      /\ Len(r.data) = g + 1 => r.data[g + 1].depth = l - 1
  BY <1>1, <1>2 DEF ReturnedData
<1>6. ASSUME NEW k \in 1 .. Len(r.data)
      PROVE  \/ k \in 1 .. g /\ k \in 1 .. Len(m.data)
             \/ k = g + 1 /\ Len(r.data) = g + 1
  <2>1. CASE Len(r.data) = g
    <3>1. k \in 1 .. g /\ g \in Nat /\ g <= Len(m.data) /\ Len(m.data) \in Nat
      BY <1>1, <2>1
    <3>2. k \in 1 .. Len(m.data)
      <4> HIDE DEF g
      <4> QED  BY <3>1
    <3> QED  BY <3>1, <3>2
  <2>2. CASE Len(r.data) = g + 1
    <3>1. k \in 1 .. g + 1 /\ g \in Nat /\ g <= Len(m.data) /\ Len(m.data) \in Nat
      BY <1>1, <2>2
    <3>2. k = g + 1 \/ (k \in 1 .. g /\ k \in 1 .. Len(m.data))
      <4> HIDE DEF g
      <4> QED  BY <3>1
    <3> QED  BY <2>2, <3>2
  <2> QED  BY <1>5, <2>1, <2>2
<1>7. ASSUME NEW k \in 1 .. Len(r.data) PROVE r.data[k].depth <= Len(r.calls)
  <2>1. CASE k \in 1 .. g /\ k \in 1 .. Len(m.data)
    <3>1. m.data[k].depth < l
      BY <1>1, <2>1 DEF Balanced
    <3>2. m.data[k].depth \in Nat
      BY <2>1, Parts DEF Balanced
    <3>3. r.data[k] = m.data[k]
      BY <1>5, <2>1
    <3>4. \A x \in Nat : x < l => x <= l - 1
      BY <1>1
    <3> QED  BY <1>3, <3>1, <3>2, <3>3, <3>4
  <2>2. CASE k = g + 1 /\ Len(r.data) = g + 1
    BY <1>1, <1>3, <1>5, <2>2
  <2> QED  BY <1>6, <2>1, <2>2
<1>8. ASSUME NEW n \in 1 .. Len(r.calls)
      PROVE  /\ r.calls[n].guard <= Len(r.data)
             /\ r.calls[n].returnIP = 0 <=> n = 1
             /\ \A k \in 1 .. Len(r.data) : k <= r.calls[n].guard <=> r.data[k].depth < n
  <2>1. n \in 1 .. l /\ n <= l - 1 /\ r.calls[n] = m.calls[n]
    BY <1>1, <1>3
  <2>2. m.calls[n].guard <= g /\ m.calls[n].guard \in Nat
    <3>1. n <= l /\ l \in 1 .. Len(m.calls) /\ n \in 1 .. Len(m.calls)
      BY <1>1, <2>1
    <3> QED  BY <3>1, GuardsRise, Parts DEF Balanced
  <2>3. r.calls[n].returnIP = 0 <=> n = 1
    BY <2>1 DEF Balanced
  <2>4. ASSUME NEW k \in 1 .. Len(r.data)
        PROVE  k <= r.calls[n].guard <=> r.data[k].depth < n
    <3>1. CASE k \in 1 .. g /\ k \in 1 .. Len(m.data)
      BY <1>5, <2>1, <3>1 DEF Balanced
    <3>2. CASE k = g + 1 /\ Len(r.data) = g + 1
      <4>1. r.calls[n].guard \in Nat /\ r.calls[n].guard <= g /\ g \in Nat
        BY <1>1, <2>1, <2>2
      <4>2. r.data[k].depth = l - 1 /\ n <= l - 1 /\ l \in Nat /\ n \in Nat
        BY <1>1, <1>5, <2>1, <3>2
      <4> HIDE DEF g, l
      <4>3. ~(k <= r.calls[n].guard)
        BY <3>2, <4>1
      <4>4. ~(r.data[k].depth < n)
        BY <4>2
      <4> QED  BY <4>3, <4>4
    <3> QED  BY <1>6, <3>1, <3>2
  <2>5. r.calls[n].guard <= Len(r.data)
    <3>1. r.calls[n].guard \in Nat /\ r.calls[n].guard <= g /\ g \in Nat
      BY <1>1, <2>1, <2>2
    <3> HIDE DEF g
    <3>2. g <= Len(r.data)
      BY <1>5, <3>1
    <3> QED  BY <1>5, <3>1, <3>2
  <2> QED  BY <2>3, <2>4, <2>5
<1> QED  BY <1>4, <1>7, <1>8 DEF Balanced, r

-----------------------------------------------------------------------------
(* The loops that are active.                                              *)

\* Calls above the one that the innermost loop was entered for do not matter.
LEMMA EnteredBelow ==
    ASSUME NEW cs, NEW cs2, NEW gs, NEW ns, Entered(cs, gs, ns),
           Len(cs) \in Nat, Len(cs2) \in Nat, gs[Len(gs)] <= Len(cs2),
           \A n \in 1 .. Len(cs) : n <= gs[Len(gs)] => cs2[n] = cs[n]
    PROVE  Entered(cs2, gs, ns)
<1> DEFINE l == Len(gs)
           top == gs[l]
<1>1. /\ l \in Nat /\ l > 0 /\ gs \in Seq(Nat)
      /\ \A n \in 1 .. l : gs[n] \in Nat /\ gs[n] >= 1 /\ gs[n] <= Len(cs)
      /\ top \in Nat
  <2>1. gs \in Seq(Nat) /\ l > 0 /\ \A n \in 1 .. l : gs[n] \in 1 .. Len(cs)
    BY DEF Entered
  <2>2. l \in Nat
    BY <2>1, LenProperties
  <2>3. l \in 1 .. l
    <3> HIDE DEF l
    <3> QED  BY <2>1, <2>2
  <2> QED  BY <2>1, <2>2, <2>3
<1>2. ASSUME NEW n \in 1 .. l PROVE gs[n] <= top
  <2>1. CASE n = l
    BY <1>1, <2>1
  <2>2. CASE n # l
    <3>1. n < l /\ l \in 1 .. l
      <4>1. n \in 1 .. l /\ n # l
        BY <1>2, <2>2
      <4> HIDE DEF l
      <4> QED  BY <1>1, <4>1
    <3>2. gs[n] < top
      BY <3>1 DEF Entered
    <3> QED  BY <1>1, <3>2
  <2> QED  BY <2>1, <2>2
<1>3. ASSUME NEW n \in 1 .. l
      PROVE  gs[n] \in 1 .. Len(cs2) /\ cs2[gs[n]] = cs[gs[n]]
  <2>1. gs[n] \in 1 .. Len(cs) /\ gs[n] <= top /\ gs[n] <= Len(cs2)
    BY <1>1, <1>2
  <2> QED  BY <1>1, <2>1
<1>4. ASSUME NEW n \in 2 .. l
      PROVE  /\ n \in 1 .. l /\ gs[n] - 1 \in 1 .. Len(cs)
             /\ cs2[gs[n] - 1] = cs[gs[n] - 1] /\ cs2[gs[n]] = cs[gs[n]]
  <2>1. n \in 1 .. l /\ 1 \in 1 .. l /\ 1 < n
    <3>1. n \in 2 .. l
      BY <1>4
    <3> HIDE DEF l
    <3> QED  BY <1>1, <3>1
  <2>2. gs[1] < gs[n]
    BY <2>1 DEF Entered
  <2>3. gs[n] >= 2 /\ gs[n] \in Nat /\ gs[n] <= Len(cs) /\ gs[n] <= top
    <3>1. gs[1] = 1
      BY DEF Entered
    <3> QED  BY <1>1, <1>2, <2>1, <2>2, <3>1
  <2>4. gs[n] - 1 \in 1 .. Len(cs) /\ gs[n] - 1 <= top
    BY <1>1, <2>3
  <2> QED  BY <1>3, <2>1, <2>4
<1>5. cs2[1] = cs[1]
  <2>1. 1 \in 1 .. l
    <3> HIDE DEF l
    <3> QED  BY <1>1
  <2> QED  BY <1>3, <2>1 DEF Entered
<1> QED  BY <1>3, <1>4, <1>5 DEF Entered

\* A loop is entered for the call that was pushed last.
LEMMA EnterLoop ==
    ASSUME NEW cs, Len(cs) \in Nat, NEW gs, NEW ns, Entered(cs, gs, ns), NEW c \in Cells,
           NEW cs2, Len(cs2) = Len(cs) + 1, \A n \in 1 .. Len(cs) : cs2[n] = cs[n],
           cs2[Len(cs2)].proc = Initializer[c],
           c \in Statics => cs2[Len(cs2)].returns,
           c \in Instances => cs[Len(cs)].guard < cs2[Len(cs2)].guard
    PROVE  Entered(cs2, Append(gs, Len(cs2)), Append(ns, c))
<1> DEFINE l == Len(gs)
           gs2 == Append(gs, Len(cs2))
           ns2 == Append(ns, c)
           d == Len(cs)
<1>1. /\ gs \in Seq(Nat) /\ ns \in Seq({Main} \cup Cells) /\ l > 0 /\ Len(ns) = l
      /\ gs[1] = 1 /\ \A n \in 1 .. l : gs[n] \in 1 .. d
      /\ Len(cs2) \in Nat /\ c \in {Main} \cup Cells
  BY DEF Entered
<1>2. l \in Nat
  BY <1>1, LenProperties
<1>3. /\ gs2 \in Seq(Nat) /\ Len(gs2) = l + 1 /\ gs2[l + 1] = d + 1
      /\ \A n \in 1 .. l : gs2[n] = gs[n]
  BY <1>1, Longer
<1>4. /\ ns2 \in Seq({Main} \cup Cells) /\ Len(ns2) = l + 1 /\ ns2[l + 1] = c
      /\ \A n \in 1 .. l : ns2[n] = ns[n]
  BY <1>1, Longer
<1>5. /\ 1 \in 1 .. l /\ l \in 1 .. l
      /\ \A n \in 1 .. l + 1 : n \in 1 .. l \/ n = l + 1
      /\ \A n \in 2 .. l + 1 : (n \in 2 .. l /\ n \in 1 .. l) \/ n = l + 1
  <2> HIDE DEF l
  <2> QED  BY <1>1, <1>2
<1>6. d \in Nat /\ gs[l] \in 1 .. d /\ d > 0 /\ 1 \in 1 .. d /\ d \in 1 .. d
  <2>1. gs[l] \in 1 .. d /\ d \in Nat
    BY <1>1, <1>5
  <2> HIDE DEF d, l
  <2> QED  BY <2>1
<1> HIDE DEF gs2, ns2
<1>7. \A n \in 1 .. Len(gs2) : gs2[n] \in 1 .. Len(cs2)
  <2> SUFFICES ASSUME NEW n \in 1 .. Len(gs2) PROVE gs2[n] \in 1 .. d + 1
    OBVIOUS
  <2>1. CASE n \in 1 .. l
    BY <1>1, <1>3, <1>6, <2>1
  <2>2. CASE n = l + 1
    BY <1>3, <1>6, <2>2
  <2> QED  BY <1>3, <1>5, <2>1, <2>2
<1>8. \A i, j \in 1 .. Len(gs2) : i < j => gs2[i] < gs2[j]
  <2> SUFFICES ASSUME NEW i \in 1 .. l + 1, NEW j \in 1 .. l + 1, i < j PROVE gs2[i] < gs2[j]
    BY <1>3
  <2>1. i \in 1 .. l
    <3> HIDE DEF l
    <3> QED  BY <1>2
  <2>2. CASE j \in 1 .. l
    BY <1>3, <2>1, <2>2 DEF Entered
  <2>3. CASE j = l + 1
    <3>1. gs2[i] \in 1 .. d /\ gs2[j] = d + 1
      BY <1>1, <1>3, <2>1, <2>3
    <3> QED  BY <1>6, <3>1
  <2> QED  BY <1>5, <2>2, <2>3
<1>9. cs2[1].proc = Main /\ gs2[1] = 1 /\ ns2[1] = Main
  BY <1>1, <1>3, <1>4, <1>5, <1>6 DEF Entered
<1>10. ASSUME NEW n \in 2 .. Len(gs2)
       PROVE  /\ ns2[n] \in Cells
              /\ cs2[gs2[n]].proc = Initializer[ns2[n]]
              /\ ns2[n] \in Statics => cs2[gs2[n]].returns
              /\ ns2[n] \in Instances => cs2[gs2[n] - 1].guard < cs2[gs2[n]].guard
  <2>1. CASE n \in 2 .. l /\ n \in 1 .. l
    <3>1. gs2[n] = gs[n] /\ ns2[n] = ns[n] /\ gs[n] \in 1 .. d
      BY <1>1, <1>3, <1>4, <2>1
    <3>2. gs[1] < gs[n]
      <4>1. 1 < n
        BY <1>2, <2>1
      <4> QED  BY <1>5, <2>1, <4>1 DEF Entered
    <3>3. gs[n] - 1 \in 1 .. d
      BY <1>1, <1>6, <3>1, <3>2
    <3>4. cs2[gs[n]] = cs[gs[n]] /\ cs2[gs[n] - 1] = cs[gs[n] - 1]
      BY <3>1, <3>3
    <3> QED  BY <2>1, <3>1, <3>4 DEF Entered
  <2>2. CASE n = l + 1
    <3>1. gs2[n] = d + 1 /\ ns2[n] = c /\ gs2[n] - 1 = d /\ Len(cs2) = d + 1 /\ cs2[d] = cs[d]
      BY <1>3, <1>4, <1>6, <2>2
    <3> QED  BY <3>1
  <2> QED  BY <1>3, <1>5, <2>1, <2>2
<1>11. Len(gs2) > 0 /\ Len(ns2) = Len(gs2)
  BY <1>2, <1>3, <1>4
<1>12. Entered(cs2, gs2, ns2)
  BY <1>3, <1>4, <1>7, <1>8, <1>9, <1>10, <1>11 DEF Entered
<1> QED  BY <1>12 DEF gs2, ns2

\* The innermost loop ends: its call is gone.
LEMMA LeaveLoop ==
    ASSUME NEW cs, Len(cs) \in Nat, NEW gs, NEW ns, Entered(cs, gs, ns), Len(gs) > 1,
           NEW cs2, Len(cs2) \in Nat, gs[Len(gs)] <= Len(cs2) + 1,
           \A n \in 1 .. Len(cs2) : cs2[n] = cs[n]
    PROVE  Entered(cs2, Front(gs), Front(ns)) /\ gs[Len(gs) - 1] <= Len(cs2)
<1> DEFINE l == Len(gs)
<1>1. /\ gs \in Seq(Nat) /\ ns \in Seq({Main} \cup Cells) /\ l > 1 /\ Len(ns) = l
      /\ l \in Nat /\ l > 0
  BY LenProperties DEF Entered
<1>2. /\ Front(gs) \in Seq(Nat) /\ Len(Front(gs)) = l - 1
      /\ \A n \in 1 .. l - 1 : Front(gs)[n] = gs[n]
  BY <1>1, Ends
<1>3. /\ Front(ns) \in Seq({Main} \cup Cells) /\ Len(Front(ns)) = l - 1
      /\ \A n \in 1 .. l - 1 : Front(ns)[n] = ns[n]
  BY <1>1, Ends
<1>4. /\ l - 1 \in Nat /\ l - 1 > 0 /\ 1 \in 1 .. l - 1 /\ l - 1 \in 1 .. l - 1
      /\ \A n \in 1 .. l - 1 : n \in 1 .. l
      /\ \A n \in 2 .. l - 1 : n \in 2 .. l /\ n \in 1 .. l - 1
      /\ l \in 1 .. l /\ l - 1 \in 1 .. l /\ l - 1 < l
  <2> HIDE DEF l
  <2> QED  BY <1>1
<1>5. Entered(cs, Front(gs), Front(ns))
  <2> HIDE DEF l
  <2>1. /\ \A n \in 1 .. l : gs[n] \in 1 .. Len(cs)
        /\ \A i, j \in 1 .. l : i < j => gs[i] < gs[j]
        /\ gs[1] = 1 /\ ns[1] = Main /\ cs[1].proc = Main
        /\ \A n \in 2 .. l :
              /\ ns[n] \in Cells
              /\ cs[gs[n]].proc = Initializer[ns[n]]
              /\ ns[n] \in Statics => cs[gs[n]].returns
              /\ ns[n] \in Instances => cs[gs[n] - 1].guard < cs[gs[n]].guard
    BY DEF Entered, l
  <2>2. /\ \A n \in 1 .. l - 1 : Front(gs)[n] \in 1 .. Len(cs)
        /\ \A i, j \in 1 .. l - 1 : i < j => Front(gs)[i] < Front(gs)[j]
        /\ Front(gs)[1] = 1 /\ Front(ns)[1] = Main
    BY <1>2, <1>3, <1>4, <2>1
  <2>3. \A n \in 2 .. l - 1 :
           /\ Front(ns)[n] \in Cells
           /\ cs[Front(gs)[n]].proc = Initializer[Front(ns)[n]]
           /\ Front(ns)[n] \in Statics => cs[Front(gs)[n]].returns
           /\ Front(ns)[n] \in Instances => cs[Front(gs)[n] - 1].guard < cs[Front(gs)[n]].guard
    BY <1>2, <1>3, <1>4, <2>1
  <2> QED  BY <1>2, <1>3, <1>4, <2>1, <2>2, <2>3 DEF Entered
<1>6. gs[l - 1] <= Len(cs2)
  <2>1. gs[l - 1] < gs[l] /\ gs[l - 1] \in Nat /\ gs[l] \in Nat
    BY <1>4 DEF Entered
  <2> QED  BY <2>1
<1>7. Front(gs)[Len(Front(gs))] = gs[l - 1]
  BY <1>2, <1>4
<1>8. \A n \in 1 .. Len(cs) : n <= gs[l - 1] => cs2[n] = cs[n]
  <2>1. gs[l - 1] \in Nat
    BY <1>4 DEF Entered
  <2> HIDE DEF l
  <2> QED  BY <1>6, <2>1
<1> QED  BY <1>5, <1>6, <1>7, <1>8, EnteredBelow

-----------------------------------------------------------------------------
(* Unwinding.                                                              *)

\* Any set of numbers has a least one.
LEMMA LeastNumber ==
    ASSUME NEW T, T \subseteq Nat, T # {}
    PROVE  \E j \in T : \A i \in T : j <= i
<1>1. PICK j \in T : \A i \in T : ~(<<i, j>> \in OpToRel(<, Nat))
  BY NatLessThanWellFounded, WFMin
<1>2. \A i \in T : ~(i < j)
  BY <1>1 DEF OpToRel
<1> QED  BY <1>2

Raised == [Machine EXCEPT !.data = Front(data)]

\* f is what the recursion of Unwound computes, up to n.
Unwinds(f, e, n) ==
    f = [k \in 0 .. n |->
            IF k = 0 THEN Raised
            ELSE IF StopsSearch(f[k - 1], e) THEN f[k - 1]
            ELSE ReturnToCaller(f[k - 1])]

LEMMA UnwindingExists ==
    ASSUME NEW e, NEW n \in Nat
    PROVE  \E f : Unwinds(f, e, n)
<1> DEFINE T == {i \in Nat : ~ \E f : Unwinds(f, e, i)}
<1>1. T = {}
  <2> SUFFICES ASSUME T # {} PROVE FALSE
    OBVIOUS
  <2>1. PICK j \in T : \A i \in T : j <= i
    <3>1. T \subseteq Nat
      OBVIOUS
    <3> HIDE DEF T
    <3> QED  BY <3>1, LeastNumber
  <2>2. j \in Nat /\ ~ \E f : Unwinds(f, e, j)
    OBVIOUS
  <2>3. CASE j = 0
    <3> DEFINE f == [k \in 0 .. 0 |-> Raised]
    <3>1. \A k \in 0 .. 0 : k = 0
      OBVIOUS
    <3>2. Unwinds(f, e, 0)
      BY <3>1 DEF Unwinds
    <3> QED  BY <2>2, <2>3, <3>2
  <2>4. CASE j # 0
    <3>1. j - 1 \in Nat /\ ~(j <= j - 1)
      BY <2>2, <2>4
    <3>2. PICK f : Unwinds(f, e, j - 1)
      BY <2>1, <3>1
    <3> DEFINE after(m) == IF StopsSearch(m, e) THEN m ELSE ReturnToCaller(m)
               g == [k \in 0 .. j |-> IF k = j THEN after(f[j - 1]) ELSE f[k]]
    <3>3. /\ \A k \in 0 .. j : k = j \/ k \in 0 .. j - 1
          /\ \A k \in 0 .. j : k # 0 => k - 1 \in 0 .. j - 1 /\ k - 1 \in 0 .. j
          /\ \A k \in 0 .. j - 1 : k \in 0 .. j /\ k # j
          /\ j \in 0 .. j
      BY <2>2, <2>4
    <3>4. \A k \in 0 .. j - 1 : g[k] = f[k]
      BY <3>3
    <3>5. \A k \in 0 .. j - 1 : f[k] = IF k = 0 THEN Raised ELSE after(f[k - 1])
      BY <3>2 DEF Unwinds
    <3> HIDE DEF after
    <3>6. \A k \in 0 .. j : g[k] = IF k = 0 THEN Raised ELSE after(g[k - 1])
      <4> SUFFICES ASSUME NEW k \in 0 .. j
                   PROVE  g[k] = IF k = 0 THEN Raised ELSE after(g[k - 1])
        OBVIOUS
      <4>1. CASE k = j
        <5>1. g[k] = after(f[j - 1]) /\ k # 0 /\ g[k - 1] = f[j - 1]
          BY <2>4, <3>3, <3>4, <4>1
        <5> QED  BY <5>1
      <4>2. CASE k # j
        <5>1. k \in 0 .. j - 1
          BY <3>3, <4>2
        <5>2. g[k] = f[k] /\ (k # 0 => g[k - 1] = f[k - 1])
          BY <3>3, <3>4, <5>1
        <5> QED  BY <3>5, <5>1, <5>2
      <4> QED  BY <4>1, <4>2
    <3>7. g = [k \in 0 .. j |-> IF k = 0 THEN Raised ELSE after(g[k - 1])]
      <4>1. g = [k \in 0 .. j |-> g[k]]
        OBVIOUS
      <4> HIDE DEF g
      <4> QED  BY <3>6, <4>1
    <3> HIDE DEF g
    <3>8. Unwinds(g, e, j)
      BY <3>7 DEF Unwinds, after
    <3> QED  BY <2>2, <3>8
  <2> QED  BY <2>3, <2>4
<1> QED  BY <1>1

LEMMA UnwoundIs ==
    ASSUME NEW e, Depth \in Nat
    PROVE  \E f : Unwinds(f, e, Depth) /\ Unwound(e) = f[Depth]
<1> DEFINE a == CHOOSE f : Unwinds(f, e, Depth)
<1>1. Unwinds(a, e, Depth)
  BY UnwindingExists
<1>2. Unwound(e) = a[Depth]
  BY DEF Unwound, Unwinds, Raised
<1> QED  BY <1>1, <1>2

\* What unwinding ends with is the stack of calls up to one of them, with its
\* operands.
UnwoundTo(m, k) ==
    /\ Balanced(m)
    /\ k \in 0 .. Depth
    /\ Len(m.calls) = k
    /\ \A n \in 1 .. k : m.calls[n] = calls[n]

LEMMA UnwoundKeeps ==
    ASSUME NEW e, Balanced(Raised), Balanced(Machine)
    PROVE  \E k \in 0 .. Depth : UnwoundTo(Unwound(e), k)
<1>1. Depth \in Nat /\ Raised.calls = calls
  BY Parts DEF Depth, Balanced, Machine, Raised
<1>2. PICK f : Unwinds(f, e, Depth) /\ Unwound(e) = f[Depth]
  BY <1>1, UnwoundIs
<1> DEFINE P(n) == \E k \in 0 .. Depth : UnwoundTo(f[n], k)
           T == {n \in 0 .. Depth : ~P(n)}
<1>3. \A n \in 0 .. Depth :
         f[n] = IF n = 0 THEN Raised
                ELSE IF StopsSearch(f[n - 1], e) THEN f[n - 1]
                ELSE ReturnToCaller(f[n - 1])
  BY <1>2 DEF Unwinds
<1>4. P(0)
  <2>1. f[0] = Raised /\ Depth \in 0 .. Depth
    BY <1>1, <1>3
  <2> QED  BY <1>1, <2>1 DEF UnwoundTo, Depth
<1>5. ASSUME NEW n \in 1 .. Depth, P(n - 1) PROVE P(n)
  <2>1. f[n] = IF StopsSearch(f[n - 1], e) THEN f[n - 1] ELSE ReturnToCaller(f[n - 1])
    BY <1>1, <1>3
  <2>2. PICK k \in 0 .. Depth : UnwoundTo(f[n - 1], k)
    BY <1>5
  <2> DEFINE m == f[n - 1]
  <2>3. CASE StopsSearch(m, e)
    BY <2>1, <2>2, <2>3
  <2>4. CASE ~StopsSearch(m, e)
    <3>1. Balanced(m) /\ m.calls # << >> /\ Len(m.calls) = k /\ f[n] = ReturnToCaller(m)
      BY <2>1, <2>2, <2>4 DEF UnwoundTo, StopsSearch
    <3>2. m.calls \in Seq(Frames)
      BY <3>1, Parts DEF Balanced
    <3>3. k > 0 /\ k - 1 \in 0 .. Depth /\ \A i \in 1 .. k - 1 : i \in 1 .. k
      <4>1. Len(m.calls) # 0
        BY <3>1, <3>2, EmptySeq
      <4> HIDE DEF m
      <4> QED  BY <1>1, <3>1, <4>1
    <3>4. /\ Balanced(f[n]) /\ f[n].calls = Front(m.calls)
      BY <3>1, <3>3, ReturnBalanced, ReturnDrops
    <3>5. /\ Len(f[n].calls) = k - 1
          /\ \A i \in 1 .. k - 1 : f[n].calls[i] = m.calls[i]
      <4>1. Len(m.calls) = k /\ Len(m.calls) > 0
        BY <3>1, <3>3
      <4>2. /\ Len(Front(m.calls)) = Len(m.calls) - 1
            /\ \A i \in 1 .. Len(m.calls) - 1 : Front(m.calls)[i] = m.calls[i]
        BY <3>2, <4>1, Ends
      <4> HIDE DEF m
      <4> QED  BY <3>4, <4>1, <4>2
    <3>6. UnwoundTo(f[n], k - 1)
      BY <2>2, <3>3, <3>4, <3>5 DEF UnwoundTo
    <3> QED  BY <3>3, <3>6
  <2> QED  BY <2>3, <2>4
<1> HIDE DEF P
<1>6. T = {}
  <2> SUFFICES ASSUME T # {} PROVE FALSE
    OBVIOUS
  <2>1. T \subseteq Nat
    BY <1>1
  <2>2. PICK j \in T : \A i \in T : j <= i
    <3> HIDE DEF T
    <3> QED  BY <2>1, LeastNumber
  <2>3. j \in 0 .. Depth /\ ~P(j) /\ j # 0
    BY <1>4
  <2>4. j \in 1 .. Depth /\ j - 1 \in 0 .. Depth /\ ~(j <= j - 1)
    BY <1>1, <2>3
  <2>5. P(j - 1)
    BY <2>2, <2>4
  <2> QED  BY <1>5, <2>3, <2>4, <2>5
<1>7. P(Depth)
  <2>1. Depth \in 0 .. Depth
    BY <1>1
  <2> QED  BY <1>6, <2>1
<1> QED  BY <1>2, <1>7 DEF P

-----------------------------------------------------------------------------
(* Steps on the two stacks.                                                *)

LEMMA PushKeeps ==
    ASSUME NEW m, Balanced(m), NEW op \in Operands, op.depth = Len(m.calls), NEW i \in Nat
    PROVE  Balanced([calls |-> m.calls, ip |-> i, data |-> Append(m.data, op)])
<1> DEFINE l == Len(m.data)
           d == Append(m.data, op)
           r == [calls |-> m.calls, ip |-> i, data |-> d]
<1>1. /\ m.calls \in Seq(Frames) /\ Len(m.calls) \in Nat
      /\ m.data \in Seq(Operands) /\ l \in Nat
      /\ \A n \in 1 .. Len(m.calls) : m.calls[n].guard \in Nat
  BY Parts DEF Balanced
<1>2. d \in Seq(Operands) /\ Len(d) = l + 1 /\ d[l + 1] = op /\ \A k \in 1 .. l : d[k] = m.data[k]
  BY <1>1, Longer
<1> HIDE DEF d
<1>3. r.calls = m.calls /\ r.data = d /\ r \in Machines
  BY <1>1, <1>2 DEF Machines
<1> HIDE DEF r
<1>4. \A k \in 1 .. l + 1 : k \in 1 .. l \/ k = l + 1
  <2> HIDE DEF l
  <2> QED  BY <1>1
<1>5. ASSUME NEW k \in 1 .. Len(d) PROVE d[k].depth <= Len(m.calls)
  <2>1. CASE k \in 1 .. l
    BY <1>2, <2>1 DEF Balanced
  <2>2. CASE k = l + 1
    BY <1>1, <1>2, <2>2
  <2> QED  BY <1>2, <1>4, <2>1, <2>2
<1>6. ASSUME NEW n \in 1 .. Len(m.calls)
      PROVE  /\ m.calls[n].guard <= Len(d)
             /\ m.calls[n].returnIP = 0 <=> n = 1
             /\ \A k \in 1 .. Len(d) : k <= m.calls[n].guard <=> d[k].depth < n
  <2>1. m.calls[n].guard <= l /\ m.calls[n].guard \in Nat
    BY <1>1 DEF Balanced
  <2>2. m.calls[n].returnIP = 0 <=> n = 1
    BY DEF Balanced
  <2>3. ASSUME NEW k \in 1 .. l + 1 PROVE k <= m.calls[n].guard <=> d[k].depth < n
    <3>1. CASE k \in 1 .. l
      BY <1>2, <3>1 DEF Balanced
    <3>2. CASE k = l + 1
      <4>1. ~(k <= m.calls[n].guard)
        BY <1>1, <2>1, <3>2
      <4>2. ~(d[k].depth < n)
        BY <1>1, <1>2, <3>2
      <4> QED  BY <4>1, <4>2
    <3> QED  BY <1>4, <3>1, <3>2
  <2> QED  BY <1>1, <1>2, <2>1, <2>2, <2>3
<1>7. Balanced(r)
  BY <1>3, <1>5, <1>6 DEF Balanced
<1> QED  BY <1>7 DEF r, d

LEMMA DropKeeps ==
    ASSUME NEW m, Balanced(m), NEW d \in Seq(Operands), NEW i \in Nat,
           Len(d) <= Len(m.data), \A k \in 1 .. Len(d) : d[k] = m.data[k],
           \A n \in 1 .. Len(m.calls) : m.calls[n].guard <= Len(d)
    PROVE  Balanced([calls |-> m.calls, ip |-> i, data |-> d])
<1> DEFINE r == [calls |-> m.calls, ip |-> i, data |-> d]
<1>1. m.calls \in Seq(Frames) /\ Len(m.data) \in Nat /\ Len(d) \in Nat
  BY Parts, LenProperties DEF Balanced
<1>2. r.calls = m.calls /\ r.data = d /\ r \in Machines
  BY <1>1 DEF Machines
<1> HIDE DEF r
<1>3. \A k \in 1 .. Len(d) : k \in 1 .. Len(m.data)
  BY <1>1
<1>4. Balanced(r)
  BY <1>2, <1>3 DEF Balanced
<1> QED  BY <1>4 DEF r

LEMMA CallKeeps ==
    ASSUME NEW m, Balanced(m), Len(m.calls) > 0, NEW i \in Nat,
           NEW f \in Frames, f.guard = Len(m.data), f.returnIP # 0
    PROVE  Balanced([calls |-> Append(m.calls, f), ip |-> i, data |-> m.data])
<1> DEFINE l == Len(m.calls)
           cs == Append(m.calls, f)
           r == [calls |-> cs, ip |-> i, data |-> m.data]
<1>1. /\ m.calls \in Seq(Frames) /\ l \in Nat
      /\ m.data \in Seq(Operands) /\ Len(m.data) \in Nat
      /\ \A k \in 1 .. Len(m.data) : m.data[k].depth \in Nat
  BY Parts DEF Balanced
<1>2. cs \in Seq(Frames) /\ Len(cs) = l + 1 /\ cs[l + 1] = f /\ \A n \in 1 .. l : cs[n] = m.calls[n]
  BY <1>1, Longer
<1> HIDE DEF cs
<1>3. r.calls = cs /\ r.data = m.data /\ r \in Machines
  BY <1>1, <1>2 DEF Machines
<1> HIDE DEF r
<1>4. \A n \in 1 .. l + 1 : n \in 1 .. l \/ n = l + 1
  <2> HIDE DEF l
  <2> QED  BY <1>1
<1>5. ASSUME NEW k \in 1 .. Len(m.data)
      PROVE  m.data[k].depth <= Len(cs) /\ m.data[k].depth < l + 1
  <2>1. m.data[k].depth <= l
    BY DEF Balanced
  <2>2. m.data[k].depth \in Nat
    BY <1>1
  <2> HIDE DEF l
  <2> QED  BY <1>1, <1>2, <2>1, <2>2
<1>6. ASSUME NEW n \in 1 .. Len(cs)
      PROVE  /\ cs[n].guard <= Len(m.data)
             /\ cs[n].returnIP = 0 <=> n = 1
             /\ \A k \in 1 .. Len(m.data) : k <= cs[n].guard <=> m.data[k].depth < n
  <2>1. CASE n \in 1 .. l
    BY <1>2, <2>1 DEF Balanced
  <2>2. CASE n = l + 1
    <3>1. n # 1
      BY <1>1, <2>2
    <3> QED  BY <1>1, <1>2, <1>5, <2>2, <3>1
  <2> QED  BY <1>2, <1>4, <2>1, <2>2
<1>7. Balanced(r)
  BY <1>3, <1>5, <1>6 DEF Balanced
<1> QED  BY <1>7 DEF r, cs

-----------------------------------------------------------------------------
(* The steps of the interpreter.                                           *)

\* What holds when an instruction runs.
LEMMA AtInstruction ==
    ASSUME IInv, Executing
    PROVE  /\ Balanced(Machine) /\ Entered(calls, guards, natives)
           /\ calls \in Seq(Frames) /\ Depth \in Nat /\ Depth > 0 /\ Depth \in 1 .. Depth
           /\ Len(calls) = Depth /\ Last(calls) = calls[Depth] /\ Last(calls) \in Frames
           /\ data \in Seq(Operands) /\ Len(data) \in Nat /\ ip \in Nat /\ ip + 1 \in Nat /\ ip + 1 # 0
           /\ Last(calls).guard \in Nat /\ Last(calls).guard <= Len(data)
           /\ Proc = Last(calls).proc /\ Proc \in Procs
           /\ \A n \in 1 .. Depth : calls[n].guard \in Nat /\ calls[n].guard <= Last(calls).guard
           /\ guards \in Seq(Nat) /\ guards # << >> /\ Len(guards) \in Nat /\ Len(guards) > 0
           /\ Last(guards) = guards[Len(guards)] /\ Last(guards) \in 1 .. Depth
           /\ natives \in Seq({Main} \cup Cells) /\ Len(natives) = Len(guards)
           /\ Last(natives) = natives[Len(guards)]
<1>1. status = "running" /\ Balanced(Machine) /\ guards # << >> /\ CheckGuard
  BY DEF IInv, Executing
<1>2. Entered(calls, guards, natives)
  BY <1>1 DEF IInv
<1>3. Machine.calls = calls /\ Machine.data = data /\ Machine.ip = ip /\ Machine \in Machines
  BY <1>1 DEF Balanced, Machine
<1>4. /\ calls \in Seq(Frames) /\ Depth \in Nat /\ Len(calls) = Depth
      /\ data \in Seq(Operands) /\ Len(data) \in Nat /\ ip \in Nat
      /\ \A n \in 1 .. Depth : calls[n] \in Frames /\ calls[n].guard \in Nat /\ calls[n].proc \in Procs
  BY <1>3, Parts DEF Depth
<1>5. /\ guards \in Seq(Nat) /\ Len(guards) > 0 /\ Len(natives) = Len(guards)
      /\ natives \in Seq({Main} \cup Cells)
      /\ \A n \in 1 .. Len(guards) : guards[n] \in 1 .. Depth
  BY <1>2, <1>4 DEF Entered
<1>6. Len(guards) \in Nat /\ Len(guards) \in 1 .. Len(guards)
  <2>1. Len(guards) \in Nat
    BY <1>5, LenProperties
  <2> QED  BY <1>5, <2>1
<1>7. Last(guards) = guards[Len(guards)] /\ Last(guards) \in 1 .. Depth
  BY <1>5, <1>6 DEF Last
<1>8. Depth > 0 /\ Depth \in 1 .. Depth
  BY <1>4, <1>7
<1>9. Last(calls) = calls[Depth]
  BY <1>4 DEF Last
<1>10. \A n \in 1 .. Depth : calls[n].guard <= calls[Depth].guard
  <2> SUFFICES ASSUME NEW n \in 1 .. Depth PROVE calls[n].guard <= calls[Depth].guard
    OBVIOUS
  <2>1. n \in 1 .. Len(Machine.calls) /\ Depth \in 1 .. Len(Machine.calls) /\ n <= Depth
    BY <1>3, <1>4, <1>8
  <2> QED  BY <1>1, <1>3, <2>1, GuardsRise
<1>11. calls[Depth].guard <= Len(data)
  BY <1>1, <1>3, <1>4, <1>8 DEF Balanced
<1> QED  BY <1>1, <1>2, <1>4, <1>5, <1>6, <1>7, <1>8, <1>9, <1>10, <1>11 DEF Proc, Last

\* What the next state needs.
After == [calls |-> calls', ip |-> ip', data |-> data']

LEMMA NextIInv ==
    ASSUME Typed', CellsHoldTheirResult',
           status' = "running" =>
              /\ Balanced(After)
              /\ guards' # << >>
              /\ Last(guards') <= Len(calls') => Entered(calls', guards', natives')
    PROVE  IInv'
<1>1. status' = "running" => Balanced(Machine)'
  BY DEF After, Machine, Balanced
<1>2. status' = "running" /\ CheckGuard' => Entered(calls, guards, natives)'
  BY DEF CheckGuard, Depth, Entered
<1> QED  BY <1>1, <1>2 DEF IInv

\* An instruction that leaves the loops alone keeps what they have, where it keeps
\* the calls below the innermost loop.
LEMMA LoopsGoOn ==
    ASSUME IInv, Executing, UNCHANGED <<guards, natives>>, Typed', CellsHoldTheirResult',
           status' = "running" =>
              /\ Balanced(After)
              /\ Len(calls') \in Nat
              /\ \A n \in 1 .. Depth : n <= Len(calls') => calls'[n] = calls[n]
    PROVE  IInv'
<1>1. ASSUME status' = "running"
      PROVE  /\ guards' # << >>
             /\ Last(guards') <= Len(calls') => Entered(calls', guards', natives')
  <2>1. /\ Entered(calls, guards, natives) /\ Len(calls) = Depth /\ Depth \in Nat
        /\ Last(guards) = guards[Len(guards)] /\ guards # << >> /\ Last(guards) \in 1 .. Depth
    BY AtInstruction
  <2>2. ASSUME Last(guards') <= Len(calls') PROVE Entered(calls', guards', natives')
    <3>1. /\ Len(calls') \in Nat /\ guards[Len(guards)] <= Len(calls')
          /\ \A n \in 1 .. Len(calls) : n <= guards[Len(guards)] => calls'[n] = calls[n]
      BY <1>1, <2>1, <2>2
    <3> QED  BY <2>1, <3>1, EnteredBelow
  <2> QED  BY <2>1, <2>2
<1> QED  BY <1>1, NextIInv

\* The same for one that leaves the cells alone too.
LEMMA LoopsKept ==
    ASSUME IInv, Executing, UNCHANGED <<guards, natives, cells>>,
           status' \in {"running", "halted", "error"},
           status' = "running" =>
              /\ Balanced(After)
              /\ Len(calls') \in Nat
              /\ \A n \in 1 .. Depth : n <= Len(calls') => calls'[n] = calls[n]
    PROVE  IInv'
<1>1. Typed' /\ CellsHoldTheirResult'
  BY DEF IInv, Typed, CellsHoldTheirResult
<1> QED  BY <1>1, LoopsGoOn

\* The frames and operands that instructions make.
LEMMA MadeOperand ==
    ASSUME Proc \in Procs, Depth \in Nat, NEW kind \in Kinds
    PROVE  Operand(kind) \in Operands /\ Operand(kind).depth = Depth
BY DEF Operand, Operands

LEMMA MadeFrame ==
    ASSUME NEW p \in Procs, NEW r \in Nat, NEW b \in BOOLEAN, NEW g \in Nat
    PROVE  /\ Frame(p, r, b, g) \in Frames /\ Frame(p, r, b, g).guard = g
           /\ Frame(p, r, b, g).proc = p /\ Frame(p, r, b, g).returns = b
           /\ Frame(p, r, b, g).returnIP = r
BY DEF Frame, Frames

LEMMA PushStep ==
    ASSUME IInv, Executing, NEW kind \in Kinds,
           data' = Append(data, Operand(kind)), ip' = ip + 1,
           UNCHANGED <<calls, guards, natives, cells, status>>
    PROVE  IInv'
<1>1. Operand(kind) \in Operands /\ Operand(kind).depth = Len(Machine.calls) /\ Balanced(Machine)
      /\ Machine.data = data /\ Machine.calls = calls /\ ip + 1 \in Nat
  BY AtInstruction, MadeOperand DEF Machine
<1>2. Balanced([calls |-> calls, ip |-> ip + 1, data |-> Append(data, Operand(kind))])
  BY <1>1, PushKeeps
<1>3. Balanced(After)
  BY <1>2 DEF After
<1> QED  BY <1>3, LoopsKept, AtInstruction DEF Executing

\* An instruction that takes the topmost operand of its call.
LEMMA Popped ==
    ASSUME IInv, Executing, Len(data) > Last(calls).guard,
           data' = Front(data), ip' = ip + 1, UNCHANGED calls
    PROVE  /\ Balanced(After) /\ Last(data) \in Operands
           /\ Len(calls) = Depth /\ Depth \in Nat /\ status \in {"running", "halted", "error"}
<1>1. /\ data \in Seq(Operands) /\ Len(data) > 0 /\ Len(data) \in Nat /\ ip + 1 \in Nat
      /\ Last(calls).guard <= Len(data) - 1 /\ Balanced(Machine)
      /\ Machine.data = data /\ Machine.calls = calls /\ Len(calls) = Depth /\ Depth \in Nat
      /\ \A n \in 1 .. Depth : calls[n].guard <= Len(data) - 1
  BY AtInstruction DEF Machine
<1>2. /\ Front(data) \in Seq(Operands) /\ Len(Front(data)) = Len(data) - 1
      /\ \A k \in 1 .. Len(data) - 1 : Front(data)[k] = data[k]
      /\ Last(data) \in Operands
  BY <1>1, Ends
<1>3. Balanced([calls |-> Machine.calls, ip |-> ip + 1, data |-> Front(data)])
  <2>1. /\ Len(Front(data)) <= Len(Machine.data)
        /\ \A k \in 1 .. Len(Front(data)) : Front(data)[k] = Machine.data[k]
        /\ \A n \in 1 .. Len(Machine.calls) : Machine.calls[n].guard <= Len(Front(data))
    BY <1>1, <1>2
  <2> QED  BY <1>1, <1>2, <2>1, DropKeeps
<1>4. Balanced(After)
  BY <1>1, <1>3 DEF After
<1> QED  BY <1>1, <1>2, <1>4 DEF IInv, Typed

LEMMA PopStep ==
    ASSUME IInv, Pop
    PROVE  IInv'
<1>1. Executing /\ Len(data) > Last(calls).guard /\ data' = Front(data) /\ ip' = ip + 1
      /\ UNCHANGED <<calls, guards, natives, cells, status>>
  BY DEF Pop, Inner
<1>2. Balanced(After) /\ Len(calls) = Depth /\ Depth \in Nat
      /\ status \in {"running", "halted", "error"}
  BY <1>1, Popped
<1> QED  BY <1>1, <1>2, LoopsKept

\* What a store puts in a cell does not matter where the static is a variable.
LEMMA StoreStaticStep ==
    ASSUME IInv, NEW s \in Variables, StoreStatic(s)
    PROVE  IInv'
<1>1. Executing /\ Len(data) > Last(calls).guard /\ data' = Front(data) /\ ip' = ip + 1
      /\ UNCHANGED <<calls, guards, natives, status>>
      /\ cells' = [cells EXCEPT ![s] = Last(data)]
  BY DEF StoreStatic, Inner
<1>2. Balanced(After) /\ Len(calls) = Depth /\ Depth \in Nat /\ Last(data) \in Operands
  BY <1>1, Popped
<1>3. s \in Cells /\ s \notin Statics \ Variables /\ s \notin Instances
  BY InterpreterAssumption DEF Cells
<1>4. Typed' /\ CellsHoldTheirResult'
  <2>1. cells \in [Cells -> Operands \cup {None}] /\ CellsHoldTheirResult
        /\ status \in {"running", "halted", "error"}
    BY DEF IInv, Typed
  <2>2. cells' \in [Cells -> Operands \cup {None}]
        /\ \A d \in Cells : d # s => cells'[d] = cells[d]
    BY <1>1, <1>2, <2>1
  <2>3. CellsHoldTheirResult'
    BY <1>3, <2>1, <2>2 DEF CellsHoldTheirResult, Cells
  <2> QED  BY <1>1, <2>1, <2>2, <2>3 DEF Typed
<1> QED  BY <1>1, <1>2, <1>4, LoopsGoOn

\* A call is pushed on the operands that are left: those of the callers.
LEMMA CallPushed ==
    ASSUME NEW m, Balanced(m), m.calls = calls, calls \in Seq(Frames), Len(calls) = Depth,
           Depth \in Nat, Depth > 0, ip \in Nat,
           NEW p \in Procs, NEW b \in BOOLEAN,
           calls' = Append(calls, Frame(p, ip + 1, b, Len(m.data))), data' = m.data, ip' = 1
    PROVE  /\ Balanced(After)
           /\ Len(calls') = Depth + 1 /\ \A n \in 1 .. Depth : calls'[n] = calls[n]
           /\ calls'[Depth + 1].proc = p /\ calls'[Depth + 1].returns = b
           /\ calls'[Depth + 1].guard = Len(m.data)
<1> DEFINE f == Frame(p, ip + 1, b, Len(m.data))
<1>1. Len(m.data) \in Nat /\ ip + 1 \in Nat /\ ip + 1 # 0 /\ 1 \in Nat
  BY Parts DEF Balanced
<1>2. /\ f \in Frames /\ f.guard = Len(m.data) /\ f.proc = p /\ f.returns = b /\ f.returnIP # 0
  BY <1>1, MadeFrame
<1> HIDE DEF f
<1>3. /\ Len(Append(calls, f)) = Depth + 1 /\ Append(calls, f)[Depth + 1] = f
      /\ \A n \in 1 .. Depth : Append(calls, f)[n] = calls[n]
  BY <1>2, Longer
<1>4. Balanced([calls |-> Append(m.calls, f), ip |-> 1, data |-> m.data])
  BY <1>1, <1>2, CallKeeps
<1>5. calls' = Append(calls, f)
  BY DEF f
<1>6. Balanced(After)
  BY <1>4, <1>5 DEF After
<1> QED  BY <1>2, <1>3, <1>5, <1>6

LEMMA CallStep ==
    ASSUME IInv, NEW p \in Callable, NEW placement \in 0 .. 1, Call(p, placement)
    PROVE  IInv'
<1> DEFINE l == Len(data) - placement
           d == SubSeq(data, 1, l)
           m == [calls |-> calls, ip |-> ip, data |-> d]
<1>1. /\ Executing /\ l >= Last(calls).guard /\ ip' = 1 /\ data' = d
      /\ calls' = Append(calls, Frame(p, ip + 1, Returns(p), Len(data')))
      /\ UNCHANGED <<guards, natives, cells, status>>
  BY DEF Call, Inner
<1>2. /\ data \in Seq(Operands) /\ Len(data) \in Nat /\ Balanced(Machine) /\ ip \in Nat
      /\ calls \in Seq(Frames) /\ Len(calls) = Depth /\ Depth \in Nat /\ Depth > 0
      /\ Last(calls).guard \in Nat
      /\ \A n \in 1 .. Depth : calls[n].guard \in Nat /\ calls[n].guard <= Last(calls).guard
      /\ Machine.calls = calls /\ Machine.data = data
  BY <1>1, AtInstruction DEF Machine
<1>3. l \in 0 .. Len(data)
  BY <1>1, <1>2
<1>4. l \in Nat /\ l <= Len(data) /\ \A n \in 1 .. Depth : calls[n].guard <= l
  BY <1>1, <1>2, <1>3
<1>5. d \in Seq(Operands) /\ Len(d) = l /\ \A k \in 1 .. l : d[k] = data[k]
  BY <1>2, <1>3, Prefix
<1> HIDE DEF d, l
<1>6. Balanced([calls |-> Machine.calls, ip |-> ip, data |-> d])
  BY <1>2, <1>4, <1>5, DropKeeps
<1>7. Balanced(m) /\ m.calls = calls /\ m.data = d
  BY <1>2, <1>6
<1>8. p \in Procs /\ Returns(p) \in BOOLEAN
  BY DEF Callable, Procs, Returns
<1> HIDE DEF m
<1>9. /\ Balanced(After)
      /\ Len(calls') = Depth + 1 /\ \A n \in 1 .. Depth : calls'[n] = calls[n]
  BY <1>1, <1>2, <1>7, <1>8, CallPushed
<1>10. Len(calls') \in Nat /\ status' = "running"
  BY <1>1, <1>2, <1>9 DEF Executing
<1> QED  BY <1>1, <1>9, <1>10, LoopsKept

LEMMA Constructed ==
    ASSUME IInv, Executing, NEW p \in Constructors, Construct(p)
    PROVE  /\ Balanced(After)
           /\ Len(calls') = Depth + 1 /\ \A n \in 1 .. Depth : calls'[n] = calls[n]
           /\ calls'[Depth + 1].proc = p
           /\ calls[Depth].guard < calls'[Depth + 1].guard
<1> DEFINE op == Operand("ref")
           m == [calls |-> calls, ip |-> ip, data |-> Append(data, op)]
<1>1. /\ data' = Append(data, op) /\ ip' = 1
      /\ calls' = Append(calls, Frame(p, ip + 1, TRUE, Len(data')))
  BY DEF Construct
<1>2. /\ data \in Seq(Operands) /\ Len(data) \in Nat /\ Balanced(Machine) /\ ip \in Nat
      /\ calls \in Seq(Frames) /\ Len(calls) = Depth /\ Depth \in Nat /\ Depth > 0
      /\ calls[Depth].guard \in Nat /\ calls[Depth].guard <= Len(data) /\ Proc \in Procs
      /\ Machine.calls = calls /\ Machine.data = data
  BY AtInstruction DEF Machine
<1>3. op \in Operands /\ op.depth = Depth
  BY <1>2, MadeOperand DEF Kinds
<1> HIDE DEF op
<1>4. Balanced([calls |-> Machine.calls, ip |-> ip, data |-> Append(Machine.data, op)])
  BY <1>2, <1>3, PushKeeps
<1>5. Balanced(m) /\ m.calls = calls /\ m.data = data' /\ Len(m.data) = Len(data) + 1
  BY <1>1, <1>2, <1>3, <1>4, Longer
<1>6. p \in Procs
  BY DEF Procs
<1> HIDE DEF m
<1>7. /\ Balanced(After)
      /\ Len(calls') = Depth + 1 /\ \A n \in 1 .. Depth : calls'[n] = calls[n]
      /\ calls'[Depth + 1].proc = p /\ calls'[Depth + 1].guard = Len(m.data)
  BY <1>1, <1>2, <1>5, <1>6, CallPushed
<1> QED  BY <1>2, <1>5, <1>7

LEMMA NewStep ==
    ASSUME IInv, NEW p \in Constructors, New(p)
    PROVE  IInv'
<1>1. Executing /\ Construct(p) /\ UNCHANGED <<guards, natives, cells, status>>
  BY DEF New, Inner
<1>2. Balanced(After) /\ Len(calls') = Depth + 1 /\ \A n \in 1 .. Depth : calls'[n] = calls[n]
  BY <1>1, Constructed
<1>3. Len(calls') \in Nat /\ status' = "running"
  BY <1>1, <1>2, AtInstruction DEF Executing
<1> QED  BY <1>1, <1>2, <1>3, LoopsKept

\* A load of a cell pushes the call of its initializer and enters a loop for it.
LEMMA ReenterStep ==
    ASSUME IInv, Executing, NEW c \in Cells, Reenter(c), UNCHANGED cells,
           Balanced(After),
           Len(calls') = Depth + 1, \A n \in 1 .. Depth : calls'[n] = calls[n],
           calls'[Depth + 1].proc = Initializer[c],
           c \in Statics => calls'[Depth + 1].returns,
           c \in Instances => calls[Depth].guard < calls'[Depth + 1].guard
    PROVE  IInv'
<1>1. status' \in {"running", "error"}
  BY DEF Reenter, Executing
<1>2. Typed' /\ CellsHoldTheirResult'
  BY <1>1 DEF IInv, Typed, CellsHoldTheirResult
<1>3. ASSUME status' = "running"
      PROVE  guards' # << >> /\ Entered(calls', guards', natives')
  <2>1. guards' = Append(guards, Len(calls')) /\ natives' = Append(natives, c)
    BY <1>3 DEF Reenter
  <2>2. /\ Entered(calls, guards, natives) /\ Len(calls) = Depth /\ Depth \in Nat
        /\ guards \in Seq(Nat) /\ Len(guards) \in Nat
    BY AtInstruction
  <2>3. Entered(calls', Append(guards, Len(calls')), Append(natives, c))
    BY <2>2, EnterLoop
  <2>4. Append(guards, Len(calls')) # << >>
    BY <2>2, Longer, EmptySeq
  <2> QED  BY <2>1, <2>3, <2>4
<1> QED  BY <1>2, <1>3, NextIInv

LEMMA InitStaticStep ==
    ASSUME IInv, NEW s \in Statics, InitStatic(s)
    PROVE  IInv'
<1>1. /\ Executing /\ Reenter(s) /\ ip' = 1 /\ UNCHANGED <<data, cells>>
      /\ calls' = Append(calls, Frame(Initializer[s], ip + 1, Returns(Initializer[s]), Len(data)))
  BY DEF InitStatic, Inner
<1>2. /\ Balanced(Machine) /\ ip \in Nat /\ Machine.calls = calls /\ Machine.data = data
      /\ calls \in Seq(Frames) /\ Len(calls) = Depth /\ Depth \in Nat /\ Depth > 0
  BY <1>1, AtInstruction DEF Machine
<1>3. /\ Initializer[s] \in Procs /\ Returns(Initializer[s]) = TRUE /\ s \in Cells
      /\ s \notin Instances
  BY InterpreterAssumption DEF Procs, Returns, Cells
<1>4. /\ Balanced(After)
      /\ Len(calls') = Depth + 1 /\ \A n \in 1 .. Depth : calls'[n] = calls[n]
      /\ calls'[Depth + 1].proc = Initializer[s] /\ calls'[Depth + 1].returns = TRUE
  BY <1>1, <1>2, <1>3, CallPushed
<1> QED  BY <1>1, <1>3, <1>4, ReenterStep

LEMMA InitInstanceStep ==
    ASSUME IInv, NEW i \in Instances, InitInstance(i)
    PROVE  IInv'
<1>1. Executing /\ Construct(Initializer[i]) /\ Reenter(i) /\ UNCHANGED cells
  BY DEF InitInstance, Inner
<1>2. Initializer[i] \in Constructors /\ i \in Cells /\ i \notin Statics
  BY InterpreterAssumption DEF Cells
<1>3. /\ Balanced(After)
      /\ Len(calls') = Depth + 1 /\ \A n \in 1 .. Depth : calls'[n] = calls[n]
      /\ calls'[Depth + 1].proc = Initializer[i]
      /\ calls[Depth].guard < calls'[Depth + 1].guard
  BY <1>1, <1>2, Constructed
<1> QED  BY <1>1, <1>2, <1>3, ReenterStep

LEMMA LoadCellStep ==
    ASSUME IInv, NEW c \in Cells, LoadCell(c)
    PROVE  IInv'
<1>1. /\ Executing /\ cells[c] # None /\ ip' = ip + 1
      /\ data' = Append(data, Operand(cells[c].kind))
      /\ UNCHANGED <<calls, guards, natives, cells, status>>
  BY DEF LoadCell, Inner
<1>2. cells[c] \in Operands
  BY <1>1 DEF IInv, Typed
<1>3. cells[c].kind \in Kinds
  BY <1>2 DEF Operands
<1> QED  BY <1>1, <1>3, PushStep

\* A return that halts the program, or within a loop.
LEMMA PlainReturnStep ==
    ASSUME IInv, Return, ReturnToCaller(Machine).ip = 0 \/ ~ReachedGuard
    PROVE  IInv'
<1> DEFINE m == ReturnToCaller(Machine)
<1>1. Executing /\ calls' = m.calls /\ ip' = m.ip
  BY DEF Return
<1>2. /\ Balanced(Machine) /\ Machine.calls = calls /\ Machine.data = data
      /\ calls \in Seq(Frames) /\ Len(calls) = Depth /\ Depth \in Nat /\ Depth > 0
  BY <1>1, AtInstruction DEF Machine
<1>3. /\ Balanced(m) /\ m.calls = Front(calls)
      /\ m = [calls |-> m.calls, ip |-> m.ip, data |-> m.data]
  BY <1>2, ReturnDrops, ReturnBalanced
<1>4. CASE m.ip = 0
  <2>1. status' = "halted" /\ UNCHANGED <<natives, cells>>
    BY <1>4 DEF Return
  <2>2. Typed' /\ CellsHoldTheirResult'
    BY <2>1 DEF IInv, Typed, CellsHoldTheirResult
  <2> QED  BY <2>1, <2>2, NextIInv
<1>5. CASE m.ip # 0 /\ ~ReachedGuard
  <2>1. data' = m.data /\ UNCHANGED <<guards, natives, cells, status>>
    BY <1>5 DEF Return
  <2>2. Balanced(After)
    <3> HIDE DEF m
    <3> QED  BY <1>1, <1>3, <2>1 DEF After
  <2>3. Len(calls') \in Nat /\ \A n \in 1 .. Depth : n <= Len(calls') => calls'[n] = calls[n]
    <3>1. calls' = Front(calls)
      BY <1>1, <1>3
    <3> QED  BY <1>2, <3>1, Ends
  <2> QED  BY <1>1, <2>1, <2>2, <2>3, LoopsKept DEF Executing
<1> QED  BY <1>4, <1>5

\* The return of an initializer: its loop ends, and the cell is set.
LEMMA LeavingReturnStep ==
    ASSUME IInv, Return, ReturnToCaller(Machine).ip # 0, ReachedGuard
    PROVE  IInv'
<1> DEFINE m == ReturnToCaller(Machine)
           c == Last(natives)
           popped == IF m.data = << >> THEN m.data ELSE Front(m.data)
           ref == [from |-> Last(m.calls).proc, depth |-> Len(m.calls), kind |-> "ref"]
           value == IF c \in Statics THEN Last(m.data) ELSE ref
           g == calls[Depth].guard
<1>1. /\ Executing /\ calls' = m.calls /\ ip' = m.ip /\ guards' = Front(guards)
      /\ Returns(Proc) => Len(data) > Last(calls).guard
      /\ data' = Append(popped, value) /\ cells' = [cells EXCEPT ![c] = value]
      /\ natives' = Front(natives) /\ status' = status /\ status = "running"
  BY DEF Return, Executing
<1>2. /\ Balanced(Machine) /\ Machine.calls = calls /\ Machine.data = data
      /\ calls \in Seq(Frames) /\ Len(calls) = Depth /\ Depth \in Nat /\ Depth > 0
      /\ Depth \in 1 .. Depth /\ Last(calls) = calls[Depth]
      /\ data \in Seq(Operands) /\ Len(data) \in Nat /\ g \in Nat /\ g <= Len(data)
      /\ Proc = calls[Depth].proc /\ Entered(calls, guards, natives)
      /\ guards \in Seq(Nat) /\ Len(guards) \in Nat /\ Len(guards) > 0
      /\ natives \in Seq({Main} \cup Cells) /\ Len(natives) = Len(guards)
      /\ c = natives[Len(guards)]
  BY <1>1, AtInstruction DEF Machine
<1>3. /\ Balanced(m) /\ m.calls = Front(calls) /\ m.ip = calls[Depth].returnIP
      /\ ReturnedData(Machine, m.data)
  BY <1>2, ReturnDrops, ReturnBalanced
<1> HIDE DEF m
<1>4. Depth > 1
  <2>1. Depth \in 1 .. Len(Machine.calls) /\ Machine.calls[Depth].returnIP # 0
    BY <1>2, <1>3 DEF m
  <2>2. Depth # 1
    BY <1>2, <2>1 DEF Balanced
  <2> QED  BY <1>2, <2>2
<1>5. guards[Len(guards)] = Depth /\ Len(guards) > 1
  <2>1. guards[Len(guards)] = Depth
    BY DEF ReachedGuard, Last
  <2>2. Len(guards) # 1
    BY <1>2, <1>4, <2>1 DEF Entered
  <2> QED  BY <1>2, <2>1, <2>2
<1>6. /\ c \in Cells /\ calls[Depth].proc = Initializer[c]
      /\ c \in Statics => calls[Depth].returns
      /\ c \in Instances => calls[Depth - 1].guard < g
  <2>1. Len(guards) \in 2 .. Len(guards)
    BY <1>2, <1>5
  <2> QED  BY <1>2, <1>5, <2>1 DEF Entered
<1>7. /\ Len(m.calls) = Depth - 1 /\ Depth - 1 \in Nat /\ Depth - 1 \in 1 .. Depth - 1
      /\ m.calls \in Seq(Frames) /\ m.ip \in Nat
      /\ \A n \in 1 .. Depth - 1 : m.calls[n] = calls[n]
  <2>1. m.calls \in Seq(Frames) /\ m.ip \in Nat
    BY <1>3, Parts DEF Balanced
  <2>2. Len(calls) > 0 /\ Depth - 1 \in Nat /\ Depth - 1 \in 1 .. Depth - 1
    BY <1>2, <1>4
  <2>3. /\ Len(Front(calls)) = Len(calls) - 1
        /\ \A n \in 1 .. Len(calls) - 1 : Front(calls)[n] = calls[n]
    BY <1>2, <2>2, Ends
  <2> QED  BY <1>2, <1>3, <2>1, <2>2, <2>3
<1>8. /\ m.data \in Seq(Operands)
      /\ Len(m.data) = IF Len(data) > g /\ calls[Depth].returns THEN g + 1 ELSE g
      /\ Len(data) > g /\ calls[Depth].returns =>
            m.data[g + 1].from = calls[Depth].proc /\ m.data[g + 1].depth = Depth - 1
  BY <1>2, <1>3 DEF ReturnedData
<1>9. \A n \in 1 .. Depth - 1 :
         /\ calls[n].guard <= g /\ calls[n].guard <= calls[Depth - 1].guard
         /\ calls[n].guard \in Nat
  <2> SUFFICES ASSUME NEW n \in 1 .. Depth - 1
               PROVE  /\ calls[n].guard <= g /\ calls[n].guard <= calls[Depth - 1].guard
                      /\ calls[n].guard \in Nat
    OBVIOUS
  <2>1. /\ n \in 1 .. Len(Machine.calls) /\ Depth \in 1 .. Len(Machine.calls) /\ n <= Depth
        /\ Depth - 1 \in 1 .. Len(Machine.calls) /\ n <= Depth - 1
    BY <1>2, <1>4
  <2> QED  BY <1>2, <2>1, GuardsRise, Parts DEF Balanced
<1>10. /\ Len(m.data) > 0 /\ Len(m.data) \in Nat
       /\ \A n \in 1 .. Depth - 1 : calls[n].guard <= Len(m.data) - 1
       /\ value \in Operands /\ value.depth = Depth - 1
       /\ c \in Statics => value.from = Initializer[c]
       /\ c \in Instances => value.kind = "ref"
  <2>1. CASE c \in Statics
    <3>1. Initializer[c] \in Functions /\ c \notin Instances /\ Returns(Proc)
      BY <1>2, <1>6, <2>1, InterpreterAssumption DEF Returns, Cells
    <3>2. /\ Len(m.data) = g + 1 /\ m.data[g + 1].from = Initializer[c]
          /\ m.data[g + 1].depth = Depth - 1
      BY <1>1, <1>2, <1>6, <1>8, <2>1, <3>1
    <3>3. value = m.data[g + 1] /\ g + 1 \in 1 .. Len(m.data)
      BY <1>2, <2>1, <3>2 DEF Last
    <3>4. value \in Operands
      BY <1>8, <3>3, ElementOfSeq
    <3>5. Len(m.data) > 0 /\ Len(m.data) \in Nat /\ Len(m.data) - 1 = g
      <4>1. g \in Nat /\ Len(m.data) = g + 1
        BY <1>2, <3>2
      <4> HIDE DEF g
      <4> QED  BY <4>1
    <3> HIDE DEF value
    <3> QED  BY <1>9, <3>1, <3>2, <3>3, <3>4, <3>5
  <2>2. CASE c \notin Statics
    <3>1. c \in Instances /\ calls[Depth - 1].guard < g
      BY <1>6, <2>2 DEF Cells
    <3>2. calls[Depth - 1].guard \in Nat
      BY <1>7, <1>9
    <3>3. Len(m.data) \in Nat /\ Len(m.data) >= g /\ Len(m.data) > 0
      <4>1. g \in Nat /\ Len(m.data) \in {g, g + 1} /\ calls[Depth - 1].guard < g
        BY <1>2, <1>8, <3>1
      <4> HIDE DEF g
      <4> QED  BY <3>2, <4>1
    <3>4. \A n \in 1 .. Depth - 1 : calls[n].guard <= Len(m.data) - 1
      <4>1. calls[Depth - 1].guard <= Len(m.data) - 1
        <5>1. calls[Depth - 1].guard < g /\ g \in Nat
          BY <1>2, <3>1
        <5> HIDE DEF g
        <5> QED  BY <3>2, <3>3, <5>1
      <4> QED  BY <1>9, <3>2, <3>3, <4>1
    <3>5. Last(m.calls).proc \in Procs
      <4>1. Len(m.calls) \in 1 .. Len(m.calls)
        BY <1>7
      <4> QED  BY <1>3, <4>1, Parts DEF Balanced, Last
    <3>6. value = ref
      BY <2>2
    <3>7. ref \in Operands /\ ref.depth = Depth - 1 /\ ref.kind = "ref"
      BY <1>7, <3>5 DEF Operands, Kinds
    <3> QED  BY <2>2, <3>1, <3>3, <3>4, <3>6, <3>7
  <2> QED  BY <2>1, <2>2
<1> HIDE DEF value
<1>11. /\ popped = Front(m.data) /\ popped \in Seq(Operands) /\ Len(popped) = Len(m.data) - 1
       /\ \A k \in 1 .. Len(m.data) - 1 : popped[k] = m.data[k]
  <2>1. m.data # << >>
    BY <1>10, EmptySeq
  <2> QED  BY <1>8, <1>10, <2>1, Ends
<1> HIDE DEF popped
<1> DEFINE r == [calls |-> m.calls, ip |-> m.ip, data |-> popped]
<1>12. Balanced(r)
  <2>1. Len(popped) <= Len(m.data) /\ \A k \in 1 .. Len(popped) : popped[k] = m.data[k]
    BY <1>10, <1>11
  <2>2. \A n \in 1 .. Len(m.calls) : m.calls[n].guard <= Len(popped)
    BY <1>7, <1>10, <1>11
  <2> QED  BY <1>3, <1>7, <1>11, <2>1, <2>2, DropKeeps
<1>13. r.calls = m.calls /\ r.data = popped
  OBVIOUS
<1> HIDE DEF r
<1>14. Balanced([calls |-> r.calls, ip |-> m.ip, data |-> Append(r.data, value)])
  BY <1>7, <1>10, <1>12, <1>13, PushKeeps
<1>15. Balanced(After)
  BY <1>1, <1>13, <1>14 DEF After
<1>16. Entered(calls', guards', natives') /\ guards' # << >>
  <2>1. Len(calls') = Depth - 1 /\ \A n \in 1 .. Len(calls') : calls'[n] = calls[n]
    BY <1>1, <1>7
  <2>2. Entered(calls', Front(guards), Front(natives))
    <3>1. Len(calls) \in Nat /\ Len(calls') \in Nat /\ guards[Len(guards)] <= Len(calls') + 1
      BY <1>2, <1>5, <1>7, <2>1
    <3> QED  BY <1>2, <1>5, <2>1, <3>1, LeaveLoop
  <2>3. Len(Front(guards)) > 0
    <3>1. Len(Front(guards)) = Len(guards) - 1
      BY <1>2, Ends
    <3> QED  BY <1>2, <1>5, <3>1
  <2> QED  BY <1>1, <2>2, <2>3, EmptySeq
<1>17. Typed' /\ CellsHoldTheirResult'
  <2>1. cells \in [Cells -> Operands \cup {None}] /\ CellsHoldTheirResult
    BY DEF IInv, Typed
  <2>2. cells' \in [Cells -> Operands \cup {None}]
    BY <1>1, <1>10, <2>1
  <2>3. \A d \in Cells : cells'[d] = IF d = c THEN value ELSE cells[d]
    BY <1>1, <2>1
  <2>4. CellsHoldTheirResult'
    BY <1>10, <2>1, <2>3 DEF CellsHoldTheirResult, Cells
  <2> QED  BY <1>1, <2>2, <2>4 DEF Typed
<1> QED  BY <1>15, <1>16, <1>17, NextIInv

LEMMA CatchingIs ==
    ASSUME NEW p \in Procs, NEW e, NEW o, Catching(p, e, o) # 0
    PROVE  Catching(p, e, o) \in 1 .. Len(Checks[p]) /\ Checks[p][Catching(p, e, o)].catch \in Nat
<1> DEFINE c(i) == Checks[p][i]
           I == {i \in 1 .. Len(Checks[p]) : c(i).from <= o /\ o < c(i).to /\ e \in c(i).catches}
           Record == [from : Nat, to : Nat, catch : Nat, catches : SUBSET Exceptions]
<1>1. Catching(p, e, o) = IF I # {} THEN Min(I) ELSE 0
  BY DEF Catching, SelectInSeq
<1>2. Checks[p] \in Seq(Record)
  BY InterpreterAssumption
<1>3. I \subseteq Nat
  BY <1>2, LenProperties
<1>4. I # {}
  BY <1>1
<1>5. Min(I) \in I
  <2> HIDE DEF I
  <2> QED  BY <1>3, <1>4, LeastNumber DEF Min
<1>6. Catching(p, e, o) \in 1 .. Len(Checks[p])
  BY <1>1, <1>4, <1>5
<1>7. Checks[p][Catching(p, e, o)] \in Record
  BY <1>2, <1>6, ElementOfSeq
<1> QED  BY <1>6, <1>7

LEMMA RaiseStep ==
    ASSUME IInv, NEW e \in Exceptions, Raise(e)
    PROVE  IInv'
<1> DEFINE m == Unwound(e)
<1>1. /\ Executing /\ Len(data) > Last(calls).guard /\ calls' = m.calls /\ data' = m.data
      /\ UNCHANGED <<guards, natives, cells>> /\ status' \in {"running", "error"}
  BY DEF Raise, Executing
<1>2. /\ Balanced(Machine) /\ Machine.calls = calls /\ Machine.data = data
      /\ calls \in Seq(Frames) /\ Len(calls) = Depth /\ Depth \in Nat
      /\ data \in Seq(Operands) /\ Len(data) \in Nat /\ ip \in Nat
      /\ Last(calls).guard \in Nat
      /\ \A n \in 1 .. Depth : calls[n].guard \in Nat /\ calls[n].guard <= Last(calls).guard
  BY <1>1, AtInstruction DEF Machine
<1>3. /\ Front(data) \in Seq(Operands) /\ Len(Front(data)) = Len(data) - 1
      /\ \A k \in 1 .. Len(data) - 1 : Front(data)[k] = data[k]
      /\ \A n \in 1 .. Depth : calls[n].guard <= Len(data) - 1
  <2>1. Len(data) > 0 /\ Last(calls).guard <= Len(data) - 1
    BY <1>1, <1>2
  <2>2. \A n \in 1 .. Depth : calls[n].guard <= Len(data) - 1
    BY <1>2, <2>1
  <2> QED  BY <1>2, <2>1, <2>2, Ends
<1>4. Balanced([calls |-> Machine.calls, ip |-> ip, data |-> Front(data)])
  <2>1. Len(Front(data)) <= Len(Machine.data)
    BY <1>2, <1>3
  <2> QED  BY <1>2, <1>3, <2>1, DropKeeps
<1>5. Balanced(Raised)
  BY <1>2, <1>4 DEF Raised, Machine
<1>6. PICK k \in 0 .. Depth : UnwoundTo(m, k)
  BY <1>2, <1>5, UnwoundKeeps
<1> HIDE DEF m
<1>7. /\ Balanced(m) /\ Len(m.calls) = k /\ m.calls \in Seq(Frames) /\ m.ip \in Nat
      /\ m.data \in Seq(Operands)
      /\ \A n \in 1 .. k : m.calls[n] = calls[n]
      /\ \A n \in 1 .. k : m.calls[n].guard <= Len(m.data) /\ m.calls[n].proc \in Procs
  BY <1>6, Parts DEF UnwoundTo, Balanced
<1>8. ASSUME status' = "running" PROVE ip' \in Nat
  <2> DEFINE p == Last(m.calls).proc
             handler == IF m.calls = << >> THEN 0 ELSE Catching(p, e, ip)
  <2>1. ip' = IF handler = 0 THEN m.ip ELSE Checks[p][handler].catch
    BY <1>8 DEF Raise, m
  <2>2. CASE handler = 0
    BY <1>7, <2>1, <2>2
  <2>3. CASE handler # 0
    <3>1. m.calls # << >> /\ handler = Catching(p, e, ip)
      BY <2>3
    <3>2. Len(m.calls) \in 1 .. Len(m.calls)
      BY <1>7, <3>1, EmptySeq
    <3>3. p \in Procs
      BY <1>7, <3>2 DEF Last
    <3> HIDE DEF p
    <3>4. Checks[p][handler].catch \in Nat
      BY <2>3, <3>1, <3>3, CatchingIs
    <3> QED  BY <2>1, <2>3, <3>4
  <2> QED  BY <2>2, <2>3
<1>9. ASSUME status' = "running" PROVE Balanced(After)
  <2>1. ip' \in Nat /\ Len(m.data) \in Nat
    BY <1>7, <1>8, <1>9, LenProperties
  <2>2. Len(m.data) <= Len(m.data)
    BY <2>1
  <2>3. Balanced([calls |-> m.calls, ip |-> ip', data |-> m.data])
    BY <1>7, <2>1, <2>2, DropKeeps
  <2> QED  BY <1>1, <2>3 DEF After, m
<1>10. Len(calls') \in Nat /\ \A n \in 1 .. Depth : n <= Len(calls') => calls'[n] = calls[n]
  <2>1. calls' = m.calls
    BY <1>1 DEF m
  <2> QED  BY <1>2, <1>6, <1>7, <2>1
<1> QED  BY <1>1, <1>9, <1>10, LoopsKept

-----------------------------------------------------------------------------
(* The theorems.                                                           *)

LEMMA InitIInv == Init => IInv
<1> SUFFICES ASSUME Init PROVE IInv
  OBVIOUS
<1> DEFINE f == Frame(Main, 0, TRUE, 0)
<1>1. /\ calls = <<f>> /\ ip = 1 /\ data = << >> /\ guards = <<1>> /\ natives = <<Main>>
      /\ cells = [c \in Cells |-> None] /\ status = "running"
  BY DEF Init, Cells
<1>2. Main \in Procs
  BY DEF Procs
<1>3. f \in Frames /\ f.guard = 0 /\ f.proc = Main /\ f.returnIP = 0
  BY <1>2 DEF Frame, Frames
<1> HIDE DEF f
<1>4. calls \in Seq(Frames) /\ Len(calls) = 1 /\ calls[1] = f /\ \A n \in 1 .. 1 : n = 1
  BY <1>1, <1>3
<1>5. data \in Seq(Operands) /\ Len(data) = 0
  BY <1>1, EmptySeq
<1>6. Machine.calls = calls /\ Machine.data = data /\ Machine \in Machines
  BY <1>1, <1>4, <1>5 DEF Machine, Machines
<1>7. Balanced(Machine)
  <2>1. 1 .. Len(Machine.data) = {} /\ 1 .. Len(Machine.calls) = {1}
    <3>1. Len(Machine.data) = 0 /\ Len(Machine.calls) = 1
      BY <1>4, <1>5, <1>6
    <3>2. 1 .. 0 = {} /\ 1 .. 1 = {1}
      OBVIOUS
    <3> QED  BY <3>1, <3>2
  <2>2. Machine.calls[1].guard <= Len(Machine.data) /\ Machine.calls[1].returnIP = 0
    BY <1>3, <1>4, <1>5, <1>6
  <2> QED  BY <1>6, <2>1, <2>2 DEF Balanced
<1>8. /\ guards \in Seq(Nat) /\ Len(guards) = 1 /\ guards[1] = 1 /\ guards # << >>
      /\ natives \in Seq({Main} \cup Cells) /\ Len(natives) = 1 /\ natives[1] = Main
  BY <1>1
<1>9. Entered(calls, guards, natives)
  BY <1>3, <1>4, <1>8 DEF Entered
<1>10. Typed /\ CellsHoldTheirResult
  BY <1>1 DEF Typed, CellsHoldTheirResult, Cells
<1> QED  BY <1>7, <1>8, <1>9, <1>10 DEF IInv

LEMMA StepIInv == IInv /\ [Next]_vars => IInv'
<1> SUFFICES ASSUME IInv, [Next]_vars PROVE IInv'
  OBVIOUS
<1>1. CASE UNCHANGED vars
  BY <1>1 DEF vars, IInv, Typed, CellsHoldTheirResult, Balanced, Machine, CheckGuard, Depth, Entered
<1>2. CASE Push
  BY <1>2, PushStep DEF Push, Inner, Kinds
<1>3. CASE Pop
  BY <1>3, PopStep
<1>4. ASSUME NEW c \in Cells, LoadCell(c) PROVE IInv'
  BY <1>4, LoadCellStep
<1>5. CASE Return
  BY <1>5, PlainReturnStep, LeavingReturnStep
<1>6. CASE Fail
  <2>1. Typed' /\ CellsHoldTheirResult' /\ status' = "error"
    BY <1>6 DEF Fail, IInv, Typed, CellsHoldTheirResult
  <2> QED  BY <2>1, NextIInv
<1> QED  BY <1>1, <1>2, <1>3, <1>4, <1>5, <1>6, CallStep, NewStep, StoreStaticStep, InitStaticStep,
            InitInstanceStep, RaiseStep DEF Next, Cells

LEMMA AlwaysIInv == Spec => []IInv
<1> QED  BY InitIInv, StepIInv, PTL DEF Spec

\* Each active runSubinterpreter (bytecode_interpreter.cpp) ends with the return of
\* the call it was entered for, for any program and any depth: exceptions that
\* leave the call stop the program first.
THEOREM LoopsEndWithTheirCalls == Spec => []GuardsAreEntries
<1>1. IInv => GuardsAreEntries
  <2> SUFFICES ASSUME IInv, Executing PROVE GuardsAreEntries
    BY DEF GuardsAreEntries
  <2>1. /\ Entered(calls, guards, natives) /\ Len(guards) \in Nat /\ Len(calls) = Depth
        /\ guards \in Seq(Nat) /\ calls \in Seq(Frames) /\ DOMAIN guards = 1 .. Len(guards)
        /\ DOMAIN calls = 1 .. Len(calls)
    BY AtInstruction, LenProperties
  <2>2. \A n \in 1 .. Len(guards) :
           /\ guards[n] \in 1 .. Len(calls)
           /\ calls[guards[n]].proc = IF n = 1 THEN Main ELSE Initializer[natives[n]]
    <3> SUFFICES ASSUME NEW n \in 1 .. Len(guards)
                 PROVE  /\ guards[n] \in 1 .. Len(calls)
                        /\ calls[guards[n]].proc = IF n = 1 THEN Main ELSE Initializer[natives[n]]
      OBVIOUS
    <3>1. n = 1 \/ n \in 2 .. Len(guards)
      BY <2>1
    <3> QED  BY <2>1, <3>1 DEF Entered
  <2>3. \A n \in 2 .. Len(guards) : guards[n - 1] < guards[n]
    <3> SUFFICES ASSUME NEW n \in 2 .. Len(guards) PROVE guards[n - 1] < guards[n]
      OBVIOUS
    <3>1. n - 1 \in 1 .. Len(guards) /\ n \in 1 .. Len(guards) /\ n - 1 < n
      BY <2>1
    <3> QED  BY <2>1, <3>1 DEF Entered
  <2> QED  BY <2>1, <2>2, <2>3 DEF GuardsAreEntries, Entered
<1> QED  BY <1>1, AlwaysIInv, PTL

\* No call, return, exception or initializer (subroutine_manager.cpp) takes an
\* operand of a call below it or leaves one of its own behind.
THEOREM OperandsStayApart == Spec => []OperandsBelongToCalls
<1>1. IInv => OperandsBelongToCalls
  <2> SUFFICES ASSUME IInv, status = "running",
                      NEW n \in DOMAIN calls, NEW k \in DOMAIN data
               PROVE  k <= calls[n].guard <=> data[k].depth < n
    BY DEF OperandsBelongToCalls
  <2>1. Balanced(Machine) /\ Machine.calls = calls /\ Machine.data = data
    BY DEF IInv, Machine
  <2>2. calls \in Seq(Frames) /\ data \in Seq(Operands)
    BY <2>1, Parts DEF Balanced
  <2>3. n \in 1 .. Len(calls) /\ k \in 1 .. Len(data)
    BY <2>2, LenProperties
  <2> QED  BY <2>1, <2>3 DEF Balanced
<1> QED  BY <1>1, AlwaysIInv, PTL

\* A static that is no variable holds what its initializer returned and an instance
\* the object itself, whatever the initializer has called, raised, initialized or
\* assigned in turn.
THEOREM InitializersSetTheirCells == Spec => []CellsHoldTheirResult
<1>1. IInv => CellsHoldTheirResult
  BY DEF IInv
<1> QED  BY <1>1, AlwaysIInv, PTL

=============================================================================
