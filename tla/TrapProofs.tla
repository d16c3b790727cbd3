----------------------------- MODULE TrapProofs -----------------------------
(***************************************************************************)
(* Proofs about Trap: programs run on the translations of their own tables *)
(* (TlbCoherent), exceptions never write to the stack of another program   *)
(* (OnlyOwnStack), and no access of a handler faults (NoNestedAbort), for  *)
(* any number of environments and pages.                                   *)
(***************************************************************************)
EXTENDS Trap, TLAPS

(* What a handler can have left to do.                                     *)
Op == [op : {"write"}, as : AS, va : VA, to : Entry \cup {Invalid}]
      \cup [op : {"flush", "spin"}]
      \cup [op : {"load", "store"}, va : VA]
      \cup [op : {"ttbr0"}, as : AS]

(* Operations that leave TTBR0 alone; of these, the ones that do not write *)
(* to the tables of e.                                                     *)
CalmOp == {o \in Op : o.op # "ttbr0"}
HarmlessOp(e) == {o \in CalmOp : o.op = "write" => o.as # e}

(* The shapes of the variables.                                            *)
Shape ==
  /\ live \subseteq AS /\ cur \in AS \cup {None}
  /\ recv \in [AS -> {"no", "waiting", "mail"}]
  /\ pt \in [AS \cup {Boot} -> [VA -> Entry \cup {Invalid}]]
  /\ ttbr0 \in AS \cup {Boot} /\ sp1 \in AS \cup {Kernel}
  /\ tlb \in [VA -> Entry \cup {Invalid, None}]
  /\ todo \in Seq(Op)

(* SP_EL1 is the kernel's or the running program's.                        *)
StackInv == sp1 # Kernel => sp1 = cur

(* The TLB holds what the tables in TTBR0 say, these are curenv's, and     *)
(* nothing left to do changes that.                                        *)
Coherent ==
  /\ ttbr0 = cur
  /\ \A va \in VA : tlb[va] \in {None, pt[ttbr0][va]}
  /\ todo \in Seq(HarmlessOp(cur))

(* Or t, all that is left to do, has a flush to come after which nothing   *)
(* changes that, and by then TTBR0, base now, holds the tables of e.       *)
FlushAt(k, t, e, base) ==
  /\ t[k].op = "flush"
  /\ \A j \in 1 .. Len(t) : j > k => t[j] \in HarmlessOp(e)
  /\ base = e \/ \E j \in 1 .. Len(t) : j < k /\ t[j].op = "ttbr0"

Settles(t, e, base) ==
  /\ \A j \in 1 .. Len(t) : t[j].op = "ttbr0" => t[j].as = e
  /\ \E k \in 1 .. Len(t) : FlushAt(k, t, e, base)

(* Or the handler never returns.                                           *)
Spins(t) == \E j \in 1 .. Len(t) : t[j].op = "spin"

TlbInv == cur # None => Spins(todo) \/ Coherent \/ Settles(todo, cur, ttbr0)

IInv == Shape /\ StackInv /\ TlbInv
-----------------------------------------------------------------------------
(* Sequences of operations.                                                *)

(* A sequence behind another one: its elements, by their positions.        *)
LEMMA Concat ==
  ASSUME NEW S, NEW s \in Seq(S), NEW t \in Seq(S)
  PROVE  /\ s \o t \in Seq(S)
         /\ Len(s \o t) = Len(s) + Len(t)
         /\ \A j \in 1 .. Len(s) : (s \o t)[j] = s[j]
         /\ \A j \in 1 .. Len(t) : (s \o t)[Len(s) + j] = t[j]
  OBVIOUS

(* Short sequences.                                                        *)
LEMMA Short ==
  ASSUME NEW S, NEW x \in S, NEW y \in S
  PROVE  <<>> \in Seq(S) /\ <<x>> \in Seq(S) /\ <<x, y>> \in Seq(S)
  OBVIOUS

(* What is left after the first operation.                                 *)
LEMMA TailOf ==
  ASSUME NEW S, NEW s \in Seq(S), s # <<>>
  PROVE  /\ Len(s) \in Nat \ {0} /\ Head(s) = s[1]
         /\ Tail(s) \in Seq(S) /\ Len(Tail(s)) = Len(s) - 1
         /\ \A j \in 1 .. Len(Tail(s)) : Tail(s)[j] = s[j + 1]
  OBVIOUS

(* A sequence over a larger set.                                           *)
LEMMA Wider ==
  ASSUME NEW S, NEW T, S \subseteq T, NEW s \in Seq(S)
  PROVE  s \in Seq(T)
  OBVIOUS

(* The operations that handlers are made of.                               *)
LEMMA Ops ==
  /\ FlushOp \in CalmOp /\ FlushOp.op = "flush"
  /\ SpinOp \in CalmOp /\ SpinOp.op = "spin"
  /\ \A va \in VA : Load(va) \in CalmOp /\ Store(va) \in CalmOp
  /\ \A va \in VA : Load(va).op = "load" /\ Store(va).op = "store"
  /\ \A e \in AS, va \in VA, x \in Entry \cup {Invalid} :
       WriteOp(e, va, x) \in CalmOp /\ WriteOp(e, va, x).op = "write"
                                    /\ WriteOp(e, va, x).as = e
  /\ \A e : FlushOp \in HarmlessOp(e)
  /\ \A e : \A va \in VA : Load(va) \in HarmlessOp(e) /\ Store(va) \in HarmlessOp(e)
  /\ \A f : \A e \in AS, va \in VA, x \in Entry \cup {Invalid} :
       e # f => WriteOp(e, va, x) \in HarmlessOp(f)
  BY DEF FlushOp, SpinOp, Load, Store, WriteOp, CalmOp, HarmlessOp, Op
-----------------------------------------------------------------------------
(* The parts of handlers.                                                  *)

(* Saving x0 writes to no table.                                           *)
LEMMA PushHarmless == ASSUME NEW f PROVE push_time_stack \in Seq(HarmlessOp(f))
<1>1. Store("stack") \in HarmlessOp(f)
  BY Ops DEF VA
<1>2. <<>> \in Seq(HarmlessOp(f)) /\ <<Store("stack")>> \in Seq(HarmlessOp(f))
  BY <1>1, Short
<1> QED BY <1>2 DEF push_time_stack

(* page_remove leaves TTBR0 alone, and the tables of others.               *)
LEMMA RemoveCalm ==
  ASSUME NEW e \in AS, NEW va \in VA, NEW held
  PROVE  /\ page_remove(e, va, held) \in Seq(CalmOp)
         /\ \A f : e # f => page_remove(e, va, held) \in Seq(HarmlessOp(f))
<1>1. /\ WriteOp(e, va, Invalid) \in CalmOp /\ FlushOp \in CalmOp
      /\ \A f : e # f => WriteOp(e, va, Invalid) \in HarmlessOp(f)
      /\ \A f : FlushOp \in HarmlessOp(f)
  BY Ops
<1>2. /\ <<>> \in Seq(CalmOp) /\ <<WriteOp(e, va, Invalid), FlushOp>> \in Seq(CalmOp)
      /\ \A f : e # f => /\ <<>> \in Seq(HarmlessOp(f))
                         /\ <<WriteOp(e, va, Invalid), FlushOp>> \in Seq(HarmlessOp(f))
  BY <1>1, Short
<1> QED BY <1>2 DEF page_remove

(* So does page_insert.                                                    *)
LEMMA InsertCalm ==
  ASSUME NEW e \in AS, NEW va \in VA, NEW new \in Entry, NEW held
  PROVE  /\ page_insert(e, va, new, held) \in Seq(CalmOp)
         /\ \A f : e # f => page_insert(e, va, new, held) \in Seq(HarmlessOp(f))
<1>0. /\ WriteOp(e, va, new) \in CalmOp /\ FlushOp \in CalmOp
      /\ \A f : e # f => WriteOp(e, va, new) \in HarmlessOp(f)
      /\ \A f : FlushOp \in HarmlessOp(f)
  BY Ops
<1>1. /\ <<FlushOp, WriteOp(e, va, new)>> \in Seq(CalmOp)
      /\ \A f : e # f => <<FlushOp, WriteOp(e, va, new)>> \in Seq(HarmlessOp(f))
  BY <1>0, Short
<1>2. CASE held # Invalid /\ held.page # new.page
  <2>1. page_insert(e, va, new, held)
          = page_remove(e, va, held) \o <<FlushOp, WriteOp(e, va, new)>>
    BY <1>2 DEF page_insert
  <2> QED BY <1>1, <2>1, RemoveCalm, Concat
<1>3. CASE ~(held # Invalid /\ held.page # new.page)
  <2>1. page_insert(e, va, new, held)
          = <<>> \o <<FlushOp, WriteOp(e, va, new)>>
    BY <1>3 DEF page_insert
  <2> QED BY <1>1, <2>1
<1> QED BY <1>2, <1>3

(* Harmless operations are calm.                                           *)
LEMMA HarmlessCalm ==
  ASSUME NEW f, NEW s \in Seq(HarmlessOp(f)) PROVE s \in Seq(CalmOp) /\ s \in Seq(Op)
<1>1. HarmlessOp(f) \subseteq CalmOp /\ CalmOp \subseteq Op
  BY DEF HarmlessOp, CalmOp
<1> QED BY <1>1, Wider

(* Entries that _fork and the fault handler make.                          *)
LEMMA Entries ==
  /\ \A x \in Entry : ReadOnly(x) \in Entry
  /\ \A p \in Page : Writable(p) \in Entry
  BY DEF Entry, ReadOnly, Writable

(* _fork ends with a flush.                                                *)
LEMMA ForkEndsFlushing ==
  ASSUME Shape, cur \in AS, NEW c \in AS, NEW q \in Page
  PROVE  \E s \in Seq(CalmOp) : ForkOps(c, q) = s \o <<FlushOp>>
<1> DEFINE data == pt[cur]["data"]
           shared == ReadOnly(data)
           share == IF data = Invalid THEN <<>>
                    ELSE page_insert(cur, "data", shared, data)
                         \o page_insert(c, "data", shared, Invalid)
           stack == page_insert(c, "stack", Writable(q), Invalid)
           s == ((push_time_stack \o share) \o <<Load("stack")>>) \o stack
<1>1. data \in Entry \cup {Invalid} /\ "data" \in VA /\ "stack" \in VA
  BY DEF Shape, VA
<1>2. push_time_stack \in Seq(CalmOp)
  BY PushHarmless, HarmlessCalm
<1>3. share \in Seq(CalmOp)
  <2>1. CASE data = Invalid
    BY <2>1
  <2>2. CASE data # Invalid
    <3>1. shared \in Entry
      BY <1>1, <2>2, Entries
    <3>2. /\ page_insert(cur, "data", shared, data) \in Seq(CalmOp)
          /\ page_insert(c, "data", shared, Invalid) \in Seq(CalmOp)
      BY <1>1, <3>1, InsertCalm
    <3> QED BY <2>2, <3>2, Concat
  <2> QED BY <2>1, <2>2
<1>4. stack \in Seq(CalmOp)
  BY <1>1, Entries, InsertCalm
<1>5. <<Load("stack")>> \in Seq(CalmOp)
  BY <1>1, Ops
<1>6. s \in Seq(CalmOp)
  <2> HIDE DEF share, stack
  <2> QED BY <1>2, <1>3, <1>4, <1>5, Concat
<1>7. ForkOps(c, q) = s \o <<FlushOp>>
  BY DEF ForkOps
<1> QED BY <1>6, <1>7

(* So does the fault handler.                                              *)
LEMMA FaultEndsFlushing ==
  ASSUME Shape, cur \in AS, NEW q \in Page
  PROVE  \E s \in Seq(CalmOp) : FaultOps(q) = s \o <<FlushOp>>
<1> DEFINE old == pt[cur]["data"]
           temp == page_insert(cur, "temp", Writable(q), Invalid)
           copy == <<Load("data"), Store("temp")>>
           new == page_insert(cur, "data", Writable(q), old)
           gone == page_remove(cur, "temp", Writable(q))
           s == (((push_time_stack \o temp) \o copy) \o new) \o gone
<1>1. /\ push_time_stack \in Seq(CalmOp) /\ temp \in Seq(CalmOp)
      /\ copy \in Seq(CalmOp) /\ new \in Seq(CalmOp) /\ gone \in Seq(CalmOp)
  BY PushHarmless, HarmlessCalm, Entries, InsertCalm, RemoveCalm, Ops DEF VA
<1>2. s \in Seq(CalmOp)
  <2> HIDE DEF temp, copy, new, gone
  <2> QED BY <1>1, Concat
<1>3. FaultOps(q) = s \o <<FlushOp>>
  BY DEF FaultOps
<1> QED BY <1>2, <1>3

(* Giving up the pages leaves TTBR0 alone.                                 *)
LEMMA DestroyCalm == ASSUME cur \in AS PROVE DestroyOps \in Seq(CalmOp)
<1>1. /\ push_time_stack \in Seq(CalmOp)
      /\ page_remove(cur, "data", pt[cur]["data"]) \in Seq(CalmOp)
      /\ page_remove(cur, "stack", pt[cur]["stack"]) \in Seq(CalmOp)
  BY PushHarmless, HarmlessCalm, RemoveCalm DEF VA
<1> QED BY <1>1, Concat DEF DestroyOps

(* env_run loads TTBR0, flushes, and stores results at most.               *)
LEMMA RunShape ==
  ASSUME NEW e \in AS
  PROVE  /\ env_run(e) \in Seq(Op) /\ Len(env_run(e)) >= 2
         /\ env_run(e)[1].op = "ttbr0" /\ env_run(e)[1].as = e
         /\ env_run(e)[2].op = "flush"
         /\ \A f : \A j \in 1 .. Len(env_run(e)) : j > 1 => env_run(e)[j] \in HarmlessOp(f)
<1> DEFINE load == [op |-> "ttbr0", as |-> e]
<1>1. /\ load \in Op /\ load.op = "ttbr0" /\ load.as = e
      /\ FlushOp \in Op /\ FlushOp.op = "flush" /\ Store("stack") \in Op
  <2>1. load \in Op
    BY DEF Op
  <2>2. CalmOp \subseteq Op
    BY DEF CalmOp
  <2> QED BY <2>1, <2>2, Ops DEF VA
<1>2. \A f : FlushOp \in HarmlessOp(f) /\ Store("stack") \in HarmlessOp(f)
  BY Ops DEF VA
<1> DEFINE first == <<load, FlushOp>>
           results == IF recv[e] = "mail" THEN <<Store("stack")>> ELSE <<>>
<1>3. first \in Seq(Op) /\ Len(first) = 2 /\ first[1] = load /\ first[2] = FlushOp
  <2> HIDE DEF load
  <2> QED BY <1>1
<1>4. /\ results \in Seq(Op) /\ Len(results) \in 0 .. 1
      /\ \A j \in 1 .. Len(results) : results[j] = Store("stack")
  BY <1>1
<1>5. env_run(e) = first \o results
  BY DEF env_run
<1>6. /\ env_run(e) \in Seq(Op) /\ Len(env_run(e)) = 2 + Len(results)
      /\ \A j \in 1 .. 2 : env_run(e)[j] = first[j]
      /\ \A j \in 1 .. Len(results) : env_run(e)[2 + j] = results[j]
  <2> HIDE DEF first, results
  <2>0. first \in Seq(Op) /\ results \in Seq(Op)
    BY <1>3, <1>4
  <2>1. /\ first \o results \in Seq(Op)
        /\ Len(first \o results) = Len(first) + Len(results)
        /\ \A j \in 1 .. Len(first) : (first \o results)[j] = first[j]
        /\ \A j \in 1 .. Len(results) : (first \o results)[Len(first) + j] = results[j]
    BY <2>0, Concat
  <2>2. Len(first) = 2
    BY <1>3
  <2> QED BY <2>1, <2>2, <1>5
<1>7. ASSUME NEW f, NEW j \in 1 .. Len(env_run(e)), j > 1
      PROVE  env_run(e)[j] \in HarmlessOp(f)
  <2> HIDE DEF first, results
  <2>1. CASE j = 2
    BY <2>1, <1>2, <1>3, <1>6
  <2>2. CASE j > 2
    <3>1. j - 2 \in 1 .. Len(results)
      BY <2>2, <1>4, <1>6
    <3> QED BY <3>1, <1>2, <1>4, <1>6
  <2> QED BY <2>1, <2>2, <1>7
<1> HIDE DEF first, results, load
<1> QED BY <1>1, <1>3, <1>4, <1>6, <1>7

(* Operations that end with a flush.                                       *)
LEMMA FlushEnds ==
  ASSUME NEW e \in AS, NEW s \in Seq(CalmOp)
  PROVE  s \o <<FlushOp>> \in Seq(Op) /\ Settles(s \o <<FlushOp>>, e, e)
<1> DEFINE t == s \o <<FlushOp>>
<1>1. /\ FlushOp \in CalmOp /\ FlushOp.op = "flush" /\ <<FlushOp>> \in Seq(CalmOp)
      /\ Len(<<FlushOp>>) = 1 /\ <<FlushOp>>[1] = FlushOp
  BY Ops
<1>2. /\ t \in Seq(CalmOp) /\ Len(t) = Len(s) + 1 /\ t[Len(t)] = FlushOp
  BY <1>1, Concat
<1>3. Len(s) \in Nat
  OBVIOUS
<1> HIDE DEF t
<1>4. \A j \in 1 .. Len(t) : t[j].op # "ttbr0"
  BY <1>2 DEF CalmOp
<1>5. FlushAt(Len(t), t, e, e)
  BY <1>1, <1>2, <1>3 DEF FlushAt
<1>6. t \in Seq(Op)
  <2>1. CalmOp \subseteq Op
    BY DEF CalmOp
  <2> QED BY <1>2, <2>1, Wider
<1>7. Settles(t, e, e)
  BY <1>2, <1>3, <1>4, <1>5 DEF Settles
<1> QED BY <1>6, <1>7 DEF t

(* Operations that end with env_run.                                       *)
LEMMA RunEnds ==
  ASSUME NEW e \in AS, NEW s \in Seq(CalmOp), NEW base
  PROVE  s \o env_run(e) \in Seq(Op) /\ Settles(s \o env_run(e), e, base)
<1> DEFINE t == s \o env_run(e)
           k == Len(s) + 2
<1>1. s \in Seq(Op) /\ Len(s) \in Nat /\ \A j \in 1 .. Len(s) : s[j].op # "ttbr0"
  <2>1. CalmOp \subseteq Op
    BY DEF CalmOp
  <2>2. s \in Seq(Op)
    BY <2>1, Wider
  <2> QED BY <2>2 DEF CalmOp
<1>2. /\ env_run(e) \in Seq(Op) /\ Len(env_run(e)) \in Nat /\ Len(env_run(e)) >= 2
      /\ env_run(e)[1].op = "ttbr0" /\ env_run(e)[1].as = e
      /\ env_run(e)[2].op = "flush"
      /\ \A j \in 1 .. Len(env_run(e)) : j > 1 => env_run(e)[j] \in HarmlessOp(e)
  <2>1. env_run(e) \in Seq(Op) /\ Len(env_run(e)) \in Nat
    BY RunShape
  <2> QED BY <2>1, RunShape
<1>3. /\ t \in Seq(Op) /\ Len(t) = Len(s) + Len(env_run(e))
      /\ \A j \in 1 .. Len(s) : t[j] = s[j]
      /\ \A j \in 1 .. Len(env_run(e)) : t[Len(s) + j] = env_run(e)[j]
  BY <1>1, <1>2, Concat
<1> HIDE DEF t
<1>4. k \in 1 .. Len(t) /\ t[k].op = "flush"
  BY <1>1, <1>2, <1>3
<1>5. Len(s) + 1 \in 1 .. Len(t) /\ t[Len(s) + 1].op = "ttbr0"
  BY <1>1, <1>2, <1>3
<1>6. ASSUME NEW j \in 1 .. Len(t), j > Len(s) + 1 PROVE t[j] \in HarmlessOp(e)
  <2>1. j - Len(s) \in 1 .. Len(env_run(e)) /\ j - Len(s) > 1
    BY <1>1, <1>2, <1>3, <1>6
  <2>2. t[j] = env_run(e)[j - Len(s)]
    <3>1. j = Len(s) + (j - Len(s))
      BY <1>1
    <3> QED BY <2>1, <3>1, <1>3
  <2> QED BY <2>1, <2>2, <1>2
<1>7. ASSUME NEW j \in 1 .. Len(t), t[j].op = "ttbr0" PROVE t[j].as = e
  <2>1. CASE j \in 1 .. Len(s)
    BY <2>1, <1>1, <1>3, <1>7
  <2>2. CASE j = Len(s) + 1
    BY <2>2, <1>1, <1>2, <1>3
  <2>3. CASE j > Len(s) + 1
    BY <2>3, <1>6, <1>7 DEF HarmlessOp, CalmOp
  <2> QED BY <2>1, <2>2, <2>3, <1>1
<1>8. FlushAt(k, t, e, base)
  BY <1>1, <1>4, <1>5, <1>6 DEF FlushAt
<1>9. Settles(t, e, base)
  BY <1>4, <1>7, <1>8 DEF Settles
<1> QED BY <1>3, <1>9 DEF t

(* _sched_yield with nobody to run.                                        *)
LEMMA SpinEnds ==
  ASSUME NEW s \in Seq(CalmOp)
  PROVE  Append(s, SpinOp) \in Seq(Op) /\ Spins(Append(s, SpinOp))
<1>1. CalmOp \subseteq Op /\ SpinOp \in Op /\ SpinOp.op = "spin"
  BY Ops DEF CalmOp
<1>2. s \in Seq(Op)
  BY <1>1, Wider
<1>3. /\ Append(s, SpinOp) \in Seq(Op) /\ Len(Append(s, SpinOp)) = Len(s) + 1
      /\ Append(s, SpinOp)[Len(s) + 1] = SpinOp /\ Len(s) \in Nat
  BY <1>1, <1>2
<1>4. Len(s) + 1 \in 1 .. Len(Append(s, SpinOp))
  BY <1>3
<1> QED BY <1>1, <1>3, <1>4 DEF Spins

(* One operation of a handler that settles.                                *)
LEMMA TailSettles ==
  ASSUME NEW e, NEW base, NEW t \in Seq(Op), t # <<>>, Settles(t, e, base)
  PROVE  /\ Head(t).op = "ttbr0" => Head(t).as = e /\ Settles(Tail(t), e, e)
         /\ Head(t).op \notin {"ttbr0", "flush"} => Settles(Tail(t), e, base)
         /\ Head(t).op = "flush" =>
              \/ Settles(Tail(t), e, base)
              \/ base = e /\ Tail(t) \in Seq(HarmlessOp(e))
<1> DEFINE u == Tail(t)
<1>1. /\ Len(t) \in Nat \ {0} /\ Head(t) = t[1] /\ u \in Seq(Op)
      /\ Len(u) = Len(t) - 1 /\ \A j \in 1 .. Len(u) : u[j] = t[j + 1]
  BY TailOf
<1>2. PICK k \in 1 .. Len(t) : FlushAt(k, t, e, base)
  BY DEF Settles
<1> HIDE DEF u
<1>3. \A j \in 1 .. Len(t) : t[j].op = "ttbr0" => t[j].as = e
  BY DEF Settles
<1>4. \A j \in 1 .. Len(u) : u[j].op = "ttbr0" => u[j].as = e
  <2> TAKE j \in 1 .. Len(u)
  <2>1. j + 1 \in 1 .. Len(t)
    BY <1>1
  <2> QED BY <2>1, <1>1, <1>3
<1>5. \A j \in 1 .. Len(u) : j > k - 1 => u[j] \in HarmlessOp(e)
  <2> TAKE j \in 1 .. Len(u)
  <2>1. j + 1 \in 1 .. Len(t)
    BY <1>1
  <2> QED BY <2>1, <1>1, <1>2 DEF FlushAt
<1>6. CASE k = 1
  <2>1. Head(t).op = "flush" /\ base = e
    BY <1>1, <1>2, <1>6 DEF FlushAt
  <2>2. u \in Seq(HarmlessOp(e))
    BY <1>1, <1>5, <1>6
  <2> QED BY <2>1, <2>2 DEF u
<1>7. CASE k > 1
  <2>1. k - 1 \in 1 .. Len(u) /\ u[k - 1] = t[k]
    BY <1>1, <1>7
  <2>2. u[k - 1].op = "flush"
    BY <2>1, <1>2 DEF FlushAt
  <2>3. Head(t).op = "ttbr0" => Head(t).as = e /\ Settles(u, e, e)
    <3>1. FlushAt(k - 1, u, e, e)
      BY <2>2, <1>5 DEF FlushAt
    <3> QED BY <3>1, <2>1, <1>1, <1>3, <1>4 DEF Settles
  <2>4. Head(t).op # "ttbr0" => Settles(u, e, base)
    <3> HAVE Head(t).op # "ttbr0"
    <3>1. ASSUME NEW j \in 1 .. Len(t), j < k, t[j].op = "ttbr0"
          PROVE  \E i \in 1 .. Len(u) : i < k - 1 /\ u[i].op = "ttbr0"
      <4>1. j # 1
        BY <1>1, <3>1
      <4>2. j - 1 \in 1 .. Len(u) /\ j - 1 < k - 1 /\ u[j - 1] = t[j]
        BY <4>1, <1>1, <3>1
      <4> QED BY <4>2, <3>1
    <3>2. FlushAt(k - 1, u, e, base)
      BY <3>1, <2>2, <1>2, <1>5 DEF FlushAt
    <3> QED BY <3>2, <2>1, <1>4 DEF Settles
  <2> QED BY <2>3, <2>4 DEF u
<1> QED BY <1>6, <1>7, <1>2

(* A handler that spins keeps spinning.                                    *)
LEMMA TailSpins ==
  ASSUME NEW t \in Seq(Op), t # <<>>, Spins(t), Head(t).op # "spin"
  PROVE  Spins(Tail(t))
<1>1. /\ Len(t) \in Nat \ {0} /\ Head(t) = t[1]
      /\ Len(Tail(t)) = Len(t) - 1 /\ \A j \in 1 .. Len(Tail(t)) : Tail(t)[j] = t[j + 1]
  BY TailOf
<1>2. PICK j \in 1 .. Len(t) : t[j].op = "spin"
  BY DEF Spins
<1>3. j # 1
  BY <1>1, <1>2
<1>4. j - 1 \in 1 .. Len(Tail(t)) /\ Tail(t)[j - 1] = t[j]
  BY <1>1, <1>3
<1> QED BY <1>2, <1>4 DEF Spins
-----------------------------------------------------------------------------
(* The invariant holds of the initial states.                              *)
LEMMA InitInv == Init => IInv
<1> SUFFICES ASSUME Init PROVE IInv
  OBVIOUS
<1>1. PICK e \in AS, p \in Page, q \in Page :
        /\ live = {e}
        /\ pt = [a \in AS \cup {Boot} |-> [va \in VA |->
             IF a = e /\ va = "data" THEN Writable(p)
             ELSE IF a = e /\ va = "stack" THEN Writable(q)
             ELSE IF a = Boot /\ va = "data"
                  THEN [page |-> KernelPage, ap |-> "RW_EL1"] ELSE Invalid]]
  BY DEF Init
<1>2. pt \in [AS \cup {Boot} -> [VA -> Entry \cup {Invalid}]]
  <2>1. [page |-> KernelPage, ap |-> "RW_EL1"] \in Entry
    BY DEF Entry
  <2>2. Writable(p) \in Entry /\ Writable(q) \in Entry
    BY Entries
  <2> QED BY <1>1, <2>1, <2>2
<1>3. todo \in Seq(Op)
  BY DEF Init
<1>4. Shape
  BY <1>1, <1>2, <1>3 DEF Init, Shape
<1> QED BY <1>4 DEF Init, IInv, StackInv, TlbInv

(* _sched_yield after calm operations leaves a handler that flushes.       *)
LEMMA ScheduleInv ==
  ASSUME Shape, NEW before \in Seq(CalmOp), NEW set \in SUBSET AS, Schedule(before, set)
  PROVE  /\ todo' \in Seq(Op) /\ cur' \in AS \cup {None}
         /\ recv' \in [AS -> {"no", "waiting", "mail"}]
         /\ ttbr0' \in AS \cup {Boot} => TlbInv'
<1>1. CASE \E e \in set : /\ cur' = e
                          /\ recv' = [recv EXCEPT ![e] = "no"]
                          /\ todo' = before \o env_run(e)
  <2>1. PICK e \in set : /\ cur' = e
                         /\ recv' = [recv EXCEPT ![e] = "no"]
                         /\ todo' = before \o env_run(e)
    BY <1>1
  <2>2. e \in AS /\ recv' \in [AS -> {"no", "waiting", "mail"}]
    BY <2>1 DEF Shape
  <2>3. todo' \in Seq(Op) /\ Settles(todo', cur', ttbr0')
    BY <2>1, <2>2, RunEnds
  <2> QED BY <2>1, <2>2, <2>3 DEF TlbInv
<1>2. CASE set = {} /\ todo' = Append(before, SpinOp) /\ UNCHANGED <<cur, recv>>
  <2>1. todo' \in Seq(Op) /\ Spins(todo')
    BY <1>2, SpinEnds
  <2> QED BY <1>2, <2>1 DEF Shape, TlbInv
<1> QED BY <1>1, <1>2 DEF Schedule

(* Between exceptions the TLB is coherent.                                 *)
LEMMA Between ==
  ASSUME IInv, UserMode
  PROVE  /\ cur \in AS /\ ttbr0 = cur
         /\ \A va \in VA : tlb[va] \in {None, pt[ttbr0][va]}
<1>1. cur \in AS /\ ~Spins(todo) /\ ~Settles(todo, cur, ttbr0)
  BY DEF UserMode, IInv, Shape, Spins, Settles
<1> QED BY <1>1 DEF UserMode, IInv, TlbInv, Coherent

(* Calls on the caller's stack that do not write to its tables.            *)
LEMMA UserStackInv ==
  ASSUME IInv, NEW ops \in Seq(HarmlessOp(cur)), OnUserStack(ops),
         UNCHANGED <<live, cur, pt, ttbr0, tlb>>,
         recv' \in [AS -> {"no", "waiting", "mail"}]
  PROVE  IInv'
<1>1. /\ UserMode /\ todo' = push_time_stack \o <<Store("stack")>> \o ops /\ sp1' = cur
  BY DEF OnUserStack
<1>2. /\ cur \in AS /\ ttbr0 = cur
      /\ \A va \in VA : tlb[va] \in {None, pt[ttbr0][va]}
  BY <1>1, Between
<1>3. todo' \in Seq(HarmlessOp(cur))
  <2>1. <<Store("stack")>> \in Seq(HarmlessOp(cur))
    BY Ops DEF VA
  <2>2. push_time_stack \in Seq(HarmlessOp(cur))
    BY PushHarmless
  <2>3. push_time_stack \o <<Store("stack")>> \in Seq(HarmlessOp(cur))
    BY <2>1, <2>2, Concat
  <2> QED BY <1>1, <2>3, Concat
<1>4. todo' \in Seq(Op)
  BY <1>3, HarmlessCalm
<1>5. Shape'
  BY <1>1, <1>2, <1>4 DEF IInv, Shape
<1>6. StackInv' /\ TlbInv'
  BY <1>1, <1>2, <1>3 DEF StackInv, TlbInv, Coherent
<1> QED BY <1>5, <1>6 DEF IInv

(* Handlers on the kernel stack that end with a flush.                     *)
LEMMA KernelStackInv ==
  ASSUME IInv, OnKernelStack, NEW s \in Seq(CalmOp), todo' = s \o <<FlushOp>>,
         UNCHANGED <<cur, recv, pt, ttbr0, tlb>>, live' \subseteq AS
  PROVE  IInv'
<1>1. UserMode /\ sp1' = Kernel
  BY DEF OnKernelStack
<1>2. cur \in AS /\ ttbr0 = cur
  BY <1>1, Between
<1>3. todo' \in Seq(Op) /\ Settles(todo', cur, cur)
  BY <1>2, FlushEnds
<1>4. Shape'
  BY <1>1, <1>3 DEF IInv, Shape
<1> QED BY <1>1, <1>2, <1>3, <1>4 DEF IInv, StackInv, TlbInv

(* Handlers on the kernel stack that end in _sched_yield.                  *)
LEMMA YieldInv ==
  ASSUME IInv, NEW before \in Seq(CalmOp), NEW set \in SUBSET AS, Schedule(before, set),
         UNCHANGED <<pt, ttbr0, tlb>>, sp1' = Kernel, live' \subseteq AS
  PROVE  IInv'
<1>1. /\ todo' \in Seq(Op) /\ cur' \in AS \cup {None}
      /\ recv' \in [AS -> {"no", "waiting", "mail"}]
      /\ ttbr0' \in AS \cup {Boot} => TlbInv'
  BY ScheduleInv DEF IInv
<1>2. Shape'
  BY <1>1 DEF IInv, Shape
<1> QED BY <1>1, <1>2 DEF IInv, StackInv, Shape
-----------------------------------------------------------------------------
(* The exceptions preserve the invariant.                                  *)

(* The timer's interrupt.                                                  *)
LEMMA IRQInv == ASSUME IInv, IRQStub PROVE IInv'
<1>1. push_time_stack \in Seq(CalmOp)
  BY PushHarmless, HarmlessCalm
<1>2. Runnable \in SUBSET AS /\ live' \subseteq AS
  BY DEF IRQStub, Runnable, IInv, Shape
<1> QED BY <1>1, <1>2, YieldInv DEF IRQStub

(* The system call that yields.                                            *)
LEMMA SchedYieldInv == ASSUME IInv, _sched_yield PROVE IInv'
<1>1. push_time_stack \in Seq(CalmOp)
  BY PushHarmless, HarmlessCalm
<1>2. Runnable \in SUBSET AS /\ live' \subseteq AS
  BY DEF _sched_yield, Runnable, IInv, Shape
<1> QED BY <1>1, <1>2, YieldInv DEF _sched_yield, OnKernelStack

(* The end of a program.                                                   *)
LEMMA DestroyInv == ASSUME IInv, _env_destroy PROVE IInv'
<1>1. UserMode /\ sp1' = Kernel
  BY DEF _env_destroy, OnKernelStack
<1>2. DestroyOps \in Seq(CalmOp)
  BY <1>1, Between, DestroyCalm
<1>3. Runnable \ {cur} \in SUBSET AS /\ live' \subseteq AS
  BY DEF _env_destroy, Runnable, IInv, Shape
<1> QED BY <1>1, <1>2, <1>3, YieldInv DEF _env_destroy

(* Calls that only read.                                                   *)
LEMMA CallInv == ASSUME IInv, Call PROVE IInv'
<1>1. /\ <<>> \in Seq(HarmlessOp(cur)) /\ <<Load("data")>> \in Seq(HarmlessOp(cur))
  BY Ops DEF VA
<1>2. recv' \in [AS -> {"no", "waiting", "mail"}]
  BY DEF Call, IInv, Shape
<1> QED BY <1>1, <1>2, UserStackInv DEF Call

(* A program begins to receive.                                            *)
LEMMA CanRecvInv == ASSUME IInv, _ipc_can_recv PROVE IInv'
<1>1. <<>> \in Seq(HarmlessOp(cur))
  OBVIOUS
<1>2. recv' \in [AS -> {"no", "waiting", "mail"}]
  BY DEF _ipc_can_recv, IInv, Shape
<1> QED BY <1>1, <1>2, UserStackInv DEF _ipc_can_recv

(* A message, with a page that goes into the tables of another program.    *)
LEMMA CanSendInv ==
  ASSUME IInv, NEW r \in AS, NEW ap \in {"RW_ALL", "RO_ALL"}, _ipc_can_send(r, ap)
  PROVE  IInv'
<1>1. recv' \in [AS -> {"no", "waiting", "mail"}]
  BY DEF _ipc_can_send, IInv, Shape
<1>2. CASE OnUserStack(<<>>)
  <2>1. <<>> \in Seq(HarmlessOp(cur))
    OBVIOUS
  <2> QED BY <1>1, <1>2, <2>1, UserStackInv DEF _ipc_can_send
<1>3. CASE /\ pt[cur]["data"] # Invalid
           /\ OnUserStack(page_insert(r, "data",
                [page |-> pt[cur]["data"].page, ap |-> ap], pt[r]["data"]))
  <2>1. cur \in AS /\ r # cur
    BY <1>3, Between DEF OnUserStack, _ipc_can_send
  <2>2. pt[cur]["data"] \in Entry
    BY <1>3, <2>1 DEF IInv, Shape, VA
  <2>3. [page |-> pt[cur]["data"].page, ap |-> ap] \in Entry
    BY <2>2 DEF Entry
  <2>4. page_insert(r, "data", [page |-> pt[cur]["data"].page, ap |-> ap], pt[r]["data"])
          \in Seq(HarmlessOp(cur))
    BY <2>1, <2>3, InsertCalm DEF VA
  <2> QED BY <1>1, <1>3, <2>4, UserStackInv DEF _ipc_can_send
<1> QED BY <1>2, <1>3 DEF _ipc_can_send

(* The child's tables are new, the parent's are flushed at the end.        *)
LEMMA ForkInv == ASSUME IInv, NEW c \in AS, _fork(c) PROVE IInv'
<1>1. PICK q \in Page : todo' = ForkOps(c, q)
  BY DEF _fork, Free
<1>2. cur \in AS
  BY Between DEF _fork, OnKernelStack
<1>3. PICK s \in Seq(CalmOp) : ForkOps(c, q) = s \o <<FlushOp>>
  BY <1>2, ForkEndsFlushing DEF IInv
<1>4. live' \subseteq AS
  BY DEF _fork, IInv, Shape
<1> QED BY <1>1, <1>3, <1>4, KernelStackInv DEF _fork

(* The copy of a page, flushed at the end.                                 *)
LEMMA FaultInv == ASSUME IInv, mmu_fault_handler PROVE IInv'
<1>1. PICK q \in Page : todo' = FaultOps(q)
  BY DEF mmu_fault_handler, Free
<1>2. cur \in AS
  BY Between DEF mmu_fault_handler, OnKernelStack
<1>3. PICK s \in Seq(CalmOp) : FaultOps(q) = s \o <<FlushOp>>
  BY <1>2, FaultEndsFlushing DEF IInv
<1>4. live' \subseteq AS
  BY DEF mmu_fault_handler, IInv, Shape
<1> QED BY <1>1, <1>3, <1>4, KernelStackInv DEF mmu_fault_handler
-----------------------------------------------------------------------------
(* So do the operations of the handlers, and the MMU's.                    *)

(* The first operation, and what is left.                                  *)
LEMMA FirstOp ==
  ASSUME IInv, NEW op, Begins(op)
  PROVE  /\ todo \in Seq(Op) /\ todo # <<>> /\ Head(todo) \in Op /\ Head(todo).op = op
         /\ todo' = Tail(todo) /\ todo' \in Seq(Op)
         /\ \A e : todo \in Seq(HarmlessOp(e)) =>
              Head(todo) \in HarmlessOp(e) /\ todo' \in Seq(HarmlessOp(e))
<1>1. todo \in Seq(Op) /\ todo # <<>> /\ Head(todo).op = op /\ todo' = Tail(todo)
  BY DEF Begins, IInv, Shape
<1> QED BY <1>1, TailOf

(* A write goes to other tables than those in use, or a flush follows.     *)
LEMMA WriteInv == ASSUME IInv, WriteEntry PROVE IInv'
<1> DEFINE o == Head(todo)
<1>1. /\ todo \in Seq(Op) /\ todo # <<>> /\ o \in Op /\ o.op = "write"
      /\ todo' = Tail(todo) /\ todo' \in Seq(Op)
      /\ \A e : todo \in Seq(HarmlessOp(e)) =>
              o \in HarmlessOp(e) /\ todo' \in Seq(HarmlessOp(e))
  BY FirstOp DEF WriteEntry
<1> HIDE DEF o
<1>2. o.as \in AS /\ o.va \in VA /\ o.to \in Entry \cup {Invalid}
  BY <1>1 DEF Op
<1>3. pt' = [pt EXCEPT ![o.as][o.va] = o.to] /\ UNCHANGED <<live, cur, recv, ttbr0, tlb, sp1>>
  BY DEF WriteEntry, o
<1>4. Shape'
  <2>1. pt' \in [AS \cup {Boot} -> [VA -> Entry \cup {Invalid}]]
    BY <1>2, <1>3 DEF IInv, Shape
  <2> QED BY <1>1, <1>3, <2>1 DEF IInv, Shape
<1>5. ASSUME cur # None PROVE Spins(todo') \/ Coherent' \/ Settles(todo', cur, ttbr0)
  <2>1. CASE Spins(todo)
    BY <2>1, <1>1, TailSpins DEF o
  <2>2. CASE Coherent
    <3>1. o.as # cur /\ todo' \in Seq(HarmlessOp(cur))
      BY <2>2, <1>1 DEF Coherent, HarmlessOp
    <3>2. cur \in AS
      BY <1>5 DEF IInv, Shape
    <3>3. pt'[cur] = pt[cur]
      BY <3>1, <3>2, <1>2, <1>3 DEF IInv, Shape
    <3> QED BY <2>2, <3>1, <3>3, <1>3 DEF Coherent
  <2>3. CASE Settles(todo, cur, ttbr0)
    BY <2>3, <1>1, TailSettles DEF o
  <2> QED BY <1>5, <2>1, <2>2, <2>3 DEF IInv, TlbInv
<1> QED BY <1>3, <1>4, <1>5 DEF IInv, StackInv, TlbInv

(* After its last flush a handler leaves the TLB coherent.                 *)
LEMMA FlushInv == ASSUME IInv, tlb_invalidate PROVE IInv'
<1>1. /\ todo \in Seq(Op) /\ todo # <<>> /\ Head(todo).op = "flush"
      /\ todo' = Tail(todo) /\ todo' \in Seq(Op)
      /\ \A e : todo \in Seq(HarmlessOp(e)) => todo' \in Seq(HarmlessOp(e))
  BY FirstOp DEF tlb_invalidate
<1>2. tlb' = [va \in VA |-> None] /\ UNCHANGED <<live, cur, recv, pt, ttbr0, sp1>>
  BY DEF tlb_invalidate
<1>3. Shape'
  BY <1>1, <1>2 DEF IInv, Shape
<1>4. ASSUME cur # None PROVE Spins(todo') \/ Coherent' \/ Settles(todo', cur, ttbr0)
  <2>1. CASE Spins(todo)
    BY <2>1, <1>1, TailSpins
  <2>2. CASE Coherent
    BY <2>2, <1>1, <1>2 DEF Coherent
  <2>3. CASE Settles(todo, cur, ttbr0)
    <3>1. \/ Settles(todo', cur, ttbr0)
          \/ ttbr0 = cur /\ todo' \in Seq(HarmlessOp(cur))
      BY <2>3, <1>1, TailSettles
    <3> QED BY <3>1, <1>2 DEF Coherent
  <2> QED BY <1>4, <2>1, <2>2, <2>3 DEF IInv, TlbInv
<1> QED BY <1>2, <1>3, <1>4 DEF IInv, StackInv, TlbInv

(* TTBR0 changes to the tables of curenv, and a flush follows.             *)
LEMMA LoadTtbr0Inv == ASSUME IInv, load_ttbr0_context PROVE IInv'
<1> DEFINE o == Head(todo)
<1>1. /\ todo \in Seq(Op) /\ todo # <<>> /\ o \in Op /\ o.op = "ttbr0"
      /\ todo' = Tail(todo) /\ todo' \in Seq(Op)
      /\ \A e : todo \in Seq(HarmlessOp(e)) => o \in HarmlessOp(e)
  BY FirstOp DEF load_ttbr0_context
<1> HIDE DEF o
<1>2. o.as \in AS
  BY <1>1 DEF Op
<1>3. ttbr0' = o.as /\ UNCHANGED <<live, cur, recv, pt, tlb, sp1>>
  BY DEF load_ttbr0_context, o
<1>4. Shape'
  BY <1>1, <1>2, <1>3 DEF IInv, Shape
<1>5. ASSUME cur # None PROVE Spins(todo') \/ Settles(todo', cur, ttbr0')
  <2>1. CASE Spins(todo)
    BY <2>1, <1>1, TailSpins DEF o
  <2>2. ~Coherent
    BY <1>1 DEF Coherent, HarmlessOp, CalmOp
  <2>3. CASE Settles(todo, cur, ttbr0)
    BY <2>3, <1>1, <1>3, TailSettles DEF o
  <2> QED BY <1>5, <2>1, <2>2, <2>3 DEF IInv, TlbInv
<1> QED BY <1>3, <1>4, <1>5 DEF IInv, StackInv, TlbInv

(* An access caches at most what the tables in TTBR0 say.                  *)
LEMMA AccessInv == ASSUME IInv, AccessUser PROVE IInv'
<1> DEFINE o == Head(todo)
<1>1. /\ todo \in Seq(Op) /\ todo # <<>> /\ o \in Op /\ o.op \in {"load", "store"}
      /\ todo' = Tail(todo) /\ todo' \in Seq(Op)
      /\ \A e : todo \in Seq(HarmlessOp(e)) => todo' \in Seq(HarmlessOp(e))
  BY FirstOp DEF AccessUser
<1> HIDE DEF o
<1>2. o.va \in VA
  BY <1>1 DEF Op
<1>3. /\ tlb' = [tlb EXCEPT ![o.va] = Translation(o.va)]
      /\ UNCHANGED <<live, cur, recv, pt, ttbr0, sp1>>
  BY DEF AccessUser, o
<1>4. Translation(o.va) \in Entry \cup {Invalid, None}
  BY <1>2 DEF Translation, IInv, Shape
<1>5. Shape'
  BY <1>1, <1>3, <1>4 DEF IInv, Shape
<1>6. ASSUME cur # None PROVE Spins(todo') \/ Coherent' \/ Settles(todo', cur, ttbr0)
  <2>1. CASE Spins(todo)
    BY <2>1, <1>1, TailSpins DEF o
  <2>2. CASE Coherent
    <3>1. Translation(o.va) \in {None, pt[ttbr0][o.va]}
      BY <2>2, <1>2 DEF Coherent, Translation
    <3>2. \A va \in VA : tlb'[va] \in {None, pt[ttbr0][va]}
      BY <2>2, <3>1, <1>3 DEF Coherent, IInv, Shape
    <3> QED BY <2>2, <3>2, <1>1, <1>3 DEF Coherent
  <2>3. CASE Settles(todo, cur, ttbr0)
    BY <2>3, <1>1, TailSettles DEF o
  <2> QED BY <1>6, <2>1, <2>2, <2>3 DEF IInv, TlbInv
<1> QED BY <1>3, <1>5, <1>6 DEF IInv, StackInv, TlbInv

(* A walk caches what the tables in TTBR0 say.                             *)
LEMMA MmuInv == ASSUME IInv, NEW va \in VA, Fill(va) \/ Evict(va) PROVE IInv'
<1>1. /\ tlb' = [tlb EXCEPT ![va] = pt[ttbr0][va]] \/ tlb' = [tlb EXCEPT ![va] = None]
      /\ UNCHANGED <<live, cur, recv, pt, ttbr0, sp1, todo>>
  BY DEF Fill, Evict
<1>2. Shape'
  BY <1>1 DEF IInv, Shape
<1>3. ASSUME Coherent PROVE Coherent'
  BY <1>1, <1>3 DEF Coherent, IInv, Shape
<1> QED BY <1>1, <1>2, <1>3 DEF IInv, StackInv, TlbInv
-----------------------------------------------------------------------------
(* The invariant holds throughout.                                         *)
THEOREM Invariant == Spec => []IInv
<1>1. Init => IInv
  BY InitInv
<1>2. IInv /\ [Next]_vars => IInv'
  <2> SUFFICES ASSUME IInv, [Next]_vars PROVE IInv'
    OBVIOUS
  <2>1. CASE IRQStub
    BY <2>1, IRQInv
  <2>2. CASE Call
    BY <2>2, CallInv
  <2>3. CASE _ipc_can_recv
    BY <2>3, CanRecvInv
  <2>4. CASE _sched_yield
    BY <2>4, SchedYieldInv
  <2>5. CASE mmu_fault_handler
    BY <2>5, FaultInv
  <2>6. CASE _env_destroy
    BY <2>6, DestroyInv
  <2>7. CASE \E r \in AS, ap \in {"RW_ALL", "RO_ALL"} : _ipc_can_send(r, ap)
    BY <2>7, CanSendInv
  <2>8. CASE \E c \in AS : _fork(c)
    BY <2>8, ForkInv
  <2>9. CASE WriteEntry
    BY <2>9, WriteInv
  <2>10. CASE tlb_invalidate
    BY <2>10, FlushInv
  <2>11. CASE load_ttbr0_context
    BY <2>11, LoadTtbr0Inv
  <2>12. CASE AccessUser
    BY <2>12, AccessInv
  <2>13. CASE \E va \in VA : Fill(va) \/ Evict(va)
    BY <2>13, MmuInv
  <2>14. CASE UNCHANGED vars
    BY <2>14 DEF vars, IInv, Shape, StackInv, TlbInv, Coherent
  <2> QED BY <2>1, <2>2, <2>3, <2>4, <2>5, <2>6, <2>7, <2>8, <2>9, <2>10, <2>11, <2>12,
             <2>13, <2>14 DEF Next
<1> QED BY <1>1, <1>2, PTL DEF Spec

(* A program never runs on an old translation, whatever the handlers did   *)
(* to the tables and whenever the MMU walked them.                         *)
THEOREM TlbCoherentCorrect == Spec => []TlbCoherent
<1>1. IInv => TlbCoherent
  <2> SUFFICES ASSUME IInv, UserMode
               PROVE  ttbr0 = cur /\ \A va \in VA : tlb[va] \in {None, pt[cur][va]}
    BY DEF TlbCoherent
  <2> QED BY Between
<1> QED BY <1>1, Invariant, PTL

(* An exception never writes to the stack of another program.              *)
THEOREM OnlyOwnStackCorrect == Spec => []OnlyOwnStack
<1>1. IInv => OnlyOwnStack
  BY DEF IInv, StackInv, OnlyOwnStack
<1> QED BY <1>1, Invariant, PTL
-----------------------------------------------------------------------------
(***************************************************************************)
(* What a handler will do to the tables before it returns.                 *)
(***************************************************************************)
Tbl == [AS \cup {Boot} -> [VA -> Entry \cup {Invalid}]]

(* What is known at a point of a handler: the tables, whose tables are in  *)
(* TTBR0, and the addresses the TLB may be wrong about.                    *)
St(f, b, d) == [pt |-> f, base |-> b, stale |-> d]
RunState == [pt : Tbl, base : AS \cup {Boot}, stale : SUBSET VA]
Put(f, e, va, x) == [f EXCEPT ![e][va] = x]

(* An access that does not fault, where the TLB is right.                  *)
Hits(x, va) == va \notin x.stale /\ x.pt[x.base][va] # Invalid

(* What one operation does, when an access must not fault.  An entry       *)
(* written over an invalid one is not stale: the TLB holds no invalid one. *)
OpStep(x, o, y) ==
  \/ /\ o.op = "write"
     /\ y = St(Put(x.pt, o.as, o.va, o.to), x.base,
               IF o.as = x.base /\ x.pt[o.as][o.va] # Invalid
               THEN x.stale \cup {o.va} ELSE x.stale)
  \/ o.op = "flush" /\ y = St(x.pt, x.base, {})
  \/ o.op = "ttbr0" /\ y = St(x.pt, o.as, VA)
  \/ o.op = "load" /\ Hits(x, o.va) /\ y = x
  \/ o.op = "store" /\ Hits(x, o.va) /\ x.pt[x.base][o.va].ap # "RO_ALL" /\ y = x
  \/ o.op = "spin" /\ y = x

(* The operations t lead from x to y.                                      *)
IsRun(t, r) ==
  /\ r \in [0 .. Len(t) -> RunState]
  /\ \A k \in 1 .. Len(t) : OpStep(r[k - 1], t[k], r[k])
Leads(x, t, y) == \E r : IsRun(t, r) /\ r[0] = x /\ r[Len(t)] = y

(* The tables when a handler returns: live environments have a stack they  *)
(* can write to, the others nothing, and USTACKTOP is empty.               *)
Settled(f, l) ==
  \A e \in AS : /\ f[e]["temp"] = Invalid
                /\ e \in l => f[e]["stack"] # Invalid /\ f[e]["stack"].ap = "RW_ALL"
                /\ e \notin l => \A va \in VA : f[e][va] = Invalid

(* The TLB is right but for the addresses d.                               *)
Knows(d) == \A va \in VA : va \notin d => tlb[va] \in {None, pt[ttbr0][va]}

(* Whatever is left to do goes through without a fault, to such tables.    *)
RunInv ==
  \E d \in SUBSET VA, y \in RunState :
    /\ Knows(d) /\ Leads(St(pt, ttbr0, d), todo, y)
    /\ Spins(todo) \/ Settled(y.pt, live)

AbortInv ==
  /\ IInv /\ RunInv
  /\ \A va \in VA : tlb[va] # Invalid
  /\ cur # None => Spins(todo) \/ cur \in live
-----------------------------------------------------------------------------
(* Runs.                                                                   *)

(* Two operations, one after the other.                                    *)
LEMMA Pair ==
  ASSUME NEW S, NEW o \in S, NEW p \in S
  PROVE  <<o>> \o <<p>> = <<o, p>>
<1>1. <<o>> \in Seq(S) /\ <<p>> \in Seq(S) /\ <<o, p>> \in Seq(S)
  BY Short
<1>2. <<o>> \o <<p>> \in Seq(S) /\ Len(<<o>> \o <<p>>) = 2
      /\ (<<o>> \o <<p>>)[1] = o /\ (<<o>> \o <<p>>)[2] = p
  BY <1>1, Concat
<1>3. ASSUME NEW s \in Seq(S), NEW t \in Seq(S), Len(s) = Len(t), \A j \in 1 .. Len(s) : s[j] = t[j]
      PROVE  s = t
  <2>1. s \in [1 .. Len(s) -> S] /\ t \in [1 .. Len(s) -> S]
    BY <1>3
  <2> QED BY <1>3, <2>1
<1>4. \A j \in 1 .. Len(<<o, p>>) : (<<o>> \o <<p>>)[j] = <<o, p>>[j]
  BY <1>1, <1>2
<1> QED BY <1>1, <1>2, <1>3, <1>4

(* States of runs and their parts.                                         *)
LEMMA StFacts ==
  ASSUME NEW f \in Tbl, NEW b \in AS \cup {Boot}, NEW d \in SUBSET VA
  PROVE  St(f, b, d) \in RunState /\ St(f, b, d).pt = f /\ St(f, b, d).base = b
         /\ St(f, b, d).stale = d
BY DEF St, RunState

(* A point of a run is what is known there.                                *)
LEMMA RunStateFacts ==
  ASSUME NEW x \in RunState
  PROVE  /\ x.pt \in Tbl /\ x.base \in AS \cup {Boot} /\ x.stale \in SUBSET VA
         /\ x = St(x.pt, x.base, x.stale)
BY DEF St, RunState

(* The tables after a write.                                               *)
LEMMA PutFacts ==
  ASSUME NEW f \in Tbl, NEW e \in AS, NEW va \in VA, NEW x \in Entry \cup {Invalid}
  PROVE  /\ Put(f, e, va, x) \in Tbl
         /\ \A a \in AS \cup {Boot}, v \in VA :
              Put(f, e, va, x)[a][v] = IF a = e /\ v = va THEN x ELSE f[a][v]
         /\ f[e][va] = x => Put(f, e, va, x) = f
         /\ \A z \in Entry \cup {Invalid} : Put(Put(f, e, va, z), e, va, x) = Put(f, e, va, x)
BY DEF Put, Tbl

(* Nothing to do.                                                          *)
LEMMA LeadsNil ==
  ASSUME NEW x \in RunState
  PROVE  Leads(x, <<>>, x)
<1> DEFINE r == [k \in 0 .. 0 |-> x]
<1>1. r \in [0 .. Len(<<>>) -> RunState] /\ r[0] = x /\ r[Len(<<>>)] = x /\ 1 .. Len(<<>>) = {}
  OBVIOUS
<1> QED BY <1>1 DEF Leads, IsRun

(* One operation.                                                          *)
LEMMA LeadsOne ==
  ASSUME NEW x \in RunState, NEW y \in RunState, NEW o, OpStep(x, o, y)
  PROVE  Leads(x, <<o>>, y)
<1> DEFINE r == [k \in 0 .. 1 |-> IF k = 0 THEN x ELSE y]
<1>1. /\ Len(<<o>>) = 1 /\ <<o>>[1] = o
      /\ r \in [0 .. 1 -> RunState] /\ r[0] = x /\ r[1] = y
  OBVIOUS
<1> HIDE DEF r
<1>2. ASSUME NEW k \in 1 .. 1 PROVE OpStep(r[k - 1], <<o>>[k], r[k])
  <2>1. k = 1 /\ k - 1 = 0
    OBVIOUS
  <2> QED BY <1>1, <2>1
<1> QED BY <1>1, <1>2 DEF Leads, IsRun

(* One sequence after the other.                                           *)
LEMMA LeadsCat ==
  ASSUME NEW x, NEW y, NEW z, NEW S, NEW s \in Seq(S), NEW t \in Seq(S),
         Leads(x, s, y), Leads(y, t, z)
  PROVE  Leads(x, s \o t, z)
<1>1. PICK p : IsRun(s, p) /\ p[0] = x /\ p[Len(s)] = y
  BY DEF Leads
<1>2. PICK q : IsRun(t, q) /\ q[0] = y /\ q[Len(t)] = z
  BY DEF Leads
<1> DEFINE m == Len(s)
           n == Len(t)
           r == [k \in 0 .. m + n |-> IF k <= m THEN p[k] ELSE q[k - m]]
<1>3. /\ m \in Nat /\ n \in Nat /\ Len(s \o t) = m + n
      /\ \A j \in 1 .. m : (s \o t)[j] = s[j]
      /\ \A j \in 1 .. n : (s \o t)[m + j] = t[j]
  BY Concat
<1>4. /\ p \in [0 .. m -> RunState] /\ \A k \in 1 .. m : OpStep(p[k - 1], s[k], p[k])
      /\ q \in [0 .. n -> RunState] /\ \A k \in 1 .. n : OpStep(q[k - 1], t[k], q[k])
  BY <1>1, <1>2 DEF IsRun
<1> HIDE DEF m, n
<1>5. /\ r \in [0 .. m + n -> RunState]
      /\ \A k \in 0 .. m : r[k] = p[k]
      /\ \A k \in 0 .. n : r[m + k] = q[k]
  <2>1. p[m] = q[0]
    BY <1>1, <1>2 DEF m
  <2>2. \A k \in 0 .. m + n : r[k] \in RunState
    BY <1>3, <1>4
  <2>3. \A k \in 0 .. m : r[k] = p[k]
    BY <1>3
  <2>4. ASSUME NEW k \in 0 .. n PROVE r[m + k] = q[k]
    <3>1. CASE k = 0
      BY <1>3, <2>1, <3>1
    <3>2. CASE k # 0
      BY <1>3, <3>2
    <3> QED BY <3>1, <3>2
  <2> QED BY <2>2, <2>3, <2>4
<1> HIDE DEF r
<1>6. ASSUME NEW k \in 1 .. m + n PROVE OpStep(r[k - 1], (s \o t)[k], r[k])
  <2>1. CASE k \in 1 .. m
    <3>1. r[k - 1] = p[k - 1] /\ r[k] = p[k] /\ (s \o t)[k] = s[k]
      BY <1>3, <1>5, <2>1
    <3> QED BY <1>4, <2>1, <3>1
  <2>2. CASE k \notin 1 .. m
    <3>1. PICK j \in 1 .. n : k = m + j
      BY <1>3, <2>2
    <3>2. j - 1 \in 0 .. n /\ j \in 0 .. n /\ m + (j - 1) = k - 1
      BY <1>3, <3>1
    <3>3. r[k - 1] = q[j - 1] /\ r[k] = q[j] /\ (s \o t)[k] = t[j]
      BY <1>3, <1>5, <3>1, <3>2
    <3> QED BY <1>4, <3>3
  <2> QED BY <2>1, <2>2
<1>7. r[0] = x /\ r[m + n] = z
  <2>1. p[0] = x /\ q[n] = z
    BY <1>1, <1>2 DEF n
  <2>2. 0 \in 0 .. m /\ n \in 0 .. n
    BY <1>3
  <2> QED BY <1>5, <2>1, <2>2
<1> QED BY <1>3, <1>5, <1>6, <1>7 DEF Leads, IsRun

(* The first operation, and the rest.                                      *)
LEMMA LeadsTail ==
  ASSUME NEW x, NEW z, NEW S, NEW t \in Seq(S), t # <<>>, Leads(x, t, z)
  PROVE  \E y \in RunState : OpStep(x, Head(t), y) /\ Leads(y, Tail(t), z)
<1>1. PICK r : IsRun(t, r) /\ r[0] = x /\ r[Len(t)] = z
  BY DEF Leads
<1> DEFINE n == Len(t)
           u == Tail(t)
           q == [k \in 0 .. n - 1 |-> r[k + 1]]
<1>2. /\ n \in Nat \ {0} /\ Head(t) = t[1] /\ Len(u) = n - 1
      /\ \A j \in 1 .. n - 1 : u[j] = t[j + 1]
  BY TailOf
<1>3. r \in [0 .. n -> RunState] /\ \A k \in 1 .. n : OpStep(r[k - 1], t[k], r[k])
  BY <1>1 DEF IsRun
<1> HIDE DEF n, u
<1>4. q \in [0 .. n - 1 -> RunState] /\ \A k \in 0 .. n - 1 : q[k] = r[k + 1]
  BY <1>2, <1>3
<1> HIDE DEF q
<1>5. ASSUME NEW k \in 1 .. n - 1 PROVE OpStep(q[k - 1], u[k], q[k])
  <2>1. k + 1 \in 1 .. n /\ (k + 1) - 1 = k /\ (k - 1) + 1 = k /\ k - 1 \in 0 .. n - 1
    BY <1>2
  <2>2. OpStep(r[(k + 1) - 1], t[k + 1], r[k + 1])
    BY <1>3, <2>1
  <2> QED BY <1>2, <1>4, <2>1, <2>2
<1>6. q[0] = r[1] /\ q[n - 1] = z /\ r[1] \in RunState
  BY <1>1, <1>2, <1>3, <1>4 DEF n
<1>7. OpStep(x, t[1], r[1])
  <2>1. 1 \in 1 .. n /\ 1 - 1 = 0
    BY <1>2
  <2>2. OpStep(r[1 - 1], t[1], r[1])
    BY <1>3, <2>1
  <2> QED BY <1>1, <2>1, <2>2
<1>8. Leads(r[1], u, z)
  BY <1>2, <1>4, <1>5, <1>6 DEF Leads, IsRun
<1> QED BY <1>2, <1>6, <1>7, <1>8 DEF u

-----------------------------------------------------------------------------
(* The operations and the parts of handlers, as runs.                      *)

(* A flush leaves nothing stale.                                           *)
LEMMA LeadsFlush ==
  ASSUME NEW x \in RunState
  PROVE  Leads(x, <<FlushOp>>, St(x.pt, x.base, {}))
<1>1. St(x.pt, x.base, {}) \in RunState
  BY RunStateFacts, StFacts
<1>2. OpStep(x, FlushOp, St(x.pt, x.base, {}))
  BY DEF OpStep, FlushOp
<1> QED BY <1>1, <1>2, LeadsOne

(* A write makes at most its own address stale, and that only where an     *)
(* entry of the tables in use was there before.                            *)
LEMMA LeadsWrite ==
  ASSUME NEW f \in Tbl, NEW b \in AS \cup {Boot}, NEW e \in AS, NEW va \in VA,
         NEW x \in Entry \cup {Invalid}
  PROVE  Leads(St(f, b, {}), <<WriteOp(e, va, x)>>,
               St(Put(f, e, va, x), b, IF e = b /\ f[e][va] # Invalid THEN {va} ELSE {}))
<1> DEFINE d == IF e = b /\ f[e][va] # Invalid THEN {va} ELSE {}
           y == St(Put(f, e, va, x), b, d)
           o == WriteOp(e, va, x)
<1>1. St(f, b, {}) \in RunState /\ d \in SUBSET VA /\ Put(f, e, va, x) \in Tbl
      /\ St(f, b, {}).pt = f /\ St(f, b, {}).base = b /\ St(f, b, {}).stale = {}
  BY StFacts, PutFacts
<1>2. y \in RunState
  BY <1>1, StFacts
<1>3. o.op = "write" /\ o.as = e /\ o.va = va /\ o.to = x
  BY DEF WriteOp
<1> HIDE DEF o
<1>4. OpStep(St(f, b, {}), o, y)
  BY <1>1, <1>3 DEF OpStep
<1> HIDE DEF y
<1>5. Leads(St(f, b, {}), <<o>>, y)
  BY <1>1, <1>2, <1>4, LeadsOne
<1> QED BY <1>5 DEF o, y

(* Operations, one or two at a time, are sequences of them.                *)
LEMMA OpSeqs ==
  ASSUME NEW e \in AS, NEW va \in VA, NEW x \in Entry \cup {Invalid}
  PROVE  /\ <<WriteOp(e, va, x)>> \in Seq(Op) /\ <<FlushOp>> \in Seq(Op)
         /\ <<Load(va)>> \in Seq(Op) /\ <<Store(va)>> \in Seq(Op)
         /\ <<WriteOp(e, va, x), FlushOp>> = <<WriteOp(e, va, x)>> \o <<FlushOp>>
         /\ <<FlushOp, WriteOp(e, va, x)>> = <<FlushOp>> \o <<WriteOp(e, va, x)>>
<1>1. /\ WriteOp(e, va, x) \in Op /\ FlushOp \in Op /\ Load(va) \in Op /\ Store(va) \in Op
  BY Ops DEF CalmOp
<1> QED BY <1>1, Short

(* page_remove empties an entry, and leaves nothing stale.                 *)
LEMMA LeadsRemove ==
  ASSUME NEW f \in Tbl, NEW b \in AS \cup {Boot}, NEW e \in AS, NEW va \in VA
  PROVE  /\ page_remove(e, va, f[e][va]) \in Seq(Op)
         /\ Leads(St(f, b, {}), page_remove(e, va, f[e][va]), St(Put(f, e, va, Invalid), b, {}))
<1> DEFINE g == Put(f, e, va, Invalid)
           w == WriteOp(e, va, Invalid)
           d == IF e = b /\ f[e][va] # Invalid THEN {va} ELSE {}
<1>1. g \in Tbl /\ d \in SUBSET VA
  BY PutFacts
<1>2. /\ St(g, b, d) \in RunState /\ St(g, b, d).pt = g /\ St(g, b, d).base = b
      /\ St(f, b, {}) \in RunState
  BY <1>1, StFacts
<1>3. Leads(St(f, b, {}), <<w>>, St(g, b, d))
  BY LeadsWrite
<1>4. Leads(St(g, b, d), <<FlushOp>>, St(g, b, {}))
  <2> HIDE DEF g, d
  <2>1. Leads(St(g, b, d), <<FlushOp>>, St(St(g, b, d).pt, St(g, b, d).base, {}))
    BY <1>2, LeadsFlush
  <2> QED BY <1>2, <2>1
<1>5. <<w>> \in Seq(Op) /\ <<FlushOp>> \in Seq(Op) /\ <<w, FlushOp>> = <<w>> \o <<FlushOp>>
  BY OpSeqs
<1>6. <<w, FlushOp>> \in Seq(Op) /\ Leads(St(f, b, {}), <<w, FlushOp>>, St(g, b, {}))
  <2> HIDE DEF g, d, w
  <2> QED BY <1>3, <1>4, <1>5, LeadsCat, Concat
<1>7. CASE f[e][va] = Invalid
  <2>1. Put(f, e, va, Invalid) = f
    BY <1>7, PutFacts
  <2>2. page_remove(e, va, f[e][va]) = <<>>
    BY <1>7 DEF page_remove
  <2>3. Leads(St(f, b, {}), <<>>, St(f, b, {})) /\ <<>> \in Seq(Op)
    BY <1>2, LeadsNil
  <2> HIDE DEF g, w, d
  <2> QED BY <2>1, <2>2, <2>3
<1>8. CASE f[e][va] # Invalid
  <2>1. page_remove(e, va, f[e][va]) = <<w, FlushOp>>
    BY <1>8 DEF page_remove
  <2> QED BY <1>6, <2>1
<1> QED BY <1>7, <1>8

(* page_insert writes an entry.  Its address is stale afterwards if the    *)
(* tables in use had the same page there, and only then.                   *)
LEMMA LeadsInsert ==
  ASSUME NEW f \in Tbl, NEW b \in AS \cup {Boot}, NEW e \in AS, NEW va \in VA,
         NEW new \in Entry
  PROVE  LET held == f[e][va] IN
         /\ page_insert(e, va, new, held) \in Seq(Op)
         /\ Leads(St(f, b, {}), page_insert(e, va, new, held),
              St(Put(f, e, va, new), b,
                 IF e = b /\ held # Invalid /\ held.page = new.page THEN {va} ELSE {}))
<1> DEFINE held == f[e][va]
           g == Put(f, e, va, new)
           h == Put(f, e, va, Invalid)
           w == WriteOp(e, va, new)
           d == IF e = b /\ held # Invalid /\ held.page = new.page THEN {va} ELSE {}
<1>1. /\ g \in Tbl /\ h \in Tbl /\ h[e][va] = Invalid /\ Put(h, e, va, new) = g
  BY PutFacts
<1>2. \A k \in Tbl : Leads(St(k, b, {}), <<FlushOp>>, St(k, b, {}))
  <2> TAKE k \in Tbl
  <2>1. St(k, b, {}) \in RunState /\ St(k, b, {}).pt = k /\ St(k, b, {}).base = b
    BY StFacts
  <2> QED BY <2>1, LeadsFlush
<1>3. <<FlushOp>> \in Seq(Op) /\ <<w>> \in Seq(Op) /\ <<FlushOp, w>> = <<FlushOp>> \o <<w>>
  BY OpSeqs
<1>4. CASE held # Invalid /\ held.page # new.page
  <2>1. page_insert(e, va, new, held) = page_remove(e, va, held) \o (<<FlushOp>> \o <<w>>)
    BY <1>3, <1>4 DEF page_insert
  <2>2. page_remove(e, va, held) \in Seq(Op)
        /\ Leads(St(f, b, {}), page_remove(e, va, held), St(h, b, {}))
    BY LeadsRemove
  <2>3. Leads(St(h, b, {}), <<w>>, St(g, b, {}))
    <3>1. Leads(St(h, b, {}), <<WriteOp(e, va, new)>>,
                St(Put(h, e, va, new), b, IF e = b /\ h[e][va] # Invalid THEN {va} ELSE {}))
      <4> HIDE DEF h
      <4> QED BY <1>1, LeadsWrite
    <3> HIDE DEF h, g
    <3> QED BY <1>1, <3>1
  <2>4. <<FlushOp>> \o <<w>> \in Seq(Op) /\ Leads(St(h, b, {}), <<FlushOp>> \o <<w>>, St(g, b, {}))
    <3> HIDE DEF h, g, w
    <3>1. Leads(St(h, b, {}), <<FlushOp>>, St(h, b, {}))
      BY <1>1, <1>2
    <3> QED BY <1>3, <2>3, <3>1, LeadsCat, Concat
  <2>5. d = {}
    BY <1>4
  <2> HIDE DEF h, g, w, d
  <2>6. page_remove(e, va, held) \o (<<FlushOp>> \o <<w>>) \in Seq(Op)
    BY <2>2, <2>4, Concat
  <2>7. Leads(St(f, b, {}), page_remove(e, va, held) \o (<<FlushOp>> \o <<w>>), St(g, b, {}))
    BY <2>2, <2>4, LeadsCat
  <2>8. Leads(St(f, b, {}), page_insert(e, va, new, held), St(g, b, d))
    BY <2>1, <2>5, <2>7
  <2> QED BY <2>1, <2>6, <2>8 DEF g, d
<1>5. CASE ~(held # Invalid /\ held.page # new.page)
  <2>1. page_insert(e, va, new, held) = <<>> \o (<<FlushOp>> \o <<w>>)
    BY <1>3, <1>5 DEF page_insert
  <2>2. d = IF e = b /\ held # Invalid THEN {va} ELSE {}
    BY <1>5
  <2>3. Leads(St(f, b, {}), <<w>>, St(g, b, IF e = b /\ held # Invalid THEN {va} ELSE {}))
    BY LeadsWrite
  <2> HIDE DEF g, w, d, held
  <2>4. Leads(St(f, b, {}), <<w>>, St(g, b, d))
    BY <2>2, <2>3
  <2>5. <<FlushOp>> \o <<w>> \in Seq(Op) /\ Leads(St(f, b, {}), <<FlushOp>> \o <<w>>, St(g, b, d))
    BY <1>2, <1>3, <2>4, LeadsCat, Concat
  <2>6. page_insert(e, va, new, held) = <<FlushOp>> \o <<w>>
    BY <2>1, <2>5
  <2> QED BY <2>5, <2>6 DEF g, d, held
<1> QED BY <1>4, <1>5

(* page_insert where nothing was: it flushes first, whatever was stale.    *)
LEMMA LeadsFresh ==
  ASSUME NEW f \in Tbl, NEW b \in AS \cup {Boot}, NEW d \in SUBSET VA,
         NEW e \in AS, NEW va \in VA, NEW new \in Entry, f[e][va] = Invalid
  PROVE  /\ page_insert(e, va, new, Invalid) \in Seq(Op)
         /\ Leads(St(f, b, d), page_insert(e, va, new, Invalid), St(Put(f, e, va, new), b, {}))
<1> DEFINE w == WriteOp(e, va, new)
           y == St(Put(f, e, va, new), b, {})
           x == St(f, b, d)
           z == St(f, b, {})
<1>1. page_insert(e, va, new, Invalid) = <<FlushOp>> \o <<w>>
  <2>1. w \in Op /\ FlushOp \in Op
    BY Ops DEF CalmOp
  <2>2. page_insert(e, va, new, Invalid) = <<>> \o <<FlushOp, w>>
    BY DEF page_insert
  <2> HIDE DEF w
  <2>3. <<>> \o <<FlushOp, w>> = <<FlushOp, w>>
    BY <2>1
  <2> QED BY <2>1, <2>2, <2>3, Pair
<1>2. <<w>> \in Seq(Op) /\ <<FlushOp>> \in Seq(Op)
  BY OpSeqs
<1>3. Leads(x, <<FlushOp>>, z)
  <2>1. x \in RunState /\ x.pt = f /\ x.base = b
    BY StFacts
  <2>2. Leads(x, <<FlushOp>>, St(x.pt, x.base, {}))
    BY <2>1, LeadsFlush
  <2> QED BY <2>1, <2>2
<1>4. Leads(z, <<w>>, y)
  <2>1. Leads(z, <<w>>, St(Put(f, e, va, new), b, IF e = b /\ f[e][va] # Invalid THEN {va} ELSE {}))
    BY LeadsWrite
  <2> QED BY <2>1
<1> HIDE DEF w, x, y, z
<1>5. <<FlushOp>> \o <<w>> \in Seq(Op) /\ Leads(x, <<FlushOp>> \o <<w>>, y)
  BY <1>2, <1>3, <1>4, LeadsCat, Concat
<1> QED BY <1>1, <1>5 DEF x, y

(* The kernel's accesses to user addresses.                                *)
LEMMA LeadsLoad ==
  ASSUME NEW f \in Tbl, NEW b \in AS \cup {Boot}, NEW d \in SUBSET VA, NEW va \in VA \ d,
         f[b][va] # Invalid
  PROVE  Leads(St(f, b, d), <<Load(va)>>, St(f, b, d))
<1>1. /\ St(f, b, d) \in RunState /\ St(f, b, d).pt = f /\ St(f, b, d).base = b
      /\ St(f, b, d).stale = d
  BY StFacts
<1>2. OpStep(St(f, b, d), Load(va), St(f, b, d))
  <2>1. Load(va).op = "load" /\ Load(va).va = va
    BY DEF Load
  <2>2. Hits(St(f, b, d), va)
    BY <1>1 DEF Hits
  <2> QED BY <2>1, <2>2 DEF OpStep
<1> QED BY <1>1, <1>2, LeadsOne

(* The entry of a stack the kernel can write to.                           *)
CanStore(x) == x # Invalid /\ x.ap # "RO_ALL"

(* A store there does not fault.                                           *)
LEMMA LeadsStore ==
  ASSUME NEW f \in Tbl, NEW b \in AS \cup {Boot}, NEW d \in SUBSET VA, NEW va \in VA \ d,
         CanStore(f[b][va])
  PROVE  Leads(St(f, b, d), <<Store(va)>>, St(f, b, d))
<1>1. /\ St(f, b, d) \in RunState /\ St(f, b, d).pt = f /\ St(f, b, d).base = b
      /\ St(f, b, d).stale = d
  BY StFacts
<1>2. OpStep(St(f, b, d), Store(va), St(f, b, d))
  <2>1. Store(va).op = "store" /\ Store(va).va = va
    BY DEF Store
  <2>2. Hits(St(f, b, d), va) /\ St(f, b, d).pt[St(f, b, d).base][va].ap # "RO_ALL"
    BY <1>1 DEF Hits, CanStore
  <2> QED BY <2>1, <2>2 DEF OpStep
<1> QED BY <1>1, <1>2, LeadsOne

(* Saving x0, on a stack that the tables in use map.                       *)
LEMMA LeadsPush ==
  ASSUME NEW f \in Tbl, NEW b \in AS \cup {Boot}, NEW d \in SUBSET VA,
         sp1 # Kernel => d = {} /\ CanStore(f[b]["stack"])
  PROVE  push_time_stack \in Seq(Op) /\ Leads(St(f, b, d), push_time_stack, St(f, b, d))
<1>1. "stack" \in VA /\ St(f, b, d) \in RunState
  BY StFacts DEF VA
<1>2. <<Store("stack")>> \in Seq(Op) /\ <<>> \in Seq(Op)
  BY <1>1, Ops DEF CalmOp
<1>3. CASE sp1 = Kernel
  <2>1. push_time_stack = <<>>
    BY <1>3 DEF push_time_stack
  <2> QED BY <1>1, <1>2, <2>1, LeadsNil
<1>4. CASE sp1 # Kernel
  <2>1. push_time_stack = <<Store("stack")>>
    BY <1>4 DEF push_time_stack
  <2> QED BY <1>1, <1>2, <1>4, <2>1, LeadsStore
<1> QED BY <1>3, <1>4

(* env_run takes the tables of e, and stores results on its stack.         *)
LEMMA LeadsEnvRun ==
  ASSUME NEW f \in Tbl, NEW b \in AS \cup {Boot}, NEW d \in SUBSET VA, NEW e \in AS,
         CanStore(f[e]["stack"])
  PROVE  env_run(e) \in Seq(Op) /\ Leads(St(f, b, d), env_run(e), St(f, e, {}))
<1> DEFINE load == [op |-> "ttbr0", as |-> e]
           results == IF recv[e] = "mail" THEN <<Store("stack")>> ELSE <<>>
<1>1. load.op = "ttbr0" /\ load.as = e /\ load \in Op /\ FlushOp \in Op
      /\ Store("stack") \in Op
  BY Ops DEF Op, CalmOp, VA
<1>2. /\ env_run(e) = (<<load>> \o <<FlushOp>>) \o results
      /\ <<load>> \in Seq(Op) /\ <<FlushOp>> \in Seq(Op) /\ results \in Seq(Op)
  <2> HIDE DEF load
  <2>1. <<load>> \o <<FlushOp>> = <<load, FlushOp>>
    BY <1>1, Pair
  <2> QED BY <1>1, <2>1 DEF env_run, load
<1>3. /\ St(f, b, d) \in RunState /\ St(f, b, d).pt = f /\ St(f, b, d).base = b
      /\ St(f, e, VA) \in RunState /\ St(f, e, VA).pt = f /\ St(f, e, VA).base = e
      /\ St(f, e, {}) \in RunState
  BY StFacts
<1>4. Leads(St(f, b, d), <<load>>, St(f, e, VA))
  <2> HIDE DEF load
  <2>1. OpStep(St(f, b, d), load, St(f, e, VA))
    BY <1>1, <1>3 DEF OpStep
  <2> QED BY <1>3, <2>1, LeadsOne
<1>5. Leads(St(f, e, VA), <<FlushOp>>, St(f, e, {}))
  <2>1. Leads(St(f, e, VA), <<FlushOp>>, St(St(f, e, VA).pt, St(f, e, VA).base, {}))
    BY <1>3, LeadsFlush
  <2> QED BY <1>3, <2>1
<1>6. Leads(St(f, e, {}), results, St(f, e, {}))
  <2>1. CASE recv[e] = "mail"
    BY <2>1, LeadsStore DEF VA
  <2>2. CASE recv[e] # "mail"
    BY <1>3, <2>2, LeadsNil
  <2> QED BY <2>1, <2>2
<1> HIDE DEF load, results
<1>7. <<load>> \o <<FlushOp>> \in Seq(Op)
      /\ Leads(St(f, b, d), <<load>> \o <<FlushOp>>, St(f, e, {}))
  BY <1>2, <1>4, <1>5, LeadsCat, Concat
<1>8. /\ (<<load>> \o <<FlushOp>>) \o results \in Seq(Op)
      /\ Leads(St(f, b, d), (<<load>> \o <<FlushOp>>) \o results, St(f, e, {}))
  BY <1>2, <1>6, <1>7, LeadsCat, Concat
<1> QED BY <1>2, <1>8

-----------------------------------------------------------------------------
(* The handlers.                                                           *)

(* Where an exception starts.                                              *)
LEMMA AtEntry ==
  ASSUME AbortInv, todo = <<>>
  PROVE  /\ pt \in Tbl /\ ttbr0 \in AS \cup {Boot} /\ Settled(pt, live)
         /\ sp1 # Kernel => sp1 = cur /\ cur \in AS
         /\ cur # None => /\ cur \in AS /\ cur \in live /\ ttbr0 = cur /\ Knows({})
                          /\ CanStore(pt[cur]["stack"])
<1>1. pt \in Tbl /\ ttbr0 \in AS \cup {Boot}
  BY DEF AbortInv, IInv, Shape, Tbl
<1>2. ~Spins(todo)
  BY DEF Spins
<1>3. Settled(pt, live)
  <2>1. PICK d \in SUBSET VA, y \in RunState :
          Leads(St(pt, ttbr0, d), todo, y) /\ Settled(y.pt, live)
    BY <1>2 DEF AbortInv, RunInv
  <2>2. y = St(pt, ttbr0, d)
    BY <2>1 DEF Leads, IsRun
  <2>3. St(pt, ttbr0, d).pt = pt
    BY <1>1, StFacts
  <2> QED BY <2>1, <2>2, <2>3
<1>4. sp1 # Kernel => sp1 = cur /\ cur \in AS
  BY DEF AbortInv, IInv, StackInv, Shape
<1>5. ASSUME cur # None
      PROVE  /\ cur \in AS /\ cur \in live /\ ttbr0 = cur /\ Knows({})
             /\ CanStore(pt[cur]["stack"])
  <2>1. UserMode
    BY <1>5 DEF UserMode
  <2>2. cur \in AS /\ ttbr0 = cur /\ Knows({})
    BY <2>1, Between DEF AbortInv, Knows
  <2>3. cur \in live
    BY <1>2, <1>5 DEF AbortInv
  <2> QED BY <1>3, <2>2, <2>3 DEF Settled, CanStore
<1> QED BY <1>1, <1>3, <1>4, <1>5

(* _sched_yield, after operations that lead to settled tables.             *)
LEMMA ScheduleRuns ==
  ASSUME AbortInv, NEW d \in SUBSET VA, Knows(d), NEW before \in Seq(Op),
         NEW y \in RunState, Leads(St(pt, ttbr0, d), before, y), Settled(y.pt, live'),
         live' \subseteq AS, NEW set \in SUBSET live', Schedule(before, set),
         UNCHANGED <<pt, ttbr0, tlb>>
  PROVE  RunInv' /\ (cur' # None => Spins(todo') \/ cur' \in live')
<1>1. Knows(d)'
  BY DEF Knows
<1>2. CASE \E e \in set : cur' = e /\ todo' = before \o env_run(e)
  <2>1. PICK e \in set : cur' = e /\ todo' = before \o env_run(e)
    BY <1>2
  <2>2. e \in AS /\ e \in live'
    BY <2>1
  <2>3. y.pt \in Tbl /\ y.base \in AS \cup {Boot} /\ y.stale \in SUBSET VA
        /\ y = St(y.pt, y.base, y.stale)
    BY RunStateFacts
  <2>4. CanStore(y.pt[e]["stack"])
    BY <2>2 DEF Settled, CanStore
  <2> DEFINE z == St(y.pt, e, {})
  <2>5. env_run(e) \in Seq(Op) /\ Leads(y, env_run(e), z)
    <3>1. env_run(e) \in Seq(Op) /\ Leads(St(y.pt, y.base, y.stale), env_run(e), z)
      BY <2>2, <2>3, <2>4, LeadsEnvRun
    <3> QED BY <2>3, <3>1
  <2>6. z \in RunState /\ z.pt = y.pt
    BY <2>2, <2>3, StFacts
  <2> HIDE DEF z
  <2>7. Leads(St(pt, ttbr0, d), todo', z)
    BY <2>1, <2>5, LeadsCat
  <2>8. Leads(St(pt, ttbr0, d)', todo', z) /\ Settled(z.pt, live')
    BY <2>6, <2>7 DEF St
  <2> QED BY <1>1, <2>1, <2>2, <2>6, <2>8 DEF RunInv
<1>3. CASE set = {} /\ todo' = Append(before, SpinOp)
  <2>1. SpinOp \in Op /\ <<SpinOp>> \in Seq(Op) /\ Append(before, SpinOp) = before \o <<SpinOp>>
    BY Ops DEF CalmOp
  <2>2. OpStep(y, SpinOp, y)
    BY DEF OpStep, SpinOp
  <2>3. Leads(y, <<SpinOp>>, y)
    BY <2>2, LeadsOne
  <2>4. Leads(St(pt, ttbr0, d), todo', y)
    BY <1>3, <2>1, <2>3, LeadsCat
  <2>5. Spins(todo')
    <3>1. Len(before) + 1 \in 1 .. Len(todo') /\ todo'[Len(before) + 1].op = "spin"
      BY <1>3, <2>1 DEF SpinOp
    <3> QED BY <3>1 DEF Spins
  <2>6. Leads(St(pt, ttbr0, d)', todo', y)
    BY <2>4 DEF St
  <2> QED BY <1>1, <2>5, <2>6 DEF RunInv
<1> QED BY <1>2, <1>3 DEF Schedule

(* Entering a handler, what is stale, and how x0 is saved.                 *)
LEMMA EntryRuns ==
  ASSUME AbortInv, todo = <<>>
  PROVE  \E d \in SUBSET VA :
           /\ Knows(d)
           /\ cur # None => d = {}
           /\ push_time_stack \in Seq(Op)
           /\ Leads(St(pt, ttbr0, d), push_time_stack, St(pt, ttbr0, d))
<1>1. /\ pt \in Tbl /\ ttbr0 \in AS \cup {Boot}
      /\ sp1 # Kernel => sp1 = cur /\ cur \in AS
      /\ cur # None => /\ cur \in AS /\ ttbr0 = cur /\ Knows({})
                       /\ CanStore(pt[cur]["stack"])
  BY AtEntry
<1>2. CASE cur = None
  <2>1. sp1 = Kernel
    BY <1>1, <1>2, TrapAssumption
  <2>2. Knows(VA)
    BY DEF Knows
  <2>3. push_time_stack \in Seq(Op) /\ Leads(St(pt, ttbr0, VA), push_time_stack, St(pt, ttbr0, VA))
    BY <1>1, <2>1, LeadsPush
  <2> QED BY <1>2, <2>2, <2>3
<1>3. CASE cur # None
  <2>1. push_time_stack \in Seq(Op) /\ Leads(St(pt, ttbr0, {}), push_time_stack, St(pt, ttbr0, {}))
    BY <1>1, <1>3, LeadsPush
  <2> QED BY <1>1, <1>3, <2>1
<1> QED BY <1>2, <1>3

(* A handler that leads to settled tables.                                 *)
LEMMA HandlerRuns ==
  ASSUME NEW d \in SUBSET VA, Knows(d), NEW y \in RunState,
         Leads(St(pt, ttbr0, d), todo', y), Settled(y.pt, live'),
         UNCHANGED <<pt, ttbr0, tlb>>
  PROVE  RunInv'
<1>1. Knows(d)'
  BY DEF Knows
<1>2. Leads(St(pt, ttbr0, d)', todo', y)
  BY DEF St
<1>3. Settled(y.pt, live')
  OBVIOUS
<1> QED BY <1>1, <1>2, <1>3 DEF RunInv

(* Of a program: what is so when it enters a handler.                      *)
LEMMA ProgramRuns ==
  ASSUME AbortInv, UserMode
  PROVE  /\ pt \in Tbl /\ cur \in AS /\ cur \in live /\ ttbr0 = cur /\ Knows({})
         /\ Settled(pt, live) /\ live \subseteq AS /\ CanStore(pt[cur]["stack"])
         /\ push_time_stack \in Seq(Op)
         /\ Leads(St(pt, cur, {}), push_time_stack, St(pt, cur, {}))
<1>1. todo = <<>> /\ cur # None
  BY DEF UserMode
<1>2. /\ pt \in Tbl /\ Settled(pt, live) /\ cur \in AS /\ cur \in live
      /\ ttbr0 = cur /\ Knows({}) /\ CanStore(pt[cur]["stack"])
  BY <1>1, AtEntry
<1>3. PICK d \in SUBSET VA : /\ d = {} /\ push_time_stack \in Seq(Op)
                             /\ Leads(St(pt, ttbr0, d), push_time_stack, St(pt, ttbr0, d))
  BY <1>1, EntryRuns
<1> QED BY <1>2, <1>3 DEF AbortInv, IInv, Shape

(* Interrupts.                                                             *)
LEMMA IRQRuns ==
  ASSUME AbortInv, IRQStub
  PROVE  RunInv' /\ (cur' # None => Spins(todo') \/ cur' \in live')
<1>1. todo = <<>> /\ live' = live /\ UNCHANGED <<pt, ttbr0, tlb>>
      /\ Schedule(push_time_stack, Runnable)
  BY DEF IRQStub
<1>2. PICK d \in SUBSET VA :
        Knows(d) /\ push_time_stack \in Seq(Op)
        /\ Leads(St(pt, ttbr0, d), push_time_stack, St(pt, ttbr0, d))
  BY <1>1, EntryRuns
<1> DEFINE y == St(pt, ttbr0, d)
<1>3. y \in RunState /\ Settled(y.pt, live')
  BY <1>1, AtEntry, StFacts
<1>4. Runnable \in SUBSET live' /\ live' \subseteq AS
  BY <1>1 DEF Runnable, AbortInv, IInv, Shape
<1> HIDE DEF y
<1>5. Leads(St(pt, ttbr0, d), push_time_stack, y)
  BY <1>2 DEF y
<1> QED BY <1>1, <1>2, <1>3, <1>4, <1>5, ScheduleRuns

(* The system call that yields.                                            *)
LEMMA YieldRuns ==
  ASSUME AbortInv, _sched_yield
  PROVE  RunInv' /\ (cur' # None => Spins(todo') \/ cur' \in live')
<1>1. UserMode /\ live' = live /\ UNCHANGED <<pt, ttbr0, tlb>>
      /\ Schedule(push_time_stack, Runnable)
  BY DEF _sched_yield, OnKernelStack
<1> DEFINE y == St(pt, ttbr0, {})
<1>2. /\ Knows({}) /\ push_time_stack \in Seq(Op)
      /\ Leads(St(pt, ttbr0, {}), push_time_stack, y)
      /\ y \in RunState /\ Settled(y.pt, live')
  BY <1>1, ProgramRuns, StFacts
<1>3. Runnable \in SUBSET live' /\ live' \subseteq AS
  BY <1>1 DEF Runnable, AbortInv, IInv, Shape
<1> HIDE DEF y
<1> QED BY <1>1, <1>2, <1>3, ScheduleRuns

(* Calls 0-5: the push and the handler's own frames go to the stack of the *)
(* program.                                                                *)
LEMMA UserStackRuns ==
  ASSUME AbortInv, NEW ops \in Seq(Op), OnUserStack(ops), NEW y \in RunState,
         Leads(St(pt, cur, {}), ops, y), Settled(y.pt, live),
         UNCHANGED <<live, cur, pt, ttbr0, tlb>>
  PROVE  RunInv' /\ (cur' # None => Spins(todo') \/ cur' \in live')
<1>1. UserMode /\ todo' = (push_time_stack \o <<Store("stack")>>) \o ops
  BY DEF OnUserStack
<1> DEFINE x == St(pt, cur, {})
<1>2. /\ pt \in Tbl /\ cur \in AS /\ cur \in live /\ ttbr0 = cur /\ Knows({})
      /\ CanStore(pt[cur]["stack"])
      /\ push_time_stack \in Seq(Op) /\ Leads(x, push_time_stack, x)
  BY <1>1, ProgramRuns
<1>3. <<Store("stack")>> \in Seq(Op) /\ Leads(x, <<Store("stack")>>, x)
  <2>1. Store("stack") \in Op /\ "stack" \in VA
    BY Ops DEF CalmOp, VA
  <2> QED BY <1>2, <2>1, LeadsStore
<1> HIDE DEF x
<1>4. /\ push_time_stack \o <<Store("stack")>> \in Seq(Op)
      /\ Leads(x, push_time_stack \o <<Store("stack")>>, x)
  BY <1>2, <1>3, LeadsCat, Concat
<1>5. Leads(x, (push_time_stack \o <<Store("stack")>>) \o ops, y)
  <2>1. Leads(x, ops, y)
    BY DEF x
  <2> QED BY <1>4, <2>1, LeadsCat
<1>6. Leads(St(pt, ttbr0, {}), todo', y)
  BY <1>1, <1>2, <1>5 DEF x
<1>7. RunInv'
  BY <1>2, <1>6, HandlerRuns
<1> QED BY <1>2, <1>7

(* Calls that only read.                                                   *)
LEMMA CallRuns ==
  ASSUME AbortInv, Call
  PROVE  RunInv' /\ (cur' # None => Spins(todo') \/ cur' \in live')
<1>1. UserMode /\ UNCHANGED <<live, cur, pt, ttbr0, tlb>>
  BY DEF Call, OnUserStack
<1> DEFINE x == St(pt, cur, {})
           ops == IF pt[cur]["data"] = Invalid THEN <<>> ELSE <<Load("data")>>
<1>2. pt \in Tbl /\ cur \in AS /\ Settled(pt, live)
  BY <1>1, ProgramRuns
<1>3. x \in RunState /\ x.pt = pt
  BY <1>2, StFacts
<1>4. ops \in Seq(Op) /\ Leads(x, ops, x)
  <2>1. Load("data") \in Op /\ "data" \in VA
    BY Ops DEF CalmOp, VA
  <2>2. CASE pt[cur]["data"] = Invalid
    BY <1>3, <2>2, LeadsNil
  <2>3. CASE pt[cur]["data"] # Invalid
    <3>1. Leads(x, <<Load("data")>>, x)
      BY <1>2, <2>1, <2>3, LeadsLoad
    <3> QED BY <2>1, <2>3, <3>1
  <2> QED BY <2>2, <2>3
<1>5. OnUserStack(ops)
  BY DEF Call
<1> HIDE DEF x, ops
<1>6. Leads(St(pt, cur, {}), ops, x)
  BY <1>4 DEF x
<1> QED BY <1>1, <1>2, <1>3, <1>4, <1>5, <1>6, UserStackRuns

(* A program begins to receive.                                            *)
LEMMA CanRecvRuns ==
  ASSUME AbortInv, _ipc_can_recv
  PROVE  RunInv' /\ (cur' # None => Spins(todo') \/ cur' \in live')
<1>1. UserMode /\ UNCHANGED <<live, cur, pt, ttbr0, tlb>> /\ OnUserStack(<<>>)
  BY DEF _ipc_can_recv, OnUserStack
<1> DEFINE x == St(pt, cur, {})
<1>2. x \in RunState /\ Settled(x.pt, live)
  BY <1>1, ProgramRuns, StFacts
<1>3. Leads(x, <<>>, x) /\ <<>> \in Seq(Op)
  BY <1>2, LeadsNil
<1> HIDE DEF x
<1>4. Leads(St(pt, cur, {}), <<>>, x)
  BY <1>3 DEF x
<1> QED BY <1>1, <1>2, <1>3, <1>4, UserStackRuns

(* A message, with a page that goes into the tables of another program.    *)
LEMMA CanSendRuns ==
  ASSUME AbortInv, NEW r \in AS, NEW ap \in {"RW_ALL", "RO_ALL"}, _ipc_can_send(r, ap)
  PROVE  RunInv' /\ (cur' # None => Spins(todo') \/ cur' \in live')
<1>1. UserMode /\ UNCHANGED <<live, cur, pt, ttbr0, tlb>> /\ r # cur /\ r \in live
  BY DEF _ipc_can_send, OnUserStack
<1>2. pt \in Tbl /\ cur \in AS /\ Settled(pt, live) /\ live \subseteq AS
  BY <1>1, ProgramRuns
<1>3. CASE OnUserStack(<<>>)
  <2> DEFINE x == St(pt, cur, {})
  <2>1. x \in RunState /\ Settled(x.pt, live)
    BY <1>2, StFacts
  <2>2. Leads(x, <<>>, x) /\ <<>> \in Seq(Op)
    BY <2>1, LeadsNil
  <2> HIDE DEF x
  <2>3. Leads(St(pt, cur, {}), <<>>, x)
    BY <2>2 DEF x
  <2> QED BY <1>1, <1>3, <2>1, <2>2, <2>3, UserStackRuns
<1>4. CASE /\ pt[cur]["data"] # Invalid
           /\ OnUserStack(page_insert(r, "data",
                [page |-> pt[cur]["data"].page, ap |-> ap], pt[r]["data"]))
  <2> DEFINE new == [page |-> pt[cur]["data"].page, ap |-> ap]
             f == Put(pt, r, "data", new)
             ops == page_insert(r, "data", new, pt[r]["data"])
             y == St(f, cur, {})
  <2>1. new \in Entry /\ "data" \in VA /\ "stack" \in VA /\ "temp" \in VA
    <3>1. pt[cur]["data"] \in Entry
      BY <1>2, <1>4 DEF Tbl, VA
    <3> QED BY <3>1 DEF Entry, VA
  <2> HIDE DEF new
  <2>2. f \in Tbl /\ \A a \in AS, v \in VA :
          f[a][v] = IF a = r /\ v = "data" THEN new ELSE pt[a][v]
    BY <1>2, <2>1, PutFacts
  <2>3. ops \in Seq(Op) /\ Leads(St(pt, cur, {}), ops, y)
    <3>1. /\ ops \in Seq(Op)
          /\ Leads(St(pt, cur, {}), ops,
                   St(f, cur, IF r = cur /\ pt[r]["data"] # Invalid /\ pt[r]["data"].page = new.page
                              THEN {"data"} ELSE {}))
      BY <1>2, <2>1, LeadsInsert
    <3> QED BY <1>1, <3>1
  <2>4. Settled(f, live)
    <3> HIDE DEF f
    <3> QED BY <1>1, <1>2, <2>1, <2>2 DEF Settled
  <2>5. y \in RunState /\ Settled(y.pt, live)
    <3> HIDE DEF f
    <3>1. y \in RunState /\ y.pt = f
      BY <1>2, <2>2, StFacts
    <3> QED BY <2>4, <3>1
  <2>6. OnUserStack(ops)
    BY <1>4 DEF new
  <2> HIDE DEF ops, y
  <2> QED BY <1>1, <2>3, <2>5, <2>6, UserStackRuns
<1> QED BY <1>3, <1>4 DEF _ipc_can_send

(* The child shares the program's page, read-only to both, and has a copy  *)
(* of its stack.                                                           *)
LEMMA ForkRuns ==
  ASSUME AbortInv, NEW c \in AS, _fork(c)
  PROVE  RunInv' /\ (cur' # None => Spins(todo') \/ cur' \in live')
<1>1. /\ UserMode /\ c \notin live /\ live' = live \cup {c}
      /\ UNCHANGED <<cur, pt, ttbr0, tlb>>
  BY DEF _fork, OnKernelStack
<1>2. PICK q \in Page : todo' = ForkOps(c, q)
  BY DEF _fork, Free
<1>3. /\ pt \in Tbl /\ cur \in AS /\ cur \in live /\ ttbr0 = cur /\ Knows({})
      /\ Settled(pt, live) /\ live \subseteq AS /\ CanStore(pt[cur]["stack"])
      /\ push_time_stack \in Seq(Op)
      /\ Leads(St(pt, cur, {}), push_time_stack, St(pt, cur, {}))
  BY <1>1, ProgramRuns
<1>4. "data" \in VA /\ "stack" \in VA /\ "temp" \in VA /\ c # cur
  BY <1>1, <1>3 DEF VA
<1> DEFINE data == pt[cur]["data"]
           shared == ReadOnly(data)
           mine == page_insert(cur, "data", shared, data)
           hers == page_insert(c, "data", shared, Invalid)
           share == IF data = Invalid THEN <<>> ELSE mine \o hers
           look == <<Load("stack")>>
           stack == page_insert(c, "stack", Writable(q), Invalid)
           f1 == Put(pt, cur, "data", shared)
           f2 == Put(f1, c, "data", shared)
           f == IF data = Invalid THEN pt ELSE f2
           g == Put(f, c, "stack", Writable(q))
           x == St(pt, cur, {})
           y == St(f, cur, {})
           z == St(g, cur, {})
<1>5. /\ f \in Tbl /\ share \in Seq(Op) /\ Leads(x, share, y)
      /\ \A a \in AS, v \in VA : v # "data" \/ a \notin {cur, c} => f[a][v] = pt[a][v]
  <2>1. CASE data = Invalid
    <3>1. x \in RunState
      BY <1>3, StFacts
    <3>2. Leads(x, <<>>, x)
      BY <3>1, LeadsNil
    <3> QED BY <1>3, <2>1, <3>2
  <2>2. CASE data # Invalid
    <3>1. data \in Entry
      BY <1>3, <1>4, <2>2 DEF Tbl
    <3>2. shared \in Entry
      BY <3>1, Entries
    <3> HIDE DEF shared
    <3>3. /\ f1 \in Tbl
          /\ \A a \in AS, v \in VA :
               f1[a][v] = IF a = cur /\ v = "data" THEN shared ELSE pt[a][v]
      BY <1>3, <1>4, <3>2, PutFacts
    <3>4. f1[c]["data"] = Invalid
      <4> HIDE DEF f1
      <4> QED BY <1>1, <1>3, <1>4, <3>3 DEF Settled
    <3>5. /\ f2 \in Tbl
          /\ \A a \in AS, v \in VA :
               f2[a][v] = IF a = c /\ v = "data" THEN shared ELSE f1[a][v]
      <4> HIDE DEF f1
      <4> QED BY <1>4, <3>2, <3>3, PutFacts
    <3> DEFINE d == IF cur = cur /\ pt[cur]["data"] # Invalid
                       /\ pt[cur]["data"].page = shared.page THEN {"data"} ELSE {}
    <3>6. mine \in Seq(Op) /\ Leads(x, mine, St(f1, cur, d))
      <4> HIDE DEF f1
      <4>1. /\ page_insert(cur, "data", shared, pt[cur]["data"]) \in Seq(Op)
            /\ Leads(St(pt, cur, {}), page_insert(cur, "data", shared, pt[cur]["data"]),
                     St(Put(pt, cur, "data", shared), cur, d))
        BY <1>3, <1>4, <3>2, LeadsInsert
      <4> QED BY <4>1 DEF f1
    <3>7. d \in SUBSET VA
      BY <1>4
    <3> HIDE DEF d
    <3>8. hers \in Seq(Op) /\ Leads(St(f1, cur, d), hers, St(f2, cur, {}))
      <4> HIDE DEF f1
      <4> QED BY <1>3, <1>4, <3>2, <3>3, <3>4, <3>7, LeadsFresh
    <3> HIDE DEF f1, f2, mine, hers
    <3>9. mine \o hers \in Seq(Op) /\ Leads(x, mine \o hers, St(f2, cur, {}))
      BY <3>6, <3>8, LeadsCat, Concat
    <3> HIDE DEF data
    <3> QED BY <2>2, <3>3, <3>5, <3>9
  <2> QED BY <2>1, <2>2
<1> HIDE DEF share, f
<1>6. f[cur]["stack"] # Invalid /\ f[c]["stack"] = Invalid
  BY <1>1, <1>3, <1>4, <1>5 DEF CanStore, Settled
<1>7. look \in Seq(Op) /\ Leads(y, look, y)
  <2>1. Load("stack") \in Op
    BY <1>4, Ops DEF CalmOp
  <2> QED BY <1>3, <1>4, <1>5, <1>6, <2>1, LeadsLoad
<1>8. Writable(q) \in Entry /\ Writable(q).ap = "RW_ALL" /\ Writable(q) # Invalid
  BY Entries, EntryAssumption DEF Writable
<1>9. stack \in Seq(Op) /\ Leads(y, stack, z)
  BY <1>3, <1>4, <1>5, <1>6, <1>8, LeadsFresh
<1>10. /\ g \in Tbl
       /\ \A a \in AS, v \in VA :
            g[a][v] = IF a = c /\ v = "stack" THEN Writable(q) ELSE f[a][v]
  BY <1>4, <1>5, <1>8, PutFacts
<1> HIDE DEF g
<1>11. <<FlushOp>> \in Seq(Op) /\ Leads(z, <<FlushOp>>, z)
  <2>1. z \in RunState /\ z.pt = g /\ z.base = cur
    BY <1>3, <1>10, StFacts
  <2>2. Leads(z, <<FlushOp>>, St(z.pt, z.base, {}))
    BY <2>1, LeadsFlush
  <2> QED BY <2>1, <2>2, OpSeqs, <1>3, <1>4, <1>8
<1>12. ForkOps(c, q) = (((push_time_stack \o share) \o look) \o stack) \o <<FlushOp>>
  BY DEF ForkOps, share
<1>13. z \in RunState /\ z.pt = g
  BY <1>3, <1>10, StFacts
<1>14. Leads(x, (((push_time_stack \o share) \o look) \o stack) \o <<FlushOp>>, z)
  <2>0. Leads(x, push_time_stack, x)
    BY <1>3
  <2> HIDE DEF look, stack, x, y, z
  <2>1. push_time_stack \o share \in Seq(Op) /\ Leads(x, push_time_stack \o share, y)
    BY <1>3, <1>5, <2>0, LeadsCat, Concat
  <2>2. /\ (push_time_stack \o share) \o look \in Seq(Op)
        /\ Leads(x, (push_time_stack \o share) \o look, y)
    BY <1>7, <2>1, LeadsCat, Concat
  <2>3. /\ ((push_time_stack \o share) \o look) \o stack \in Seq(Op)
        /\ Leads(x, ((push_time_stack \o share) \o look) \o stack, z)
    BY <1>9, <2>2, LeadsCat, Concat
  <2> QED BY <1>11, <2>3, LeadsCat
<1>15. Settled(g, live')
  <2> HIDE DEF y, z, look, stack
  <2>1. \A e \in AS : g[e]["temp"] = Invalid
    BY <1>3, <1>4, <1>5, <1>10 DEF Settled
  <2>2. \A e \in AS : e \in live' => g[e]["stack"] # Invalid /\ g[e]["stack"].ap = "RW_ALL"
    BY <1>1, <1>3, <1>4, <1>5, <1>8, <1>10 DEF Settled
  <2>3. \A e \in AS : e \notin live' => \A va \in VA : g[e][va] = Invalid
    BY <1>1, <1>3, <1>4, <1>5, <1>10 DEF Settled
  <2> QED BY <2>1, <2>2, <2>3 DEF Settled
<1>16. Leads(St(pt, ttbr0, {}), todo', z) /\ Settled(z.pt, live')
  <2> HIDE DEF z, share, look, stack
  <2> QED BY <1>2, <1>3, <1>12, <1>13, <1>14, <1>15
<1>17. RunInv'
  <2> HIDE DEF z
  <2> QED BY <1>1, <1>3, <1>13, <1>16, HandlerRuns
<1> QED BY <1>1, <1>3, <1>17

(* A program that faults has a page there, and its copy goes through       *)
(* USTACKTOP, which is empty.                                              *)
LEMMA FaultRuns ==
  ASSUME AbortInv, mmu_fault_handler
  PROVE  RunInv' /\ (cur' # None => Spins(todo') \/ cur' \in live')
<1>1. /\ UserMode /\ Translation("data") # Invalid
      /\ UNCHANGED <<live, cur, pt, ttbr0, tlb>>
  BY DEF mmu_fault_handler, OnKernelStack
<1>2. PICK q \in Free : todo' = FaultOps(q)
  BY DEF mmu_fault_handler
<1>3. /\ pt \in Tbl /\ cur \in AS /\ cur \in live /\ ttbr0 = cur /\ Knows({})
      /\ Settled(pt, live) /\ live \subseteq AS
      /\ push_time_stack \in Seq(Op)
      /\ Leads(St(pt, cur, {}), push_time_stack, St(pt, cur, {}))
  BY <1>1, ProgramRuns
<1>4. "data" \in VA /\ "stack" \in VA /\ "temp" \in VA
  BY DEF VA
<1> DEFINE old == pt[cur]["data"]
           new == Writable(q)
           temp == page_insert(cur, "temp", new, Invalid)
           load == <<Load("data")>>
           store == <<Store("temp")>>
           data == page_insert(cur, "data", new, old)
           gone == page_remove(cur, "temp", new)
           f1 == Put(pt, cur, "temp", new)
           f2 == Put(f1, cur, "data", new)
           f3 == Put(f2, cur, "temp", Invalid)
           x == St(pt, cur, {})
           x1 == St(f1, cur, {})
           x2 == St(f2, cur, {})
           y == St(f3, cur, {})
<1>5. old # Invalid /\ old.page # q
  <2>1. old # Invalid
    BY <1>1, <1>3, <1>4 DEF Translation, Knows
  <2> QED BY <1>2, <1>3, <1>4, <2>1 DEF Free
<1>6. /\ q \in Page /\ new \in Entry /\ new.ap = "RW_ALL" /\ new.page = q
      /\ new # Invalid /\ CanStore(new)
  <2>1. q \in Page
    BY <1>2 DEF Free
  <2>2. new \in Entry /\ new.ap = "RW_ALL" /\ new.page = q
    BY <2>1, Entries DEF Writable
  <2> QED BY <2>1, <2>2, EntryAssumption DEF CanStore
<1> HIDE DEF new
<1>7. /\ pt[cur]["temp"] = Invalid
      /\ f1 \in Tbl
      /\ \A a \in AS, v \in VA :
           f1[a][v] = IF a = cur /\ v = "temp" THEN new ELSE pt[a][v]
  BY <1>3, <1>4, <1>6, PutFacts DEF Settled
<1>8. temp \in Seq(Op) /\ Leads(x, temp, x1)
  BY <1>3, <1>4, <1>6, <1>7, LeadsFresh
<1> HIDE DEF f1
<1>9. load \in Seq(Op) /\ Leads(x1, load, x1)
  <2>1. Load("data") \in Op
    BY <1>4, Ops DEF CalmOp
  <2>2. f1[cur]["data"] # Invalid
    BY <1>3, <1>4, <1>5, <1>7
  <2> QED BY <1>3, <1>4, <1>7, <2>1, <2>2, LeadsLoad
<1>10. store \in Seq(Op) /\ Leads(x1, store, x1)
  <2>1. Store("temp") \in Op
    BY <1>4, Ops DEF CalmOp
  <2>2. CanStore(f1[cur]["temp"])
    BY <1>3, <1>4, <1>6, <1>7
  <2> QED BY <1>3, <1>4, <1>7, <2>1, <2>2, LeadsStore
<1>11. /\ f2 \in Tbl
       /\ \A a \in AS, v \in VA :
            f2[a][v] = IF a = cur /\ v = "data" THEN new ELSE f1[a][v]
  BY <1>3, <1>4, <1>6, <1>7, PutFacts
<1>12. data \in Seq(Op) /\ Leads(x1, data, x2)
  <2>1. f1[cur]["data"] = old /\ old.page # new.page
    BY <1>3, <1>4, <1>5, <1>6, <1>7
  <2>2. /\ page_insert(cur, "data", new, f1[cur]["data"]) \in Seq(Op)
        /\ Leads(St(f1, cur, {}), page_insert(cur, "data", new, f1[cur]["data"]),
             St(Put(f1, cur, "data", new), cur,
                IF cur = cur /\ f1[cur]["data"] # Invalid
                   /\ f1[cur]["data"].page = new.page THEN {"data"} ELSE {}))
    BY <1>3, <1>4, <1>6, <1>7, LeadsInsert
  <2> QED BY <2>1, <2>2
<1> HIDE DEF f2
<1>13. /\ f3 \in Tbl
       /\ \A a \in AS, v \in VA :
            f3[a][v] = IF a = cur /\ v = "temp" THEN Invalid ELSE f2[a][v]
  BY <1>3, <1>4, <1>11, PutFacts
<1>14. gone \in Seq(Op) /\ Leads(x2, gone, y)
  <2>1. f2[cur]["temp"] = new
    BY <1>3, <1>4, <1>7, <1>11
  <2>2. /\ page_remove(cur, "temp", f2[cur]["temp"]) \in Seq(Op)
        /\ Leads(St(f2, cur, {}), page_remove(cur, "temp", f2[cur]["temp"]),
                 St(Put(f2, cur, "temp", Invalid), cur, {}))
    BY <1>3, <1>4, <1>11, LeadsRemove
  <2> QED BY <2>1, <2>2
<1> HIDE DEF f3
<1>15. y \in RunState /\ y.pt = f3 /\ y.base = cur
  BY <1>3, <1>13, StFacts
<1>16. <<FlushOp>> \in Seq(Op) /\ Leads(y, <<FlushOp>>, y)
  <2>1. Leads(y, <<FlushOp>>, St(y.pt, y.base, {}))
    BY <1>15, LeadsFlush
  <2>2. <<FlushOp>> \in Seq(Op)
    BY <1>3, <1>4, <1>6, OpSeqs
  <2> QED BY <1>15, <2>1, <2>2
<1>17. FaultOps(q)
         = ((((push_time_stack \o temp) \o (load \o store)) \o data) \o gone) \o <<FlushOp>>
  <2>1. load \o store = <<Load("data"), Store("temp")>>
    <3>1. Load("data") \in Op /\ Store("temp") \in Op
      BY <1>4, Ops DEF CalmOp
    <3> QED BY <3>1, Pair
  <2> QED BY <2>1 DEF FaultOps, new
<1>18. Leads(x, ((((push_time_stack \o temp) \o (load \o store)) \o data) \o gone)
                \o <<FlushOp>>, y)
  <2>0. Leads(x, push_time_stack, x)
    BY <1>3
  <2> HIDE DEF temp, load, store, data, gone, x, x1, x2, y
  <2>1. push_time_stack \o temp \in Seq(Op) /\ Leads(x, push_time_stack \o temp, x1)
    BY <1>3, <1>8, <2>0, LeadsCat, Concat
  <2>2. load \o store \in Seq(Op) /\ Leads(x1, load \o store, x1)
    BY <1>9, <1>10, LeadsCat, Concat
  <2>3. /\ (push_time_stack \o temp) \o (load \o store) \in Seq(Op)
        /\ Leads(x, (push_time_stack \o temp) \o (load \o store), x1)
    BY <2>1, <2>2, LeadsCat, Concat
  <2>4. /\ ((push_time_stack \o temp) \o (load \o store)) \o data \in Seq(Op)
        /\ Leads(x, ((push_time_stack \o temp) \o (load \o store)) \o data, x2)
    BY <1>12, <2>3, LeadsCat, Concat
  <2>5. /\ (((push_time_stack \o temp) \o (load \o store)) \o data) \o gone \in Seq(Op)
        /\ Leads(x, (((push_time_stack \o temp) \o (load \o store)) \o data) \o gone, y)
    BY <1>14, <2>4, LeadsCat, Concat
  <2> QED BY <1>16, <2>5, LeadsCat
<1>19. Settled(f3, live')
  <2>1. \A e \in AS : f3[e]["temp"] = Invalid /\ f3[e]["stack"] = pt[e]["stack"]
    BY <1>3, <1>4, <1>7, <1>11, <1>13 DEF Settled
  <2>2. \A e \in AS : e # cur => \A va \in VA : f3[e][va] = pt[e][va]
    BY <1>3, <1>4, <1>7, <1>11, <1>13
  <2> QED BY <1>1, <1>3, <2>1, <2>2 DEF Settled
<1>20. Leads(St(pt, ttbr0, {}), todo', y) /\ Settled(y.pt, live')
  <2> HIDE DEF y, temp, load, store, data, gone
  <2> QED BY <1>2, <1>3, <1>15, <1>17, <1>18, <1>19
<1>21. RunInv'
  <2> HIDE DEF y
  <2> QED BY <1>1, <1>3, <1>15, <1>20, HandlerRuns
<1> QED BY <1>1, <1>3, <1>21

(* An environment that ends leaves nothing mapped.                         *)
LEMMA DestroyRuns ==
  ASSUME AbortInv, _env_destroy
  PROVE  RunInv' /\ (cur' # None => Spins(todo') \/ cur' \in live')
<1>1. /\ UserMode /\ live' = live \ {cur} /\ UNCHANGED <<pt, ttbr0, tlb>>
      /\ Schedule(DestroyOps, Runnable \ {cur})
  BY DEF _env_destroy, OnKernelStack
<1>2. /\ pt \in Tbl /\ cur \in AS /\ cur \in live /\ ttbr0 = cur /\ Knows({})
      /\ Settled(pt, live) /\ live \subseteq AS
      /\ push_time_stack \in Seq(Op)
      /\ Leads(St(pt, cur, {}), push_time_stack, St(pt, cur, {}))
  BY <1>1, ProgramRuns
<1>3. "data" \in VA /\ "stack" \in VA /\ "temp" \in VA /\ VA = {"data", "stack", "temp"}
  BY DEF VA
<1> DEFINE data == page_remove(cur, "data", pt[cur]["data"])
           stack == page_remove(cur, "stack", pt[cur]["stack"])
           f == Put(pt, cur, "data", Invalid)
           g == Put(f, cur, "stack", Invalid)
           x == St(pt, cur, {})
           y == St(f, cur, {})
           z == St(g, cur, {})
<1>4. /\ f \in Tbl
      /\ \A a \in AS, v \in VA :
           f[a][v] = IF a = cur /\ v = "data" THEN Invalid ELSE pt[a][v]
  BY <1>2, <1>3, PutFacts
<1>5. data \in Seq(Op) /\ Leads(x, data, y)
  BY <1>2, <1>3, LeadsRemove
<1> HIDE DEF f
<1>6. /\ g \in Tbl
      /\ \A a \in AS, v \in VA :
           g[a][v] = IF a = cur /\ v = "stack" THEN Invalid ELSE f[a][v]
  BY <1>2, <1>3, <1>4, PutFacts
<1>7. stack \in Seq(Op) /\ Leads(y, stack, z)
  <2>1. /\ page_remove(cur, "stack", f[cur]["stack"]) \in Seq(Op)
        /\ Leads(St(f, cur, {}), page_remove(cur, "stack", f[cur]["stack"]),
                 St(Put(f, cur, "stack", Invalid), cur, {}))
    BY <1>2, <1>3, <1>4, LeadsRemove
  <2>2. f[cur]["stack"] = pt[cur]["stack"]
    BY <1>2, <1>3, <1>4
  <2> QED BY <2>1, <2>2
<1> HIDE DEF g
<1>8. z \in RunState /\ z.pt = g
  BY <1>2, <1>6, StFacts
<1>9. Settled(g, live')
  <2>1. \A e \in AS : e # cur => \A va \in VA : g[e][va] = pt[e][va]
    BY <1>2, <1>4, <1>6
  <2>2. \A va \in VA : g[cur][va] = Invalid
    BY <1>2, <1>3, <1>4, <1>6 DEF Settled
  <2>3. cur \notin live'
    BY <1>1
  <2> QED BY <1>1, <1>2, <1>3, <2>1, <2>2, <2>3 DEF Settled
<1>10. DestroyOps \in Seq(Op) /\ Leads(St(pt, ttbr0, {}), DestroyOps, z)
  <2>0. Leads(x, push_time_stack, x) /\ x = St(pt, ttbr0, {})
    BY <1>2
  <2>1. DestroyOps = (push_time_stack \o data) \o stack
    BY DEF DestroyOps
  <2> HIDE DEF data, stack, x, y, z
  <2>2. push_time_stack \o data \in Seq(Op) /\ Leads(x, push_time_stack \o data, y)
    BY <1>2, <1>5, <2>0, LeadsCat, Concat
  <2>3. /\ (push_time_stack \o data) \o stack \in Seq(Op)
        /\ Leads(x, (push_time_stack \o data) \o stack, z)
    BY <1>7, <2>2, LeadsCat, Concat
  <2> QED BY <2>0, <2>1, <2>3
<1>11. Runnable \ {cur} \in SUBSET live' /\ live' \subseteq AS
  BY <1>1, <1>2 DEF Runnable
<1>12. Settled(z.pt, live')
  <2> HIDE DEF z
  <2> QED BY <1>8, <1>9
<1> HIDE DEF z
<1> QED BY <1>1, <1>2, <1>8, <1>10, <1>11, <1>12, ScheduleRuns
-----------------------------------------------------------------------------
(* The operations.                                                         *)

(* An operation of the handler, as the run has it.                         *)
LEMMA RunStep ==
  ASSUME AbortInv, NEW op, Begins(op)
  PROVE  \E d \in SUBSET VA, y \in RunState, z \in RunState :
           /\ Knows(d) /\ OpStep(St(pt, ttbr0, d), Head(todo), z) /\ Leads(z, todo', y)
           /\ Spins(todo) \/ Settled(y.pt, live)
<1>1. todo \in Seq(Op) /\ todo # <<>> /\ todo' = Tail(todo)
  BY FirstOp DEF AbortInv
<1>2. PICK d \in SUBSET VA, y \in RunState :
        /\ Knows(d) /\ Leads(St(pt, ttbr0, d), todo, y)
        /\ Spins(todo) \/ Settled(y.pt, live)
  BY DEF AbortInv, RunInv
<1>3. PICK z \in RunState :
        OpStep(St(pt, ttbr0, d), Head(todo), z) /\ Leads(z, Tail(todo), y)
  BY <1>1, <1>2, LeadsTail
<1> QED BY <1>1, <1>2, <1>3

(* Where it leads, the handler goes on from there.                         *)
LEMMA GoesOn ==
  ASSUME AbortInv, NEW op, Begins(op), op # "spin", NEW y \in RunState, NEW z \in RunState,
         Leads(z, todo', y), Spins(todo) \/ Settled(y.pt, live),
         z = St(pt, ttbr0, z.stale)', Knows(z.stale)', UNCHANGED <<live, cur>>
  PROVE  RunInv' /\ (cur' # None => Spins(todo') \/ cur' \in live')
<1>1. todo \in Seq(Op) /\ todo # <<>> /\ Head(todo).op # "spin" /\ todo' = Tail(todo)
  BY FirstOp DEF AbortInv
<1>2. Spins(todo) => Spins(todo')
  BY <1>1, TailSpins
<1>3. z.stale \in SUBSET VA
  BY RunStateFacts
<1>4. PICK d \in SUBSET VA : d = z.stale
  BY <1>3
<1>5. Leads(St(pt, ttbr0, d)', todo', y) /\ Knows(d)'
  <2>1. z = St(pt, ttbr0, d)'
    BY <1>4
  <2> QED BY <1>4, <2>1
<1>6. Spins(todo') \/ Settled(y.pt, live')
  BY <1>2
<1>7. RunInv'
  BY <1>5, <1>6 DEF RunInv
<1>8. cur' # None => Spins(todo') \/ cur' \in live'
  BY <1>2 DEF AbortInv
<1> QED BY <1>7, <1>8

(* Writing an entry.                                                       *)
LEMMA WriteRuns ==
  ASSUME AbortInv, WriteEntry
  PROVE  RunInv' /\ (cur' # None => Spins(todo') \/ cur' \in live')
<1>1. /\ Begins("write")
      /\ pt' = [pt EXCEPT ![Head(todo).as][Head(todo).va] = Head(todo).to]
      /\ UNCHANGED <<live, cur, ttbr0, tlb>>
  BY DEF WriteEntry
<1>2. PICK o : o = Head(todo)
  OBVIOUS
<1>3. o.op = "write" /\ o.as \in AS /\ o.va \in VA /\ o.to \in Entry \cup {Invalid}
  <2>1. o \in Op /\ o.op = "write"
    BY <1>1, <1>2, FirstOp DEF AbortInv
  <2> QED BY <2>1 DEF Op
<1>4. PICK d \in SUBSET VA, y \in RunState, z \in RunState :
        /\ Knows(d) /\ OpStep(St(pt, ttbr0, d), o, z) /\ Leads(z, todo', y)
        /\ Spins(todo) \/ Settled(y.pt, live)
  BY <1>1, <1>2, RunStep
<1>5. pt \in Tbl /\ ttbr0 \in AS \cup {Boot}
  BY DEF AbortInv, IInv, Shape, Tbl
<1>6. PICK s \in SUBSET VA :
        s = IF o.as = ttbr0 /\ pt[o.as][o.va] # Invalid THEN d \cup {o.va} ELSE d
  BY <1>3
<1>7. z = St(Put(pt, o.as, o.va, o.to), ttbr0, s)
  <2>1. /\ St(pt, ttbr0, d).pt = pt /\ St(pt, ttbr0, d).base = ttbr0
        /\ St(pt, ttbr0, d).stale = d
    BY <1>5, StFacts
  <2> QED BY <1>3, <1>4, <1>6, <2>1 DEF OpStep
<1>8. pt' = Put(pt, o.as, o.va, o.to)
  BY <1>1, <1>2 DEF Put
<1>9. z.stale = s
  <2>1. Put(pt, o.as, o.va, o.to) \in Tbl
    BY <1>3, <1>5, PutFacts
  <2> QED BY <1>5, <1>7, <1>6, <2>1, StFacts
<1>10. z = St(pt, ttbr0, z.stale)'
  <2>1. z = St(pt', ttbr0', s)
    BY <1>1, <1>7, <1>8
  <2> QED BY <1>9, <2>1 DEF St
<1>11. Knows(s)'
  <2> SUFFICES ASSUME NEW va \in VA, va \notin s PROVE tlb'[va] \in {None, pt'[ttbr0'][va]}
    BY DEF Knows
  <2>1. va \notin d /\ tlb[va] \in {None, pt[ttbr0][va]} /\ tlb[va] # Invalid
    BY <1>4, <1>6 DEF Knows, AbortInv
  <2>2. pt'[ttbr0][va] = IF ttbr0 = o.as /\ va = o.va THEN o.to ELSE pt[ttbr0][va]
    BY <1>3, <1>5, <1>8, PutFacts
  <2>3. CASE ttbr0 = o.as /\ va = o.va
    BY <1>1, <1>4, <1>6, <2>1, <2>3
  <2> QED BY <1>1, <2>1, <2>2, <2>3
<1>12. Knows(z.stale)'
  BY <1>9, <1>11 DEF Knows
<1> QED BY <1>1, <1>4, <1>10, <1>12, GoesOn

(* Emptying the TLB.                                                       *)
LEMMA FlushRuns ==
  ASSUME AbortInv, tlb_invalidate
  PROVE  RunInv' /\ (cur' # None => Spins(todo') \/ cur' \in live')
<1>1. Begins("flush") /\ tlb' = [va \in VA |-> None] /\ UNCHANGED <<live, cur, pt, ttbr0>>
  BY DEF tlb_invalidate
<1>2. PICK o : o = Head(todo)
  OBVIOUS
<1>3. o.op = "flush"
  BY <1>1, <1>2, FirstOp DEF AbortInv
<1>4. PICK d \in SUBSET VA, y \in RunState, z \in RunState :
        /\ Knows(d) /\ OpStep(St(pt, ttbr0, d), o, z) /\ Leads(z, todo', y)
        /\ Spins(todo) \/ Settled(y.pt, live)
  BY <1>1, <1>2, RunStep
<1>5. pt \in Tbl /\ ttbr0 \in AS \cup {Boot}
  BY DEF AbortInv, IInv, Shape, Tbl
<1>6. z = St(pt, ttbr0, {})
  <2>1. St(pt, ttbr0, d).pt = pt /\ St(pt, ttbr0, d).base = ttbr0
    BY <1>5, StFacts
  <2> QED BY <1>3, <1>4, <2>1 DEF OpStep
<1>7. z.stale = {}
  BY <1>5, <1>6, StFacts
<1>8. z = St(pt, ttbr0, z.stale)' /\ Knows(z.stale)'
  BY <1>1, <1>6, <1>7 DEF St, Knows
<1> QED BY <1>1, <1>4, <1>8, GoesOn

(* Changing the tables in use.                                             *)
LEMMA LoadTtbr0Runs ==
  ASSUME AbortInv, load_ttbr0_context
  PROVE  RunInv' /\ (cur' # None => Spins(todo') \/ cur' \in live')
<1>1. Begins("ttbr0") /\ ttbr0' = Head(todo).as /\ UNCHANGED <<live, cur, pt, tlb>>
  BY DEF load_ttbr0_context
<1>2. PICK o : o = Head(todo)
  OBVIOUS
<1>3. o.op = "ttbr0" /\ o.as \in AS
  <2>1. o \in Op /\ o.op = "ttbr0"
    BY <1>1, <1>2, FirstOp DEF AbortInv
  <2> QED BY <2>1 DEF Op
<1>4. PICK d \in SUBSET VA, y \in RunState, z \in RunState :
        /\ Knows(d) /\ OpStep(St(pt, ttbr0, d), o, z) /\ Leads(z, todo', y)
        /\ Spins(todo) \/ Settled(y.pt, live)
  BY <1>1, <1>2, RunStep
<1>5. pt \in Tbl /\ ttbr0 \in AS \cup {Boot}
  BY DEF AbortInv, IInv, Shape, Tbl
<1>6. z = St(pt, o.as, VA)
  <2>1. St(pt, ttbr0, d).pt = pt
    BY <1>5, StFacts
  <2> QED BY <1>3, <1>4, <2>1 DEF OpStep
<1>7. z.stale = VA
  BY <1>3, <1>5, <1>6, StFacts
<1>8. z = St(pt, ttbr0, z.stale)' /\ Knows(z.stale)'
  BY <1>1, <1>2, <1>6, <1>7 DEF St, Knows
<1> QED BY <1>1, <1>4, <1>8, GoesOn

(* An access that hits caches the entry of the tables in use.              *)
LEMMA AccessHits ==
  ASSUME AbortInv, NEW op \in {"load", "store"}, todo # <<>>, Head(todo).op = op,
         NEW d \in SUBSET VA, Knows(d), NEW z, OpStep(St(pt, ttbr0, d), Head(todo), z)
  PROVE  LET va == Head(todo).va IN
         /\ z = St(pt, ttbr0, d) /\ va \in VA
         /\ Translation(va) # Invalid /\ Translation(va) = pt[ttbr0][va]
         /\ op = "store" => Translation(va).ap # "RO_ALL"
<1> DEFINE o == Head(todo)
<1>1. o.op = op /\ o.va \in VA
  <2>1. o \in Op
    BY TailOf DEF AbortInv, IInv, Shape
  <2> HIDE DEF o
  <2>2. o.op = op
    BY DEF o
  <2> QED BY <2>1, <2>2 DEF Op
<1> HIDE DEF o
<1>2. pt \in Tbl /\ ttbr0 \in AS \cup {Boot}
  BY DEF AbortInv, IInv, Shape, Tbl
<1>3. /\ St(pt, ttbr0, d).pt = pt /\ St(pt, ttbr0, d).base = ttbr0
      /\ St(pt, ttbr0, d).stale = d
  BY <1>2, StFacts
<1>4. /\ z = St(pt, ttbr0, d) /\ o.va \notin d /\ pt[ttbr0][o.va] # Invalid
      /\ op = "store" => pt[ttbr0][o.va].ap # "RO_ALL"
  <2>1. OpStep(St(pt, ttbr0, d), o, z)
    BY DEF o
  <2> QED BY <1>1, <1>3, <2>1 DEF OpStep, Hits
<1>5. Translation(o.va) = pt[ttbr0][o.va]
  BY <1>1, <1>4 DEF Translation, Knows
<1> QED BY <1>1, <1>4, <1>5 DEF o

(* So the TLB stays right, and holds nothing invalid.                      *)
LEMMA AccessRuns ==
  ASSUME AbortInv, AccessUser
  PROVE  /\ RunInv' /\ (cur' # None => Spins(todo') \/ cur' \in live')
         /\ \A va \in VA : tlb'[va] # Invalid
<1>1. PICK op \in {"load", "store"} : Begins(op)
  BY DEF AccessUser
<1>2. /\ todo # <<>> /\ Head(todo).op = op
      /\ tlb' = [tlb EXCEPT ![Head(todo).va] = Translation(Head(todo).va)]
      /\ UNCHANGED <<live, cur, pt, ttbr0>>
  BY <1>1 DEF AccessUser, Begins
<1>3. PICK d \in SUBSET VA, y \in RunState, z \in RunState :
        /\ Knows(d) /\ OpStep(St(pt, ttbr0, d), Head(todo), z) /\ Leads(z, todo', y)
        /\ Spins(todo) \/ Settled(y.pt, live)
  BY <1>1, RunStep
<1>4. PICK a : a = Head(todo).va
  OBVIOUS
<1>5. /\ z = St(pt, ttbr0, d) /\ a \in VA /\ Translation(a) # Invalid
      /\ Translation(a) = pt[ttbr0][a]
  BY <1>2, <1>3, <1>4, AccessHits
<1>6. pt \in Tbl /\ ttbr0 \in AS \cup {Boot}
  BY DEF AbortInv, IInv, Shape, Tbl
<1>7. \A va \in VA : tlb'[va] = IF va = a THEN pt[ttbr0][a] ELSE tlb[va]
  BY <1>2, <1>4, <1>5 DEF AbortInv, IInv, Shape
<1>8. z.stale = d
  BY <1>5, <1>6, StFacts
<1>9. Knows(d)'
  BY <1>2, <1>3, <1>7 DEF Knows
<1>10. z = St(pt, ttbr0, z.stale)' /\ Knows(z.stale)'
  BY <1>2, <1>5, <1>8, <1>9 DEF St, Knows
<1>11. \A va \in VA : tlb'[va] # Invalid
  BY <1>5, <1>7 DEF AbortInv
<1> QED BY <1>1, <1>2, <1>3, <1>10, <1>11, GoesOn

(* A walk caches what the tables in use say, and nothing invalid.          *)
LEMMA MmuRuns ==
  ASSUME AbortInv, NEW a \in VA, Fill(a) \/ Evict(a)
  PROVE  /\ RunInv' /\ (cur' # None => Spins(todo') \/ cur' \in live')
         /\ \A va \in VA : tlb'[va] # Invalid
<1>1. /\ UNCHANGED <<live, cur, pt, ttbr0, todo>>
      /\ \/ pt[ttbr0][a] # Invalid /\ tlb' = [tlb EXCEPT ![a] = pt[ttbr0][a]]
         \/ tlb' = [tlb EXCEPT ![a] = None]
  BY DEF Fill, Evict
<1>2. tlb \in [VA -> Entry \cup {Invalid, None}]
  BY DEF AbortInv, IInv, Shape
<1>3. \A va \in VA : tlb'[va] # Invalid
  BY <1>1, <1>2, EntryAssumption DEF AbortInv
<1>4. PICK d \in SUBSET VA, y \in RunState :
        /\ Knows(d) /\ Leads(St(pt, ttbr0, d), todo, y)
        /\ Spins(todo) \/ Settled(y.pt, live)
  BY DEF AbortInv, RunInv
<1>5. Knows(d)'
  BY <1>1, <1>2, <1>4 DEF Knows
<1>6. Leads(St(pt, ttbr0, d)', todo', y) /\ (Spins(todo') \/ Settled(y.pt, live'))
  BY <1>1, <1>4 DEF St
<1>7. RunInv'
  BY <1>5, <1>6 DEF RunInv
<1> QED BY <1>1, <1>3, <1>7 DEF AbortInv
-----------------------------------------------------------------------------
(* At the start the only program has its page and its stack.               *)
LEMMA InitAbort == ASSUME Init PROVE AbortInv
<1>1. IInv
  BY InitInv
<1>2. PICK e \in AS, p \in Page, q \in Page :
        /\ live = {e}
        /\ pt = [a \in AS \cup {Boot} |-> [va \in VA |->
             IF a = e /\ va = "data" THEN Writable(p)
             ELSE IF a = e /\ va = "stack" THEN Writable(q)
             ELSE IF a = Boot /\ va = "data"
                  THEN [page |-> KernelPage, ap |-> "RW_EL1"] ELSE Invalid]]
  BY DEF Init
<1>3. cur = None /\ todo = <<>> /\ tlb = [va \in VA |-> None]
  BY DEF Init
<1>4. pt \in Tbl /\ ttbr0 \in AS \cup {Boot}
  BY <1>1 DEF IInv, Shape, Tbl
<1>5. Settled(pt, live)
  <2>1. Writable(q) # Invalid /\ Writable(q).ap = "RW_ALL"
    BY Entries, EntryAssumption DEF Writable
  <2>2. \A a \in AS : pt[a]["temp"] = Invalid
    BY <1>2, TrapAssumption DEF VA
  <2>3. pt[e]["stack"] = Writable(q)
    BY <1>2 DEF VA
  <2>4. \A a \in AS : a # e => \A va \in VA : pt[a][va] = Invalid
    BY <1>2, TrapAssumption DEF VA
  <2> QED BY <1>2, <2>1, <2>2, <2>3, <2>4 DEF Settled
<1>6. Knows(VA)
  BY DEF Knows
<1> DEFINE y == St(pt, ttbr0, VA)
<1>7. y \in RunState /\ y.pt = pt
  BY <1>4, StFacts
<1>8. Leads(y, <<>>, y)
  BY <1>7, LeadsNil
<1> HIDE DEF y
<1>9. Leads(St(pt, ttbr0, VA), todo, y) /\ Settled(y.pt, live)
  BY <1>3, <1>5, <1>7, <1>8 DEF y
<1>10. RunInv
  BY <1>6, <1>7, <1>9 DEF RunInv
<1> QED BY <1>1, <1>3, <1>10, EntryAssumption DEF AbortInv

(* No step ends this.                                                      *)
THEOREM AbortInvariant == Spec => []AbortInv
<1>1. Init => AbortInv
  BY InitAbort
<1>2. IInv /\ AbortInv /\ [Next]_vars /\ IInv' => AbortInv'
  <2> SUFFICES ASSUME AbortInv, [Next]_vars, IInv'
               PROVE  /\ RunInv' /\ (cur' # None => Spins(todo') \/ cur' \in live')
                      /\ \A va \in VA : tlb'[va] # Invalid
    BY DEF AbortInv
  <2>0. ASSUME tlb' = tlb PROVE \A va \in VA : tlb'[va] # Invalid
    BY <2>0 DEF AbortInv
  <2>1. CASE IRQStub
    BY <2>0, <2>1, IRQRuns DEF IRQStub
  <2>2. CASE Call
    BY <2>0, <2>2, CallRuns DEF Call
  <2>3. CASE _ipc_can_recv
    BY <2>0, <2>3, CanRecvRuns DEF _ipc_can_recv
  <2>4. CASE _sched_yield
    BY <2>0, <2>4, YieldRuns DEF _sched_yield
  <2>5. CASE mmu_fault_handler
    BY <2>0, <2>5, FaultRuns DEF mmu_fault_handler
  <2>6. CASE _env_destroy
    BY <2>0, <2>6, DestroyRuns DEF _env_destroy
  <2>7. CASE \E r \in AS, ap \in {"RW_ALL", "RO_ALL"} : _ipc_can_send(r, ap)
    <3>1. PICK r \in AS, ap \in {"RW_ALL", "RO_ALL"} : _ipc_can_send(r, ap)
      BY <2>7
    <3> QED BY <2>0, <3>1, CanSendRuns DEF _ipc_can_send
  <2>8. CASE \E c \in AS : _fork(c)
    <3>1. PICK c \in AS : _fork(c)
      BY <2>8
    <3> QED BY <2>0, <3>1, ForkRuns DEF _fork
  <2>9. CASE WriteEntry
    BY <2>0, <2>9, WriteRuns DEF WriteEntry
  <2>10. CASE tlb_invalidate
    <3>1. \A va \in VA : tlb'[va] # Invalid
      BY <2>10, EntryAssumption DEF tlb_invalidate
    <3> QED BY <2>10, <3>1, FlushRuns
  <2>11. CASE load_ttbr0_context
    BY <2>0, <2>11, LoadTtbr0Runs DEF load_ttbr0_context
  <2>12. CASE AccessUser
    BY <2>12, AccessRuns
  <2>13. CASE \E va \in VA : Fill(va) \/ Evict(va)
    BY <2>13, MmuRuns
  <2>14. CASE UNCHANGED vars
    <3>1. PICK d \in SUBSET VA, y \in RunState :
            /\ Knows(d) /\ Leads(St(pt, ttbr0, d), todo, y)
            /\ Spins(todo) \/ Settled(y.pt, live)
      BY DEF AbortInv, RunInv
    <3>2. /\ Knows(d)' /\ Leads(St(pt, ttbr0, d)', todo', y)
          /\ Spins(todo') \/ Settled(y.pt, live')
      BY <2>14, <3>1 DEF vars, Knows, St
    <3>3. RunInv'
      BY <3>2 DEF RunInv
    <3> QED BY <2>0, <2>14, <3>3 DEF vars, AbortInv
  <2> QED BY <2>1, <2>2, <2>3, <2>4, <2>5, <2>6, <2>7, <2>8, <2>9, <2>10, <2>11, <2>12,
             <2>13, <2>14 DEF Next
<1> QED BY <1>1, <1>2, Invariant, PTL DEF Spec

(* The kernel's own accesses to user addresses never fault and are never   *)
(* misled: NoNestedAbort, whatever the handlers did before.                *)
THEOREM NoNestedAbortCorrect == Spec => []NoNestedAbort
<1>1. AbortInv => NoNestedAbort
  <2> SUFFICES ASSUME AbortInv, todo # <<>>, NEW op \in {"load", "store"}, Head(todo).op = op
               PROVE  LET t == Translation(Head(todo).va) IN
                        /\ t # Invalid /\ t = pt[ttbr0][Head(todo).va]
                        /\ Head(todo).op = "store" => t.ap # "RO_ALL"
    BY DEF NoNestedAbort
  <2>1. PICK d \in SUBSET VA, y \in RunState : Knows(d) /\ Leads(St(pt, ttbr0, d), todo, y)
    BY DEF AbortInv, RunInv
  <2>2. todo \in Seq(Op)
    BY DEF AbortInv, IInv, Shape
  <2>3. PICK z \in RunState : OpStep(St(pt, ttbr0, d), Head(todo), z)
    BY <2>1, <2>2, LeadsTail
  <2> QED BY <2>1, <2>3, AccessHits
<1> QED BY <1>1, AbortInvariant, PTL

(* The variables keep their shapes; between handlers a free slot maps      *)
(* nothing, and nothing is left at USTACKTOP: TypeOK.                      *)
THEOREM TrapTypeCorrect == Spec => []TypeOK
<1>1. AbortInv => TypeOK
  <2> SUFFICES ASSUME AbortInv PROVE TypeOK
    OBVIOUS
  <2>1. todo = <<>> => Settled(pt, live)
    BY AtEntry
  <2> QED BY <2>1 DEF TypeOK, AbortInv, IInv, Shape, Settled
<1> QED BY <1>1, AbortInvariant, PTL
=============================================================================
