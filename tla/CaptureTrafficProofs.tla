------------------------ MODULE CaptureTrafficProofs ------------------------
(***************************************************************************)
(* No traffic is counted twice by one handle, for every number of          *)
(* processes, handles, frames and rounds.                                  *)
(***************************************************************************)
EXTENDS CaptureTraffic, CaptureCxxProofs, FunctionTheorems

-----------------------------------------------------------------------------
(* Sums                                                                    *)

Summable(f) == IsFiniteSet(DOMAIN f) /\ \A x \in DOMAIN f : f[x] \in Nat

\* The units of a sum are pairs.
LEMMA UnitsOf ==
    ASSUME NEW f
    PROVE  /\ \A x \in DOMAIN f : \A k \in 1..f[x] : <<x, k>> \in Units(f)
           /\ \A u \in Units(f) : /\ u = <<u[1], u[2]>>
                                  /\ u[1] \in DOMAIN f /\ u[2] \in 1..f[u[1]]
  BY DEF Units

\* A finite sum of natural numbers is a natural number.
LEMMA TotalType ==
    ASSUME NEW f, Summable(f)
    PROVE  IsFiniteSet(Units(f)) /\ Total(f) \in Nat
  <1> DEFINE g == [x \in DOMAIN f |-> {x} \X (1..f[x])]
             T == {{x} \X (1..f[x]) : x \in DOMAIN f}
  <1>1. g \in Surjection(DOMAIN f, T)
    BY DEF Surjection
  <1>2. IsFiniteSet(T)
    BY <1>1, FS_Surjection DEF Summable
  <1>3. \A t \in T : IsFiniteSet(t)
    <2>1. SUFFICES ASSUME NEW x \in DOMAIN f PROVE IsFiniteSet({x} \X (1..f[x]))
      OBVIOUS
    <2>2. IsFiniteSet({x}) /\ IsFiniteSet(1..f[x])
      <3>1. 1 \in Int /\ f[x] \in Int
        BY DEF Summable
      <3> QED
        BY <3>1, FS_Singleton, FS_Interval
    <2> QED
      BY <2>2, FS_Product
  <1>4. IsFiniteSet(UNION T)
    BY <1>2, <1>3, FS_UNION
  <1>5. IsFiniteSet(Units(f))
    BY <1>4 DEF Units
  <1> QED
    BY <1>5, FS_CardinalityType DEF Total

\* A sum whose units are all units of another one is not greater.
LEMMA TotalMono ==
    ASSUME NEW f, Summable(f), NEW g, Units(g) \subseteq Units(f)
    PROVE  Total(g) <= Total(f) /\ Total(g) \in Nat
  BY TotalType, FS_Subset, FS_CardinalityType DEF Total

\* A set of new terms that all have the value n.
LEMMA TotalNew ==
    ASSUME NEW f, Summable(f), NEW N, IsFiniteSet(N), \A x \in N : x \notin DOMAIN f,
           NEW n \in Nat, NEW g, DOMAIN g = DOMAIN f \cup N,
           \A x \in DOMAIN f : g[x] = f[x], \A x \in N : g[x] = n
    PROVE  Total(g) = Total(f) + Cardinality(N \X (1..n))
  <1> DEFINE E == N \X (1..n)
  <1>1. IsFiniteSet(E) /\ Cardinality(E) \in Nat
    <2>1. IsFiniteSet(1..n)
      BY FS_Interval
    <2> QED
      BY <2>1, FS_Product, FS_CardinalityType
  <1>2. Units(g) = Units(f) \cup E
    <2>1. Units(g) \subseteq Units(f) \cup E
      <3>1. SUFFICES ASSUME NEW u \in Units(g) PROVE u \in Units(f) \cup E
        OBVIOUS
      <3>2. u = <<u[1], u[2]>> /\ u[1] \in DOMAIN g /\ u[2] \in 1..g[u[1]]
        BY UnitsOf
      <3>3. CASE u[1] \in DOMAIN f
        BY <3>2, <3>3, UnitsOf
      <3>4. CASE u[1] \in N
        BY <3>2, <3>4
      <3> QED
        BY <3>2, <3>3, <3>4
    <2>2. Units(f) \subseteq Units(g)
      <3>1. SUFFICES ASSUME NEW u \in Units(f) PROVE u \in Units(g)
        OBVIOUS
      <3>2. u = <<u[1], u[2]>> /\ u[1] \in DOMAIN f /\ u[2] \in 1..f[u[1]]
        BY UnitsOf
      <3> QED
        BY <3>2, UnitsOf
    <2>3. E \subseteq Units(g)
      <3>1. SUFFICES ASSUME NEW x \in N, NEW k \in 1..n PROVE <<x, k>> \in Units(g)
        OBVIOUS
      <3> QED
        BY UnitsOf
    <2> QED
      BY <2>1, <2>2, <2>3
  <1>3. Units(f) \cap E = {}
    BY UnitsOf
  <1>4. IsFiniteSet(Units(f)) /\ Total(f) \in Nat
    BY TotalType
  <1> HIDE DEF E
  <1>5. Cardinality(Units(f) \cup E) = Cardinality(Units(f)) + Cardinality(E) - Cardinality({})
    BY <1>1, <1>3, <1>4, FS_Union
  <1> QED
    BY <1>1, <1>2, <1>4, <1>5, FS_EmptySet DEF Total, E

\* The size of a product is monotonic.
LEMMA ProductBound ==
    ASSUME NEW N, IsFiniteSet(N), NEW m \in Nat, Cardinality(N) <= m, NEW n \in Nat
    PROVE  Cardinality(N \X (1..n)) \in Nat /\ Cardinality(N \X (1..n)) <= m * n
  <1>1. IsFiniteSet(1..n) /\ Cardinality(1..n) = n
    <2>1. Cardinality(1..n) = IF 1 > n THEN 0 ELSE n - 1 + 1
      BY FS_Interval
    <2> QED
      BY <2>1, FS_Interval
  <1>2. Cardinality(N) \in Nat
    BY FS_CardinalityType
  <1>3. Cardinality(N \X (1..n)) = Cardinality(N) * n
    BY <1>1, FS_Product
  <1>4. ASSUME NEW c \in Nat, c <= m PROVE c * n \in Nat /\ c * n <= m * n
    BY <1>4
  <1> QED
    BY <1>2, <1>3, <1>4

\* One term that grows by n, from nothing if it is new.
LEMMA TotalGrow ==
    ASSUME NEW f, Summable(f), NEW x, NEW n \in Nat, NEW b \in Nat,
           b = IF x \in DOMAIN f THEN f[x] ELSE 0,
           NEW g, DOMAIN g = DOMAIN f \cup {x}, g[x] = b + n,
           \A y \in DOMAIN f : y # x => g[y] = f[y]
    PROVE  Total(g) = Total(f) + n
  <1> DEFINE E == {x} \X ((b + 1)..(b + n))
  <1>1. IsFiniteSet(E) /\ Cardinality(E) = n
    <2> DEFINE K == (b + 1)..(b + n)
    <2>1. IsFiniteSet(K) /\ Cardinality(K) = n
      <3>1. ASSUME NEW lo \in Int, NEW hi \in Int, lo = b + 1, hi = b + n
            PROVE  IsFiniteSet(lo..hi) /\ Cardinality(lo..hi) = n
        <4>1. /\ IsFiniteSet(lo..hi)
              /\ Cardinality(lo..hi) = IF lo > hi THEN 0 ELSE hi - lo + 1
          BY FS_Interval
        <4> QED
          BY <3>1, <4>1
      <3> QED
        BY <3>1
    <2>2. IsFiniteSet({x}) /\ Cardinality({x}) = 1
      BY FS_Singleton
    <2> HIDE DEF K
    <2>3. IsFiniteSet({x} \X K) /\ Cardinality({x} \X K) = 1 * n
      BY <2>1, <2>2, FS_Product
    <2> QED
      BY <2>3 DEF K
  <1>2. Units(g) = Units(f) \cup E
    <2>1. Units(g) \subseteq Units(f) \cup E
      <3>1. SUFFICES ASSUME NEW u \in Units(g) PROVE u \in Units(f) \cup E
        OBVIOUS
      <3>2. u = <<u[1], u[2]>> /\ u[1] \in DOMAIN g /\ u[2] \in 1..g[u[1]]
        BY UnitsOf
      <3>3. CASE u[1] # x
        BY <3>2, <3>3, UnitsOf
      <3>4. CASE u[1] = x /\ u[2] \in (b + 1)..(b + n)
        BY <3>2, <3>4
      <3>5. CASE u[1] = x /\ u[2] \in 1..b
        <4>1. x \in DOMAIN f /\ u[2] \in 1..f[x]
          BY <3>5
        <4> QED
          BY <3>2, <3>5, <4>1, UnitsOf
      <3>6. u[1] = x => u[2] \in 1..b \/ u[2] \in (b + 1)..(b + n)
        BY <3>2
      <3> QED
        BY <3>3, <3>4, <3>5, <3>6
    <2>2. Units(f) \subseteq Units(g)
      <3>1. SUFFICES ASSUME NEW u \in Units(f) PROVE u \in Units(g)
        OBVIOUS
      <3>2. u = <<u[1], u[2]>> /\ u[1] \in DOMAIN f /\ u[2] \in 1..f[u[1]]
        BY UnitsOf
      <3>3. u[2] \in 1..g[u[1]] /\ u[1] \in DOMAIN g
        BY <3>2
      <3> QED
        BY <3>2, <3>3, UnitsOf
    <2>3. E \subseteq Units(g)
      <3>1. SUFFICES ASSUME NEW k \in (b + 1)..(b + n) PROVE <<x, k>> \in Units(g)
        OBVIOUS
      <3>2. x \in DOMAIN g /\ k \in 1..g[x]
        OBVIOUS
      <3> QED
        BY <3>2, UnitsOf
    <2> QED
      BY <2>1, <2>2, <2>3
  <1>3. Units(f) \cap E = {}
    <2>1. SUFFICES ASSUME NEW u \in Units(f), u \in E PROVE FALSE
      OBVIOUS
    <2>2. u[1] \in DOMAIN f /\ u[2] \in 1..f[u[1]]
      BY UnitsOf
    <2>3. u[1] = x /\ u[2] \in (b + 1)..(b + n)
      BY <2>1
    <2> QED
      BY <2>2, <2>3
  <1>4. IsFiniteSet(Units(f)) /\ Total(f) \in Nat
    BY TotalType
  <1> HIDE DEF E
  <1>5. Cardinality(Units(f) \cup E) = Cardinality(Units(f)) + Cardinality(E) - Cardinality({})
    BY <1>1, <1>3, <1>4, FS_Union
  <1> QED
    BY <1>1, <1>2, <1>4, <1>5, FS_EmptySet DEF Total

\* One new term.
LEMMA TotalAdd ==
    ASSUME NEW f, Summable(f), NEW x, x \notin DOMAIN f,
           NEW g, DOMAIN g = DOMAIN f \cup {x}, g[x] \in Nat,
           \A y \in DOMAIN f : g[y] = f[y]
    PROVE  Total(g) = Total(f) + g[x]
  <1>1. ASSUME NEW n \in Nat, n = g[x], NEW b \in Nat, b = 0 PROVE Total(g) = Total(f) + n
    <2>1. b = (IF x \in DOMAIN f THEN f[x] ELSE 0) /\ g[x] = b + n
      BY <1>1
    <2>2. \A y \in DOMAIN f : y # x => g[y] = f[y]
      OBVIOUS
    <2> QED
      BY <2>1, <2>2, TotalGrow
  <1> QED
    BY <1>1

\* The names of the terms do not matter.
LEMMA TotalRename ==
    ASSUME NEW f, Summable(f), NEW g, NEW b \in Bijection(DOMAIN f, DOMAIN g),
           \A x \in DOMAIN f : g[b[x]] = f[x]
    PROVE  Total(g) = Total(f)
  <1> DEFINE U == [u \in Units(f) |-> <<b[u[1]], u[2]>>]
  <1>0. /\ \A x \in DOMAIN f : b[x] \in DOMAIN g
        /\ \A x, y \in DOMAIN f : b[x] = b[y] => x = y
        /\ \A y \in DOMAIN g : \E x \in DOMAIN f : b[x] = y
    BY DEF Bijection, Injection, IsInjective, Surjection
  <1>1. ASSUME NEW u \in Units(f) PROVE <<b[u[1]], u[2]>> \in Units(g)
    <2>1. u[1] \in DOMAIN f /\ u[2] \in 1..f[u[1]]
      BY UnitsOf
    <2>2. b[u[1]] \in DOMAIN g /\ u[2] \in 1..g[b[u[1]]]
      BY <1>0, <2>1
    <2> QED
      BY <2>2, UnitsOf
  <1>2. ASSUME NEW u \in Units(f), NEW v \in Units(f), U[u] = U[v] PROVE u = v
    <2>1. /\ u = <<u[1], u[2]>> /\ u[1] \in DOMAIN f
          /\ v = <<v[1], v[2]>> /\ v[1] \in DOMAIN f
      BY UnitsOf
    <2>2. b[u[1]] = b[v[1]] /\ u[2] = v[2]
      BY <1>2
    <2> QED
      BY <1>0, <2>1, <2>2
  <1>3. ASSUME NEW w \in Units(g) PROVE \E u \in Units(f) : U[u] = w
    <2>1. w = <<w[1], w[2]>> /\ w[1] \in DOMAIN g /\ w[2] \in 1..g[w[1]]
      BY UnitsOf
    <2>2. PICK x \in DOMAIN f : b[x] = w[1]
      BY <1>0, <2>1
    <2>3. <<x, w[2]>> \in Units(f)
      BY <2>1, <2>2, UnitsOf
    <2>4. U[<<x, w[2]>>] = w
      BY <2>1, <2>2, <2>3
    <2> QED
      BY <2>3, <2>4
  <1>4. U \in Bijection(Units(f), Units(g))
    <2>1. U \in [Units(f) -> Units(g)]
      BY <1>1
    <2> HIDE DEF U
    <2> QED
      BY <1>2, <1>3, <2>1 DEF Bijection, Injection, IsInjective, Surjection
  <1> QED
    BY <1>4, TotalType, FS_Bijection DEF Total, ExistsBijection
-----------------------------------------------------------------------------
(* The two sums of the engine                                              *)

\* The counters of the processes can be summed.
LEMMA CreditSummable ==
    ASSUME TypeOK
    PROVE  Summable(Credit)
  <1>1. IsFiniteSet(tracked)
    BY TrackedFinite DEF TypeOK
  <1>2. \A p \in tracked : processes[p] \in Process
    BY DEF TypeOK, MergeTypeOK
  <1> QED
    BY <1>1, <1>2 DEF Summable, Credit, Process

\* A place is a handle and a position in its ring.
LEMMA PlacesOf ==
    ASSUME NEW m, NEW r
    PROVE  LET P == Units([h \in 1..m |-> Len(r[h])])
           IN  /\ \A h \in 1..m : \A i \in 1..Len(r[h]) : <<h, i>> \in P
               /\ \A p \in P : /\ p = <<p[1], p[2]>>
                               /\ p[1] \in 1..m /\ p[2] \in 1..Len(r[p[1]])
  <1> DEFINE f == [h \in 1..m |-> Len(r[h])]
  <1>1. DOMAIN f = 1..m /\ \A h \in 1..m : f[h] = Len(r[h])
    OBVIOUS
  <1> HIDE DEF f
  <1>2. /\ \A h \in 1..m : \A i \in 1..Len(r[h]) : <<h, i>> \in Units(f)
        /\ \A p \in Units(f) : /\ p = <<p[1], p[2]>>
                               /\ p[1] \in 1..m /\ p[2] \in 1..Len(r[p[1]])
    BY <1>1, UnitsOf
  <1> QED
    BY <1>2 DEF f

\* The buffered frames can be summed.
LEMMA BufferedSummable ==
    ASSUME TypeOK
    PROVE  /\ Summable(Buffered) /\ IsFiniteSet(1..Len(handles))
           /\ \A h \in 1..Len(handles) : ring[h] \in Seq(Frames)
           /\ \A frame \in Frames : frame.len \in Nat
  <1>1. /\ Len(handles) \in Nat /\ IsFiniteSet(1..Len(handles))
        /\ \A h \in 1..Len(handles) : ring[h] \in Seq(Frames)
    <2>1. Len(handles) \in Nat /\ \A h \in 1..Len(handles) : ring[h] \in Seq(Frames)
      BY DEF TypeOK, CapTypeOK
    <2> QED
      BY <2>1, FS_Interval
  <1>2. \A frame \in Frames : frame.len \in Nat
    BY EngineAssumption DEF FrameType
  <1> DEFINE f == [h \in 1..Len(handles) |-> Len(ring[h])]
  <1>3. Summable(f)
    BY <1>1 DEF Summable
  <1>4. IsFiniteSet(Places)
    BY <1>3, TotalType DEF Places
  <1>5. ASSUME NEW p \in Places PROVE ring[p[1]][p[2]].len \in Nat
    <2>1. p[1] \in 1..Len(handles) /\ p[2] \in 1..Len(ring[p[1]])
      BY PlacesOf DEF Places
    <2>2. ring[p[1]][p[2]] \in Frames
      BY <1>1, <2>1
    <2> QED
      BY <1>2, <2>2
  <1> QED
    BY <1>1, <1>2, <1>4, <1>5 DEF Summable, Buffered
-----------------------------------------------------------------------------
(* What the steps do to them                                               *)

\* The pcap callback takes one frame out of its ring, and the rest moves up.
LEMMA PopFrame ==
    ASSUME TypeOK, DispatchInv, HandlePacket
    PROVE  /\ Frame \in Frames /\ Frame.len \in Nat /\ Total(Buffered') \in Nat
           /\ BufferedBytes = Total(Buffered') + Frame.len
  <1> DEFINE k == idx + 1
             first == <<k, 1>>
             rest == [p \in Places \ {first} |-> Buffered[p]]
             b == [p \in Places \ {first} |-> IF p[1] = k THEN <<k, p[2] - 1>> ELSE p]
  <1>1. /\ k \in 1..Len(handles) /\ k \in Nat /\ ring[k] \in Seq(Frames) /\ Len(ring[k]) > 0
        /\ handles' = handles /\ Len(ring) = Len(handles) /\ ring \in Seq(Seq(Frames))
    BY DEF HandlePacket, DispatchInv, TypeOK, CallTypeOK, CapTypeOK
  <1>2. Frame \in Frames /\ Frame.len \in Nat /\ Frame = ring[k][1]
    <2>1. ring[k] # <<>> /\ Frame = ring[k][1] /\ idx \in Nat /\ idx < Len(handles)
      BY <1>1 DEF Frame, TypeOK, CallTypeOK
    <2> QED
      BY <2>1, HeadFrame, BufferedSummable DEF TypeOK
  <1>3. /\ Len(ring'[k]) = Len(ring[k]) - 1
        /\ \A i \in 1..(Len(ring[k]) - 1) : ring'[k][i] = ring[k][i + 1]
        /\ \A h \in 1..Len(handles) : h # k => ring'[h] = ring[h]
    <2>1. ring' = [ring EXCEPT ![k] = Tail(ring[k])]
      BY DEF HandlePacket
    <2>2. ring'[k] = Tail(ring[k]) /\ \A h \in 1..Len(handles) : h # k => ring'[h] = ring[h]
      BY <1>1, <2>1
    <2> QED
      BY <1>1, <2>2
  <1>4. Summable(Buffered) /\ DOMAIN Buffered = Places
    BY BufferedSummable DEF Buffered
  <1>5. first \in Places /\ Buffered[first] = Frame.len
    <2>1. first \in Places
      <3>1. 1 \in 1..Len(ring[k])
        BY <1>1
      <3> QED
        BY <1>1, <3>1, PlacesOf DEF Places
    <2> QED
      BY <1>2, <2>1 DEF Buffered
  <1>6. Summable(rest) /\ DOMAIN rest = Places \ {first}
    BY <1>4, FS_Subset DEF Summable
  <1>7. Total(Buffered) = Total(rest) + Frame.len
    <2>1. /\ DOMAIN Buffered = DOMAIN rest \cup {first} /\ first \notin DOMAIN rest
          /\ \A y \in DOMAIN rest : Buffered[y] = rest[y]
      BY <1>4, <1>5
    <2>2. Buffered[first] \in Nat
      BY <1>2, <1>5
    <2> HIDE DEF rest, first
    <2> QED
      BY <1>5, <1>6, <2>1, <2>2, TotalAdd
  <1>8. DOMAIN Buffered' = Places' /\ Places' = Units([h \in 1..Len(handles) |-> Len(ring'[h])])
    BY <1>1 DEF Buffered, Places
  <1>9. ASSUME NEW p \in Places \ {first}
        PROVE  /\ b[p] \in Places' /\ Buffered'[b[p]] = rest[p]
               /\ p = <<p[1], p[2]>> /\ p[1] = b[p][1]
               /\ p[2] = IF p[1] = k THEN b[p][2] + 1 ELSE b[p][2]
    <2>1. /\ p = <<p[1], p[2]>> /\ p[1] \in 1..Len(handles) /\ p[2] \in 1..Len(ring[p[1]])
          /\ rest[p] = ring[p[1]][p[2]].len
      BY PlacesOf DEF Places, Buffered
    <2>2. CASE p[1] = k
      <3>1. p[2] - 1 \in 1..Len(ring'[k]) /\ ring'[k][p[2] - 1] = ring[k][p[2]] /\ b[p] = <<k, p[2] - 1>>
        <4>1. p[2] # 1 /\ p[2] \in 1..Len(ring[k]) /\ Len(ring[k]) \in Nat
          BY <1>1, <2>1, <2>2
        <4>2. p[2] - 1 \in 1..(Len(ring[k]) - 1) /\ p[2] - 1 + 1 = p[2]
          BY <4>1
        <4> QED
          BY <1>3, <2>2, <4>2
      <3>2. b[p] \in Places'
        BY <1>1, <1>8, <3>1, PlacesOf
      <3>3. Buffered'[b[p]] = ring'[k][p[2] - 1].len
        BY <3>1, <3>2 DEF Buffered
      <3> QED
        BY <2>1, <2>2, <3>1, <3>2, <3>3
    <2>3. CASE p[1] # k
      <3>1. ring'[p[1]] = ring[p[1]] /\ b[p] = p
        BY <1>3, <2>1, <2>3
      <3>2. <<p[1], p[2]>> \in Places'
        BY <1>8, <2>1, <3>1, PlacesOf
      <3>3. p \in Places'
        BY <2>1, <3>2
      <3>4. Buffered'[p] = ring'[p[1]][p[2]].len
        BY <3>3 DEF Buffered
      <3> QED
        BY <2>1, <2>3, <3>1, <3>3, <3>4
    <2> QED
      BY <2>2, <2>3
  <1>10. ASSUME NEW r \in Places' PROVE \E p \in Places \ {first} : b[p] = r
    <2>1. r = <<r[1], r[2]>> /\ r[1] \in 1..Len(handles) /\ r[2] \in 1..Len(ring'[r[1]])
      BY <1>8, PlacesOf
    <2>2. CASE r[1] = k
      <3>1. r[2] + 1 \in 1..Len(ring[k]) /\ r[2] + 1 # 1 /\ r[2] + 1 - 1 = r[2]
        BY <1>1, <1>3, <2>1, <2>2
      <3>2. <<k, r[2] + 1>> \in Places \ {first}
        BY <1>1, <3>1, PlacesOf DEF Places
      <3>3. b[<<k, r[2] + 1>>] = r
        BY <2>1, <2>2, <3>1, <3>2
      <3> QED
        BY <3>2, <3>3
    <2>3. CASE r[1] # k
      <3>1. r[2] \in 1..Len(ring[r[1]])
        BY <1>3, <2>1, <2>3
      <3>2. <<r[1], r[2]>> \in Places
        BY <2>1, <3>1, PlacesOf DEF Places
      <3>3. r \in Places \ {first} /\ b[r] = r
        BY <2>1, <2>3, <3>2
      <3> QED
        BY <3>3
    <2> QED
      BY <2>2, <2>3
  <1>11. b \in Bijection(DOMAIN rest, DOMAIN Buffered')
    <2>1. b \in [Places \ {first} -> Places']
      <3>1. \A p \in Places \ {first} : b[p] \in Places'
        BY <1>9
      <3> QED
        BY <3>1
    <2> HIDE DEF b
    <2>2. \A p, q \in Places \ {first} : b[p] = b[q] => p = q
      BY <1>9
    <2> QED
      BY <1>6, <1>8, <1>10, <2>1, <2>2 DEF Bijection, Injection, IsInjective, Surjection
  <1>12. Total(Buffered') = Total(rest)
    <2>1. \A p \in DOMAIN rest : Buffered'[b[p]] = rest[p]
      BY <1>6, <1>9
    <2> HIDE DEF rest, b
    <2> QED
      BY <1>6, <1>11, <2>1, TotalRename
  <1>13. Total(rest) \in Nat
    BY <1>6, TotalType
  <1> QED
    BY <1>2, <1>7, <1>12, <1>13 DEF BufferedBytes

\* A frame is buffered at most once by each handle of its interface.
LEMMA PushFrame ==
    ASSUME TypeOK, NEW frame \in Frames, FrameArrives(frame), NEW n \in Nat, Sharing(n)
    PROVE  \E m \in Nat : m <= n * frame.len /\ Total(Buffered') = BufferedBytes + m
  <1> DEFINE H == 1..Len(handles)
             Same == {h \in H : handles[h] = frame.iface}
             Hit == {h \in Same : Len(ring[h]) < RingSize}
             N == {<<h, Len(ring[h]) + 1>> : h \in Hit}
             w == [p \in N |-> p[1]]
  <1>1. /\ Summable(Buffered) /\ DOMAIN Buffered = Places /\ IsFiniteSet(H)
        /\ \A h \in H : ring[h] \in Seq(Frames)
        /\ frame.len \in Nat
    BY BufferedSummable DEF Buffered
  <1>2. IsFiniteSet(Same) /\ Cardinality(Same) <= n /\ Cardinality(Same) \in Nat
    <2>1. PICK g \in H : handles[g] = frame.iface
      BY DEF FrameArrives
    <2>2. Same = {h \in H : handles[h] = handles[g]}
      BY <2>1
    <2>3. Cardinality(Same) <= n
      BY <2>2 DEF Sharing
    <2>4. IsFiniteSet(Same)
      BY <1>1, FS_Subset
    <2> QED
      BY <2>3, <2>4, FS_CardinalityType
  <1>3. /\ IsFiniteSet(N) /\ Cardinality(N) \in Nat /\ Cardinality(N) <= n
    <2>1. w \in [N -> Same] /\ \A p, q \in N : w[p] = w[q] => p = q
      OBVIOUS
    <2> HIDE DEF N, w, Same
    <2>2. w \in Injection(N, Same)
      BY <2>1, Fun_IsInj
    <2>3. IsFiniteSet(N) /\ Cardinality(N) <= Cardinality(Same)
      BY <1>2, <2>2, FS_Injection
    <2>4. Cardinality(N) \in Nat
      BY <2>3, FS_CardinalityType
    <2> QED
      BY <1>2, <2>3, <2>4
  <1>4. /\ handles' = handles
        /\ \A h \in Hit : ring'[h] = Append(ring[h], frame)
        /\ \A h \in H \ Hit : ring'[h] = ring[h]
    BY DEF FrameArrives
  <1>5. DOMAIN Buffered' = Places' /\ Places' = Units([h \in H |-> Len(ring'[h])])
    BY <1>4 DEF Buffered, Places
  <1>6. ASSUME NEW h \in Hit
        PROVE  /\ Len(ring'[h]) = Len(ring[h]) + 1 /\ Len(ring[h]) \in Nat
               /\ ring'[h][Len(ring[h]) + 1] = frame
               /\ \A i \in 1..Len(ring[h]) : ring'[h][i] = ring[h][i]
    BY <1>1, <1>4, SeqAppend
  <1>7. ASSUME NEW p \in Places
        PROVE  p \in Places' /\ p \notin N /\ Buffered'[p] = Buffered[p]
    <2>1. p = <<p[1], p[2]>> /\ p[1] \in H /\ p[2] \in 1..Len(ring[p[1]])
      BY PlacesOf DEF Places
    <2>2. p[2] \in 1..Len(ring'[p[1]]) /\ ring'[p[1]][p[2]] = ring[p[1]][p[2]]
      BY <1>4, <1>6, <2>1
    <2>3. <<p[1], p[2]>> \in Places'
      BY <1>5, <2>1, <2>2, PlacesOf
    <2>4. p \in Places'
      BY <2>1, <2>3
    <2>5. Buffered'[p] = Buffered[p]
      BY <2>2, <2>4 DEF Buffered
    <2>6. p \notin N
      BY <1>1, <2>1
    <2> QED
      BY <2>4, <2>5, <2>6
  <1>8. ASSUME NEW p \in N PROVE p \in Places' /\ Buffered'[p] = frame.len
    <2>1. PICK h \in Hit : p = <<h, Len(ring[h]) + 1>>
      OBVIOUS
    <2>2. h \in H /\ Len(ring[h]) + 1 \in 1..Len(ring'[h])
      BY <1>6
    <2>3. p \in Places'
      BY <1>5, <2>1, <2>2, PlacesOf
    <2> QED
      BY <1>6, <2>1, <2>3 DEF Buffered
  <1>9. ASSUME NEW p \in Places' PROVE p \in Places \cup N
    <2>1. p = <<p[1], p[2]>> /\ p[1] \in H /\ p[2] \in 1..Len(ring'[p[1]])
      BY <1>5, PlacesOf
    <2>2. CASE p[2] \in 1..Len(ring[p[1]])
      BY <2>1, <2>2, PlacesOf DEF Places
    <2>3. CASE p[2] \notin 1..Len(ring[p[1]])
      <3>1. p[1] \in Hit
        BY <1>4, <2>1, <2>3
      <3>2. p[2] = Len(ring[p[1]]) + 1
        BY <1>6, <2>1, <2>3, <3>1
      <3> QED
        BY <2>1, <3>1, <3>2
    <2> QED
      BY <2>2, <2>3
  <1>10. /\ \A p \in N : p \notin DOMAIN Buffered
         /\ DOMAIN Buffered' = DOMAIN Buffered \cup N
         /\ \A p \in DOMAIN Buffered : Buffered'[p] = Buffered[p]
         /\ \A p \in N : Buffered'[p] = frame.len
    <2> HIDE DEF N
    <2> QED
      BY <1>1, <1>5, <1>7, <1>8, <1>9
  <1>11. ASSUME NEW len \in Nat, len = frame.len, NEW M, M = N
         PROVE  \E m \in Nat : m <= n * len /\ Total(Buffered') = Total(Buffered) + m
    <2>1. /\ \A p \in M : p \notin DOMAIN Buffered
          /\ DOMAIN Buffered' = DOMAIN Buffered \cup M
          /\ \A p \in DOMAIN Buffered : Buffered'[p] = Buffered[p]
          /\ \A p \in M : Buffered'[p] = len
      BY <1>10, <1>11
    <2>2. IsFiniteSet(M) /\ Cardinality(M) <= n
      BY <1>3, <1>11
    <2>3. Summable(Buffered)
      BY <1>1
    <2>4. Total(Buffered') = Total(Buffered) + Cardinality(M \X (1..len))
      <3> HIDE DEF H, Same, Hit, N, w
      <3> QED
        BY <2>1, <2>2, <2>3, TotalNew
    <2> QED
      BY <2>2, <2>4, ProductBound
  <1> QED
    BY <1>1, <1>11 DEF BufferedBytes

\* A packet adds its length to one counter of one process, or is dropped.
LEMMA CreditFrame ==
    ASSUME TypeOK, DispatchInv, HandlePacket
    PROVE  Total(Credit') = CountedBytes \/ Total(Credit') = CountedBytes + Frame.len
  <1>1. CASE UNCHANGED processes
    BY <1>1 DEF CountedBytes, Credit, tracked
  <1>2. CASE Attributed(Frame) /\ CreditProcess(PidByIp(Hash(PacketOf(devices, Frame))),
                                                PacketOf(devices, Frame))
    <2> DEFINE packet == PacketOf(devices, Frame)
               pid == PidByIp(Hash(packet))
               old == IF pid \in tracked THEN processes[pid] ELSE NewProcess
               new == AddPacket(old, IsOutgoing(packet), packet.len)
    <2>1. Frame \in Frames /\ Frame.len \in Nat
      BY PopFrame
    <2>2. packet.len = Frame.len /\ IsOutgoing(packet) \in BOOLEAN
      BY <2>1, PacketType
    <2>3. old \in Process
      BY DEF TypeOK, MergeTypeOK, NewProcess, Process
    <2>4. processes' = [q \in tracked \cup {pid} |-> IF q # pid THEN processes[q] ELSE new]
      BY <1>2 DEF CreditProcess
    <2>5. new.send + new.recv = old.send + old.recv + Frame.len
      <3> HIDE DEF old, packet
      <3> QED
        BY <2>1, <2>2, <2>3 DEF AddPacket, Process
    <2>6. old.send + old.recv = (IF pid \in tracked THEN Credit[pid] ELSE 0)
      BY DEF Credit, NewProcess
    <2>7. old.send + old.recv \in Nat
      BY <2>3 DEF Process
    <2> HIDE DEF new, old, pid, packet
    <2>8. ASSUME NEW b \in Nat, b = old.send + old.recv, NEW n \in Nat, n = Frame.len
          PROVE  Total(Credit') = Total(Credit) + n
      <3>1. DOMAIN Credit = tracked /\ Summable(Credit)
        BY CreditSummable DEF Credit
      <3>2. DOMAIN Credit' = tracked \cup {pid} /\ Credit'[pid] = new.send + new.recv
        BY <2>4 DEF Credit, tracked
      <3>3. \A y \in tracked : y # pid => Credit'[y] = Credit[y]
        BY <2>4 DEF Credit, tracked
      <3>4. b = IF pid \in DOMAIN Credit THEN Credit[pid] ELSE 0
        BY <2>6, <2>8, <3>1
      <3>5. Credit'[pid] = b + n
        BY <2>5, <2>8, <3>2
      <3>6. /\ DOMAIN Credit' = DOMAIN Credit \cup {pid}
            /\ \A y \in DOMAIN Credit : y # pid => Credit'[y] = Credit[y]
        BY <3>1, <3>2, <3>3
      <3> QED
        BY <3>1, <3>4, <3>5, <3>6, TotalGrow
    <2> QED
      BY <2>1, <2>7, <2>8 DEF CountedBytes
  <1> QED
    BY <1>1, <1>2 DEF HandlePacket

\* Nothing else adds to the counters.
LEMMA CreditMono ==
    ASSUME TypeOK, AdoptPids \/ (\E q \in Pids : MergeErase(q)) \/ UNCHANGED processes
    PROVE  Total(Credit') <= CountedBytes /\ Total(Credit') \in Nat
  <1> SUFFICES Units(Credit') \subseteq Units(Credit)
    BY CreditSummable, TotalMono DEF CountedBytes
  <1>1. /\ DOMAIN Credit = tracked
        /\ \A p \in tracked : Credit[p] = processes[p].send + processes[p].recv
        /\ DOMAIN Credit' = tracked'
        /\ \A p \in tracked' : Credit'[p] = processes'[p].send + processes'[p].recv
    BY DEF Credit
  <1>2. \A p \in tracked' : (p \in tracked /\ processes'[p] = processes[p])
                              \/ processes'[p] = NewProcess
    <2>1. CASE AdoptPids
      BY <2>1 DEF AdoptPids, tracked
    <2>2. CASE \E q \in Pids : MergeErase(q)
      BY <2>2 DEF MergeErase, Erase, tracked
    <2>3. CASE UNCHANGED processes
      BY <2>3 DEF tracked
    <2> QED
      BY <2>1, <2>2, <2>3
  <1>3. \A p \in tracked' : (p \in tracked /\ Credit'[p] = Credit[p]) \/ Credit'[p] = 0
    BY <1>1, <1>2 DEF NewProcess
  <1>4. SUFFICES ASSUME NEW u \in Units(Credit') PROVE u \in Units(Credit)
    OBVIOUS
  <1>5. u = <<u[1], u[2]>> /\ u[1] \in tracked' /\ u[2] \in 1..Credit'[u[1]]
    BY <1>1, UnitsOf
  <1>6. u[1] \in tracked /\ Credit'[u[1]] = Credit[u[1]]
    BY <1>3, <1>5
  <1> QED
    BY <1>1, <1>5, <1>6, UnitsOf

\* A handle that is opened has nothing buffered and shares its interface.
LEMMA OpenedEmpty ==
    ASSUME TypeOK, NEW outcome, OpenDevice(outcome)
    PROVE  /\ Total(Buffered') = BufferedBytes
           /\ \A n \in Nat : Sharing(n)' => Sharing(n)
  <1>1. CASE UNCHANGED <<handles, ring>>
    BY <1>1 DEF BufferedBytes, Buffered, Places, Sharing
  <1>2. CASE /\ handles' = Append(handles, devices[idx + 1].name)
             /\ ring' = Append(ring, <<>>)
    <2> DEFINE m == Len(handles)
    <2>1. /\ m \in Nat /\ Len(handles') = m + 1
          /\ \A h \in 1..m : handles'[h] = handles[h]
          /\ \A h \in 1..m : ring'[h] = ring[h]
          /\ ring'[m + 1] = <<>>
      BY <1>2 DEF TypeOK, CapTypeOK
    <2>2. Places' = Places
      <3>1. Places' = Units([h \in 1..(m + 1) |-> Len(ring'[h])])
        BY <2>1 DEF Places
      <3>2. ASSUME NEW p \in Places' PROVE p \in Places
        <4>1. p = <<p[1], p[2]>> /\ p[1] \in 1..(m + 1) /\ p[2] \in 1..Len(ring'[p[1]])
          BY <3>1, PlacesOf
        <4>2. p[1] # m + 1
          BY <2>1, <4>1
        <4>3. p[1] \in 1..m /\ p[2] \in 1..Len(ring[p[1]])
          BY <2>1, <4>1, <4>2
        <4> QED
          BY <4>1, <4>3, PlacesOf DEF Places
      <3>3. ASSUME NEW p \in Places PROVE p \in Places'
        <4>1. p = <<p[1], p[2]>> /\ p[1] \in 1..m /\ p[2] \in 1..Len(ring[p[1]])
          BY PlacesOf DEF Places
        <4>2. p[1] \in 1..(m + 1) /\ p[2] \in 1..Len(ring'[p[1]])
          BY <2>1, <4>1
        <4> QED
          BY <3>1, <4>1, <4>2, PlacesOf
      <3> QED
        BY <3>2, <3>3
    <2>3. Buffered' = Buffered
      <3>1. \A p \in Places : ring'[p[1]] = ring[p[1]]
        BY <2>1, PlacesOf DEF Places
      <3> QED
        BY <2>2, <3>1 DEF Buffered
    <2>4. ASSUME NEW n \in Nat, Sharing(n)' PROVE Sharing(n)
      <3> SUFFICES ASSUME NEW g \in 1..m
                   PROVE  Cardinality({h \in 1..m : handles[h] = handles[g]}) <= n
        BY DEF Sharing
      <3> DEFINE S == {h \in 1..m : handles[h] = handles[g]}
                 T == {h \in 1..(m + 1) : handles'[h] = handles'[g]}
      <3>1. Cardinality(T) <= n
        BY <2>1, <2>4 DEF Sharing
      <3>2. S \subseteq T
        BY <2>1
      <3>3. IsFiniteSet(T)
        <4>1. 1 \in Int /\ m + 1 \in Int
          BY <2>1
        <4>2. IsFiniteSet(1..(m + 1))
          BY <4>1, FS_Interval
        <4> QED
          BY <4>2, FS_Subset
      <3> HIDE DEF S, T
      <3>4. Cardinality(S) <= Cardinality(T) /\ Cardinality(S) \in Nat /\ Cardinality(T) \in Nat
        BY <3>2, <3>3, FS_Subset, FS_CardinalityType
      <3>5. Cardinality(S) <= n
        BY <3>1, <3>4
      <3> QED
        BY <3>5 DEF S
    <2> QED
      BY <2>3, <2>4 DEF BufferedBytes
  <1> QED
    BY <1>1, <1>2 DEF OpenDevice
-----------------------------------------------------------------------------
(***************************************************************************)
(* TrafficBounded itself is inductive, given the types and that a dispatch *)
(* takes no more frames than the ring holds.                               *)
(***************************************************************************)
TrafficInv == \A n \in Nat : Sharing(n) => CountedBytes + BufferedBytes <= wire * n

\* Nothing has passed at first.
LEMMA TrafficInit ==
    ASSUME Init
    PROVE  TrafficInv
  <1>1. Units(Credit) = {}
    BY UnitsOf DEF Init, Credit, tracked
  <1>2. Places = {}
    <2>1. Len(handles) = 0
      BY DEF Init
    <2>2. \A p \in Places : p[1] \in 1..Len(handles)
      BY PlacesOf DEF Places
    <2> QED
      BY <2>1, <2>2
  <1>3. Units(Buffered) = {}
    BY <1>2, UnitsOf DEF Buffered
  <1>4. CountedBytes = 0 /\ BufferedBytes = 0 /\ wire = 0
    BY <1>1, <1>3, FS_EmptySet DEF CountedBytes, BufferedBytes, Total, Init
  <1> QED
    BY <1>4 DEF TrafficInv

\* Every step preserves the bound.
LEMMA TrafficNext ==
    ASSUME IndInv, TrafficInv, [Next]_vars
    PROVE  TrafficInv'
  <1> USE DEF IndInv
  <1>1. /\ CountedBytes' = Total(Credit') /\ BufferedBytes' = Total(Buffered')
        /\ CountedBytes \in Nat /\ BufferedBytes \in Nat /\ wire \in Nat
    BY CreditSummable, BufferedSummable, TotalType DEF CountedBytes, BufferedBytes, TypeOK, CapTypeOK
  <1>2. SUFFICES ASSUME NEW n \in Nat, Sharing(n)'
                 PROVE  Total(Credit') + Total(Buffered') <= wire' * n
    BY <1>1 DEF TrafficInv
  <1> DEFINE Goal == Total(Credit') + Total(Buffered') <= wire' * n
  <1>3. Sharing(n) => CountedBytes + BufferedBytes <= wire * n
    BY DEF TrafficInv
  <1>4. CASE HandlePacket
    <2>1. UNCHANGED <<handles, wire>>
      BY <1>4 DEF HandlePacket
    <2>2. Sharing(n)
      BY <1>2, <2>1 DEF Sharing
    <2> QED
      BY <1>1, <1>3, <1>4, <2>1, <2>2, PopFrame, CreditFrame
  <1>5. ASSUME ~HandlePacket PROVE Total(Credit') <= CountedBytes /\ Total(Credit') \in Nat
    BY <1>5, TableFrame, CreditMono
  <1>6. ASSUME NEW frame \in Frames, FrameArrives(frame) PROVE Goal
    <2>1. /\ wire' = wire + frame.len /\ handles' = handles /\ frame.len \in Nat
          /\ UNCHANGED processes
      BY <1>6, EngineAssumption DEF FrameArrives, FrameType, mergeVars
    <2>2. Sharing(n)
      BY <1>2, <2>1 DEF Sharing
    <2>3. PICK m \in Nat : m <= n * frame.len /\ Total(Buffered') = BufferedBytes + m
      BY <1>6, <2>2, PushFrame
    <2>4. Total(Credit') <= CountedBytes /\ Total(Credit') \in Nat
      BY <2>1, CreditMono
    <2>5. wire' * n = wire * n + n * frame.len
      BY <1>1, <2>1
    <2>6. wire * n \in Nat /\ n * frame.len \in Nat
      BY <1>1, <2>1
    <2>7. CountedBytes + BufferedBytes <= wire * n
      BY <1>3, <2>2
    <2> QED
      BY <1>1, <2>3, <2>4, <2>5, <2>6, <2>7
  <1>7. ASSUME NEW outcome, OpenDevice(outcome) PROVE Goal
    <2>1. UNCHANGED <<wire, processes>>
      BY <1>7 DEF OpenDevice, mergeVars
    <2>2. Total(Buffered') = BufferedBytes /\ Sharing(n)
      BY <1>2, <1>7, OpenedEmpty
    <2>3. Total(Credit') <= CountedBytes /\ Total(Credit') \in Nat
      BY <2>1, CreditMono
    <2>4. wire * n \in Nat
      BY <1>1
    <2> QED
      BY <1>1, <1>3, <2>1, <2>2, <2>3, <2>4
  <1>8. ASSUME ~HandlePacket, UNCHANGED <<handles, ring, wire>> PROVE Goal
    <2>1. Buffered' = Buffered /\ Sharing(n)
      BY <1>2, <1>8 DEF Buffered, Places, Sharing
    <2>2. wire * n \in Nat
      BY <1>1
    <2> QED
      BY <1>1, <1>3, <1>5, <1>8, <2>1, <2>2 DEF BufferedBytes
  <1>9. ASSUME ~HandlePacket, ~(\E frame \in Frames : FrameArrives(frame)),
               ~(\E outcome \in DOMAIN PcapAfter : OpenDevice(outcome))
        PROVE  UNCHANGED <<handles, ring, wire>>
    BY <1>9, CapFrame DEF InitCall, capVars
  <1> QED
    BY <1>4, <1>6, <1>7, <1>8, <1>9

\* The bound holds in every reachable state.
LEMMA TrafficAlways == Spec => [](IndInv /\ TrafficInv)
  <1>1. IndInv /\ TrafficInv /\ [Next]_vars => TrafficInv'
    BY TrafficNext
  <1>2. Init => TrafficInv
    BY TrafficInit
  <1> QED
    BY <1>1, <1>2, IndInvAlways, PTL DEF Spec

\* What the processes were credited with, and what is still buffered, is at most
\* what passed the interfaces times the handles that share one, for every number
\* of processes, handles, frames, limited dispatches, rounds and calls of Init.
THEOREM TrafficIsBounded == Spec => []TrafficBounded
  <1>1. IndInv /\ TrafficInv => TrafficBounded
    BY DEF TrafficInv, TrafficBounded, IndInv, TypeOK, CapTypeOK
  <1> QED
    BY <1>1, TrafficAlways, PTL

\* As long as no interface has two handles, the README's promise holds.
THEOREM CountedOnceIfUnshared == Spec => [](Sharing(1) => CountedOnce)
  <1>1. IndInv /\ TrafficInv => (Sharing(1) => CountedOnce)
    <2> SUFFICES ASSUME IndInv, TrafficInv, Sharing(1) PROVE CountedOnce
      OBVIOUS
    <2>1. CountedBytes + BufferedBytes <= wire * 1
      BY DEF TrafficInv
    <2>2. CountedBytes \in Nat /\ BufferedBytes \in Nat /\ wire \in Nat
      BY CreditSummable, BufferedSummable, TotalType
         DEF CountedBytes, BufferedBytes, IndInv, TypeOK, CapTypeOK
    <2> QED
      BY <2>1, <2>2 DEF CountedOnce
  <1> QED
    BY <1>1, TrafficAlways, PTL
=============================================================================
