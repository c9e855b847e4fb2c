---------------------------- MODULE ConfigProofs ----------------------------
(***************************************************************************)
(* Proof that an accepted configuration is what the two files say, for     *)
(* files with any forwards and any overrides of them.                      *)
(*                                                                         *)
(* The merge is a loop over the overrides, so the proof is an induction on *)
(* how many of them are behind. The induction is over a set of numbers.    *)
(***************************************************************************)
EXTENDS Config, FiniteSetTheorems, FunctionTheorems, WellFoundedInduction,
        TLAPS

(* A set that has 0, and with a number the next, has all numbers.          *)
LEMMA SetInduction ==
  ASSUME NEW P, 0 \in P, \A n \in Nat : n \in P => n + 1 \in P
  PROVE  Nat \subseteq P
<1> DEFINE T == Nat \ P
<1> SUFFICES ASSUME T # {} PROVE FALSE
  OBVIOUS
<1>1. PICK x \in T : \A y \in T : ~ (<<y, x>> \in OpToRel(<, Nat))
  BY NatLessThanWellFounded, WFMin, T \subseteq Nat, Zenon
<1>2. x - 1 \in Nat /\ x - 1 < x
  <2>1. x \in Nat /\ x # 0
    OBVIOUS
  <2> QED
    BY <2>1
<1>3. <<x - 1, x>> \in OpToRel(<, Nat)
  BY <1>2 DEF OpToRel
<1>4. x - 1 \in P
  BY <1>1, <1>2, <1>3
<1> QED
  BY <1>2, <1>4

(* A set of positions of a sequence has a last one.                        *)
LEMMA LastPosition ==
  ASSUME NEW n \in Nat, NEW I \in SUBSET (1 .. n), I # {}
  PROVE  \E x \in I : \A y \in I : x >= y
<1> DEFINE P == {k \in Nat : (\E y \in I : y >= n - k) =>
                               \E x \in I : \A y \in I : x >= y}
<1>1. 0 \in P
  OBVIOUS
<1>2. ASSUME NEW k \in Nat, k \in P PROVE k + 1 \in P
  <2> SUFFICES ASSUME NEW z \in I, z >= n - (k + 1)
               PROVE  \E x \in I : \A y \in I : x >= y
    OBVIOUS
  <2>1. CASE \E y \in I : y >= n - k
    BY <1>2, <2>1
  <2>2. CASE \A y \in I : ~ (y >= n - k)
    <3>1. \A y \in I : z >= y
      BY <2>2
    <3> QED
      BY <3>1
  <2> QED
    BY <2>1, <2>2
<1>3. n \in P
  BY <1>1, <1>2, SetInduction, Zenon
<1>4. \E y \in I : y >= n - n
  <2>1. PICK y \in I : y \in 1 .. n
    OBVIOUS
  <2>2. y >= n - n
    BY <2>1
  <2> QED
    BY <2>2
<1> QED
  BY <1>3, <1>4

-----------------------------------------------------------------------------
(* The index of names (portsByName).                                       *)

(* No entry has the name, or the last that has it is found.                *)
LEMMA LastNamedIsLast ==
  ASSUME NEW T, NEW s \in Seq(T), NEW name, NEW i, i = LastNamed(s, name)
  PROVE  \/ i = 0 /\ \A k \in 1 .. Len(s) : s[k].name # name
         \/ /\ i \in 1 .. Len(s) /\ s[i].name = name
            /\ \A k \in 1 .. Len(s) : s[k].name = name => k <= i
<1> DEFINE I == {k \in 1 .. Len(s) : s[k].name = name}
<1>1. i = IF I # {} THEN Max(I) ELSE 0
  BY DEF LastNamed, SelectLastInSeq
<1>2. CASE I = {}
  BY <1>1, <1>2
<1>3. CASE I # {}
  <2>1. Len(s) \in Nat /\ I \in SUBSET (1 .. Len(s))
    OBVIOUS
  <2> HIDE DEF I
  <2>2. \E x \in I : \A y \in I : x >= y
    BY <1>3, <2>1, LastPosition
  <2>3. i \in I /\ \A y \in I : i >= y
    BY <1>1, <1>3, <2>2 DEF Max
  <2> QED
    BY <2>1, <2>3 DEF I
<1> QED
  BY <1>2, <1>3

(* The index depends on nothing but the names.                             *)
LEMMA SameNames ==
  ASSUME NEW s, NEW r, Len(s) = Len(r),
         \A k \in 1 .. Len(s) : s[k].name = r[k].name, NEW name
  PROVE  LastNamed(s, name) = LastNamed(r, name)
<1>1. {k \in 1 .. Len(s) : s[k].name = name}
        = {k \in 1 .. Len(r) : r[k].name = name}
  OBVIOUS
<1> QED
  BY <1>1 DEF LastNamed, SelectLastInSeq

-----------------------------------------------------------------------------
(* The loop over the overrides.                                            *)

(* The recursion of Overridden has a solution, and so describes the loop.  *)
LEMMA OverriddenStep ==
  ASSUME NEW cfg, NEW T, NEW own \in Seq(T)
  PROVE  /\ Overridden(cfg, own)[0] = cfg
         /\ \A n \in 1 .. Len(own) :
               Overridden(cfg, own)[n]
                 = Override(Overridden(cfg, own)[n - 1], own[n])
<1> DEFINE Next(g, n) == IF n = 0 THEN cfg ELSE Override(g[n - 1], own[n])
           P == {m \in Nat : \E g : g = [n \in 0 .. m |-> Next(g, n)]}
<1>1. 0 \in P
  <2>1. [n \in 0 .. 0 |-> cfg]
          = [n \in 0 .. 0 |-> Next([k \in 0 .. 0 |-> cfg], n)]
    OBVIOUS
  <2> QED
    BY <2>1
<1>2. ASSUME NEW m \in Nat, m \in P PROVE m + 1 \in P
  <2>1. PICK g : g = [n \in 0 .. m |-> Next(g, n)]
    BY <1>2
  <2> DEFINE h == [n \in 0 .. m + 1 |-> Next(g, n)]
  <2>2. \A n \in 0 .. m : h[n] = g[n]
    <3>1. \A n \in 0 .. m : g[n] = Next(g, n) /\ n \in 0 .. m + 1
      BY <2>1
    <3> QED
      BY <3>1
  <2>3. \A n \in 0 .. m + 1 : n # 0 => n - 1 \in 0 .. m
    OBVIOUS
  <2>4. ASSUME NEW n \in 0 .. m + 1 PROVE Next(h, n) = Next(g, n)
    <3>1. n # 0 => h[n - 1] = g[n - 1]
      BY <2>2, <2>3
    <3> HIDE DEF h
    <3> QED
      BY <3>1
  <2>5. h = [n \in 0 .. m + 1 |-> Next(h, n)]
    <3>1. h = [n \in 0 .. m + 1 |-> Next(g, n)]
      OBVIOUS
    <3> HIDE DEF h, Next
    <3> QED
      BY <2>4, <3>1
  <2>6. m + 1 \in Nat
    OBVIOUS
  <2> HIDE DEF h, Next
  <2> QED
    BY <2>5, <2>6
<1>3. Len(own) \in P
  BY <1>1, <1>2, SetInduction, Len(own) \in Nat
<1> DEFINE f == Overridden(cfg, own)
<1>4. f = [n \in 0 .. Len(own) |-> Next(f, n)]
  BY <1>3 DEF Overridden
<1>5. f[0] = Next(f, 0) /\ \A n \in 1 .. Len(own) : f[n] = Next(f, n)
  <2>1. 0 \in 0 .. Len(own) /\ \A n \in 1 .. Len(own) : n \in 0 .. Len(own)
    OBVIOUS
  <2> HIDE DEF f, Next
  <2> QED
    BY <1>4, <2>1
<1> QED
  BY <1>5

IsConfig(cfg) ==
    /\ cfg = [field \in DOMAIN Defaults |-> cfg[field]]
    /\ cfg.ports \in Seq(Forward)

(* The override is one of the forward at i.                                *)
Hits(base, override, i) == LastNamed(base.ports, override.name) = i

(* cfg is base after n overrides: the macOS ports are those of the last    *)
(* overrides that hit them, and nothing else has changed.                  *)
Merged(cfg, base, own, n) ==
    /\ IsConfig(cfg)
    /\ \A field \in DOMAIN Defaults \ {"ports"} : cfg[field] = base[field]
    /\ Len(cfg.ports) = Len(base.ports)
    /\ \A i \in 1 .. Len(base.ports) :
         /\ cfg.ports[i] = [base.ports[i] EXCEPT !.host = cfg.ports[i].host]
         /\ \/ /\ cfg.ports[i].host = base.ports[i].host
               /\ \A k \in 1 .. n : ~ Hits(base, own[k], i)
            \/ \E k \in 1 .. n :
                 /\ Hits(base, own[k], i)
                 /\ cfg.ports[i].host = own[k].host
                 /\ \A l \in k + 1 .. n : ~ Hits(base, own[l], i)
    /\ \A k \in 1 .. n : ~ Hits(base, own[k], 0)

LEMMA OverrideKeepsMerged ==
  ASSUME NEW cfg, NEW base, NEW own \in Seq(HostPort), NEW n \in Nat,
         n + 1 \in 1 .. Len(own), IsConfig(base), Merged(cfg, base, own, n),
         cfg # Invalid, Override(cfg, own[n + 1]) # Invalid
  PROVE  Merged(Override(cfg, own[n + 1]), base, own, n + 1)
<1> DEFINE o == own[n + 1]
           j == LastNamed(base.ports, o.name)
           new == Override(cfg, o)
<1>1. o.host \in Int
  <2>1. o \in HostPort
    OBVIOUS
  <2> QED
    BY <2>1 DEF HostPort
<1>2. /\ LastNamed(cfg.ports, o.name) = j
      /\ \A i \in 1 .. Len(base.ports) :
            cfg.ports[i] \in Forward /\ base.ports[i] \in Forward
      /\ Len(base.ports) \in Nat
  <2>1. /\ cfg.ports \in Seq(Forward) /\ base.ports \in Seq(Forward)
        /\ Len(cfg.ports) = Len(base.ports)
        /\ \A i \in 1 .. Len(base.ports) :
             cfg.ports[i] = [base.ports[i] EXCEPT !.host = cfg.ports[i].host]
    BY DEF Merged, IsConfig
  <2>2. \A i \in 1 .. Len(base.ports) :
           cfg.ports[i] \in Forward /\ base.ports[i] \in Forward
    BY <2>1
  <2>3. \A i \in 1 .. Len(base.ports) : cfg.ports[i].name = base.ports[i].name
    BY <2>1, <2>2 DEF Forward
  <2> QED
    BY <2>1, <2>2, <2>3, SameNames
<1>3. j # 0 /\ new = [cfg EXCEPT !.ports[j].host = o.host]
  BY <1>2 DEF Override
<1>4. j \in 1 .. Len(base.ports)
  BY <1>3, LastNamedIsLast DEF IsConfig
<1> HIDE DEF new, j, o
<1>5. /\ new = [field \in DOMAIN Defaults |-> new[field]]
      /\ new.ports = [cfg.ports EXCEPT ![j].host = o.host]
      /\ \A field \in DOMAIN Defaults \ {"ports"} : new[field] = cfg[field]
  BY <1>3 DEF Merged, IsConfig, Defaults
<1>6. /\ \A i \in 1 .. Len(base.ports) : i # j => new.ports[i] = cfg.ports[i]
      /\ new.ports[j] = [cfg.ports[j] EXCEPT !.host = o.host]
      /\ Len(new.ports) = Len(base.ports)
      /\ new.ports \in Seq(Forward)
  <2>1. cfg.ports \in Seq(Forward) /\ Len(cfg.ports) = Len(base.ports)
    BY DEF Merged, IsConfig
  <2> DEFINE forward == [cfg.ports[j] EXCEPT !.host = o.host]
  <2>2. forward \in Forward
    BY <1>1, <1>2, <1>4 DEF Forward
  <2>3. new.ports = [cfg.ports EXCEPT ![j] = forward]
    BY <1>5
  <2> HIDE DEF forward
  <2>4. new.ports[j] = forward /\ new.ports \in Seq(Forward)
        /\ Len(new.ports) = Len(cfg.ports)
    BY <1>4, <2>1, <2>2, <2>3
  <2>5. \A i \in 1 .. Len(base.ports) : i # j => new.ports[i] = cfg.ports[i]
    BY <1>4, <2>1, <2>3
  <2> QED
    BY <2>1, <2>4, <2>5 DEF forward
<1>7. /\ new.ports[j] = [base.ports[j] EXCEPT !.host = o.host]
      /\ new.ports[j].host = o.host
  <2>1. cfg.ports[j] = [base.ports[j] EXCEPT !.host = cfg.ports[j].host]
    BY <1>4 DEF Merged
  <2> QED
    BY <1>2, <1>4, <1>6, <2>1 DEF Forward
<1>8. \A i : Hits(base, o, i) <=> i = j
  BY DEF Hits, j
<1>9. ASSUME NEW i \in 1 .. Len(base.ports)
      PROVE  /\ new.ports[i]
                  = [base.ports[i] EXCEPT !.host = new.ports[i].host]
             /\ \/ /\ new.ports[i].host = base.ports[i].host
                   /\ \A k \in 1 .. n + 1 : ~ Hits(base, own[k], i)
                \/ \E k \in 1 .. n + 1 :
                     /\ Hits(base, own[k], i)
                     /\ new.ports[i].host = own[k].host
                     /\ \A l \in k + 1 .. n + 1 : ~ Hits(base, own[l], i)
  <2>1. CASE i = j
    <3>1. /\ Hits(base, own[n + 1], i)
          /\ new.ports[i].host = own[n + 1].host
      BY <1>7, <1>8, <2>1 DEF o
    <3>2. (n + 1) + 1 .. n + 1 = {} /\ n + 1 \in 1 .. n + 1
      OBVIOUS
    <3> QED
      BY <1>7, <2>1, <3>1, <3>2
  <2>2. CASE i # j
    <3>1. /\ cfg.ports[i] = [base.ports[i] EXCEPT !.host = cfg.ports[i].host]
          /\ new.ports[i] = cfg.ports[i]
      BY <1>6, <2>2 DEF Merged
    <3>2. \A k \in 1 .. n + 1 : k \notin 1 .. n => ~ Hits(base, own[k], i)
      BY <1>8, <2>2 DEF o
    <3>3. CASE /\ cfg.ports[i].host = base.ports[i].host
               /\ \A k \in 1 .. n : ~ Hits(base, own[k], i)
      BY <3>1, <3>2, <3>3
    <3>4. ASSUME NEW k \in 1 .. n, Hits(base, own[k], i),
                 cfg.ports[i].host = own[k].host,
                 \A l \in k + 1 .. n : ~ Hits(base, own[l], i)
          PROVE  /\ k \in 1 .. n + 1
                 /\ \A l \in k + 1 .. n + 1 : ~ Hits(base, own[l], i)
      BY <3>2, <3>4
    <3> QED
      BY <3>1, <3>3, <3>4 DEF Merged
  <2> QED
    BY <2>1, <2>2
<1>10. \A k \in 1 .. n + 1 : ~ Hits(base, own[k], 0)
  <2>1. ~ Hits(base, own[n + 1], 0)
    BY <1>3, <1>8 DEF o
  <2> QED
    BY <2>1 DEF Merged
<1>11. \A field \in DOMAIN Defaults \ {"ports"} : new[field] = base[field]
  BY <1>5 DEF Merged
<1> QED
  <2>1. Merged(new, base, own, n + 1)
    BY <1>5, <1>6, <1>9, <1>10, <1>11 DEF Merged, IsConfig
  <2> QED
    BY <2>1 DEF new, o

(* After any number of overrides, and so after all of them, a forward has  *)
(* the macOS port of the last that hit it.                                 *)
LEMMA OverriddenIsMerged ==
  ASSUME NEW base, IsConfig(base), NEW own \in Seq(HostPort)
  PROVE  LET cfg == Overridden(base, own)[Len(own)]
         IN  cfg = Invalid \/ Merged(cfg, base, own, Len(own))
<1> DEFINE f == Overridden(base, own)
           P == {n \in Nat : n <= Len(own) =>
                               f[n] = Invalid \/ Merged(f[n], base, own, n)}
<1>1. Len(own) \in Nat
  OBVIOUS
<1>2. f[0] = base /\ \A n \in 1 .. Len(own) : f[n] = Override(f[n - 1], own[n])
  BY OverriddenStep
<1> HIDE DEF f
<1>3. 0 \in P
  <2>1. \A i \in 1 .. Len(base.ports) :
           base.ports[i] = [base.ports[i] EXCEPT !.host = base.ports[i].host]
    <3>1. \A i \in 1 .. Len(base.ports) : base.ports[i] \in Forward
      BY DEF IsConfig
    <3> QED
      BY <3>1 DEF Forward
  <2>2. Merged(base, base, own, 0)
    BY <2>1 DEF Merged
  <2> QED
    BY <1>2, <2>2
<1>4. ASSUME NEW n \in Nat, n \in P PROVE n + 1 \in P
  <2> SUFFICES ASSUME n + 1 <= Len(own), f[n + 1] # Invalid
               PROVE  Merged(f[n + 1], base, own, n + 1)
    OBVIOUS
  <2>1. n + 1 \in 1 .. Len(own) /\ (n + 1) - 1 = n /\ n <= Len(own)
    BY <1>1
  <2>2. f[n + 1] = Override(f[n], own[n + 1])
    BY <1>2, <2>1
  <2>3. f[n] # Invalid
    BY <2>2 DEF Override
  <2>4. Merged(f[n], base, own, n)
    BY <1>4, <2>1, <2>3
  <2> QED
    BY <2>1, <2>2, <2>3, <2>4, OverrideKeepsMerged
<1>5. Len(own) \in P
  BY <1>1, <1>3, <1>4, SetInduction, Zenon
<1> QED
  BY <1>1, <1>5 DEF f

-----------------------------------------------------------------------------
(* What a valid configuration comes to.                                    *)

(* Forwards with macOS ports of their own claim as many as they are.       *)
LEMMA DistinctHosts ==
  ASSUME NEW ports \in Seq(Forward), ValidPorts(ports)
  PROVE  Cardinality({p.host : p \in Range(ports)}) = Len(ports)
<1> DEFINE S == {p.host : p \in Range(ports)}
           F == [i \in 1 .. Len(ports) |-> ports[i].host]
<1>1. DOMAIN ports = 1 .. Len(ports) /\ Len(ports) \in Nat
  OBVIOUS
<1>2. S = {ports[i].host : i \in 1 .. Len(ports)}
  BY <1>1 DEF Range
<1>3. \A i, j \in 1 .. Len(ports) : F[i] = F[j] => i = j
  BY <1>1 DEF ValidPorts
<1>4. F \in [1 .. Len(ports) -> S]
  BY <1>2
<1>5. \A t \in S : \E i \in 1 .. Len(ports) : F[i] = t
  BY <1>2
<1> HIDE DEF S, F
<1>6. ExistsBijection(1 .. Len(ports), S)
  BY <1>3, <1>4, <1>5, Fun_IsBij, Fun_ExistsBij
<1> QED
  BY <1>1, <1>6, FS_CountingElements DEF S

(* With names of their own the forwards a local entry hits are those it    *)
(* names.                                                                  *)
LEMMA HitsByName ==
  ASSUME NEW base, base.ports \in Seq(Forward),
         \A i, j \in 1 .. Len(base.ports) :
            base.ports[i].name = base.ports[j].name => i = j,
         NEW i \in 1 .. Len(base.ports), NEW o
  PROVE  Hits(base, o, i) <=> o.name = base.ports[i].name
<1> DEFINE l == LastNamed(base.ports, o.name)
<1>1. \/ l = 0 /\ \A k \in 1 .. Len(base.ports) : base.ports[k].name # o.name
      \/ l \in 1 .. Len(base.ports) /\ base.ports[l].name = o.name
  BY LastNamedIsLast
<1>2. i # 0
  OBVIOUS
<1> HIDE DEF l
<1> QED
  BY <1>1, <1>2 DEF Hits, l

(* The forwards of an accepted configuration are those of the shared file  *)
(* with the macOS ports the local file says last.                          *)
LEMMA MergedForwards ==
  ASSUME NEW base, IsConfig(base), NEW own \in Seq(HostPort),
         NEW cfg, Merged(cfg, base, own, Len(own)), ValidPorts(cfg.ports)
  PROVE  /\ \A i \in 1 .. Len(base.ports) :
               LET l == LastNamed(own, base.ports[i].name)
               IN  cfg.ports[i].host = IF l = 0 THEN base.ports[i].host
                                       ELSE own[l].host
         /\ \A k \in 1 .. Len(own) : \E i \in 1 .. Len(base.ports) :
               base.ports[i].name = own[k].name
<1>1. /\ cfg.ports \in Seq(Forward) /\ base.ports \in Seq(Forward)
      /\ Len(cfg.ports) = Len(base.ports) /\ Len(own) \in Nat
      /\ Len(base.ports) \in Nat
  BY DEF Merged, IsConfig
<1>2. \A i \in 1 .. Len(base.ports) : cfg.ports[i].name = base.ports[i].name
  <2> SUFFICES ASSUME NEW i \in 1 .. Len(base.ports)
               PROVE  cfg.ports[i].name = base.ports[i].name
    OBVIOUS
  <2>1. cfg.ports[i] = [base.ports[i] EXCEPT !.host = cfg.ports[i].host]
    BY DEF Merged
  <2>2. base.ports[i] \in Forward
    BY <1>1
  <2> QED
    BY <2>1, <2>2 DEF Forward
<1>3. \A i, j \in 1 .. Len(base.ports) :
         base.ports[i].name = base.ports[j].name => i = j
  <2>1. DOMAIN cfg.ports = 1 .. Len(base.ports)
    BY <1>1
  <2> QED
    BY <1>2, <2>1 DEF ValidPorts
<1>4. \A k \in 1 .. Len(own) : \E i \in 1 .. Len(base.ports) :
         base.ports[i].name = own[k].name
  <2> SUFFICES ASSUME NEW k \in 1 .. Len(own)
               PROVE  \E i \in 1 .. Len(base.ports) :
                        base.ports[i].name = own[k].name
    OBVIOUS
  <2>1. ~ Hits(base, own[k], 0)
    BY DEF Merged
  <2> QED
    BY <1>1, <2>1, LastNamedIsLast DEF Hits
<1>5. ASSUME NEW i \in 1 .. Len(base.ports)
      PROVE  LET l == LastNamed(own, base.ports[i].name)
             IN  cfg.ports[i].host = IF l = 0 THEN base.ports[i].host
                                     ELSE own[l].host
  <2> DEFINE l == LastNamed(own, base.ports[i].name)
  <2>1. \A k \in 1 .. Len(own) :
           Hits(base, own[k], i) <=> own[k].name = base.ports[i].name
    BY <1>1, <1>3, HitsByName
  <2>2. \/ l = 0 /\ \A k \in 1 .. Len(own) : ~ Hits(base, own[k], i)
        \/ /\ l \in 1 .. Len(own) /\ Hits(base, own[l], i)
           /\ \A k \in 1 .. Len(own) : Hits(base, own[k], i) => k <= l
    <3> HIDE DEF l
    <3>1. \/ l = 0 /\ \A k \in 1 .. Len(own) : own[k].name # base.ports[i].name
          \/ /\ l \in 1 .. Len(own) /\ own[l].name = base.ports[i].name
             /\ \A k \in 1 .. Len(own) :
                   own[k].name = base.ports[i].name => k <= l
      BY LastNamedIsLast DEF l
    <3> QED
      BY <2>1, <3>1
  <2> HIDE DEF l
  <2>3. \/ /\ cfg.ports[i].host = base.ports[i].host
           /\ \A k \in 1 .. Len(own) : ~ Hits(base, own[k], i)
        \/ \E k \in 1 .. Len(own) :
             /\ Hits(base, own[k], i)
             /\ cfg.ports[i].host = own[k].host
             /\ \A m \in k + 1 .. Len(own) : ~ Hits(base, own[m], i)
    BY DEF Merged
  <2>4. CASE \A k \in 1 .. Len(own) : ~ Hits(base, own[k], i)
    BY <2>2, <2>3, <2>4 DEF l
  <2>5. ASSUME NEW k \in 1 .. Len(own), Hits(base, own[k], i),
               cfg.ports[i].host = own[k].host,
               \A m \in k + 1 .. Len(own) : ~ Hits(base, own[m], i)
        PROVE  l # 0 /\ cfg.ports[i].host = own[l].host
    <3>1. l \in 1 .. Len(own) /\ Hits(base, own[l], i) /\ k <= l
      BY <2>2, <2>5
    <3>2. ~ (l \in k + 1 .. Len(own))
      BY <2>5, <3>1
    <3>3. l = k
      BY <1>1, <3>1, <3>2
    <3> QED
      BY <2>5, <3>1, <3>3
  <2> QED
    BY <2>3, <2>4, <2>5 DEF l
<1> QED
  BY <1>4, <1>5

(* Both files are decoded into forwards, of which the local one gives the  *)
(* macOS side only.                                                        *)
LEMMA DecodedForwards ==
  ASSUME NEW shared, IsShared(shared), shared # Invalid
  PROVE  IsConfig(Decode(shared))
<1>1. CASE shared = Missing
  <2>1. Decode(shared) = Defaults
    BY <1>1 DEF Decode
  <2>2. Defaults = [field \in DOMAIN Defaults |-> Defaults[field]]
    BY DEF Defaults
  <2>3. Defaults.ports \in Seq(Forward)
    BY DEF Defaults
  <2> QED
    BY <2>1, <2>2, <2>3 DEF IsConfig
<1>2. CASE shared # Missing
  <2>1. Decode(shared) = [field \in DOMAIN Defaults |->
                             Given(shared, field, Defaults[field])]
    BY <1>2 DEF Decode
  <2>2. "ports" \in DOMAIN Defaults /\ Defaults["ports"] = <<>>
    BY DEF Defaults
  <2>3. Given(shared, "ports", <<>>) \in Seq(Forward)
    BY <1>2 DEF IsShared, Given
  <2> QED
    BY <2>1, <2>2, <2>3 DEF IsConfig
<1> QED
  BY <1>1, <1>2

LEMMA OwnForwards ==
  ASSUME NEW local, IsLocal(local), local # Invalid, local # Missing
  PROVE  Given(local, "ports", <<>>) \in Seq(HostPort)
BY DEF IsLocal, Given

(* The local file says what it says of the resources before the loop.      *)
LEMMA CpusFirst ==
  ASSUME NEW base, IsConfig(base), NEW cpus
  PROVE  LET start == [base EXCEPT !.cpus = cpus]
         IN  /\ IsConfig(start)
             /\ start.ports = base.ports /\ start.cpus = cpus
             /\ \A field \in DOMAIN Defaults \ {"cpus"} :
                   start[field] = base[field]
<1>1. "cpus" \in DOMAIN Defaults /\ "ports" \in DOMAIN Defaults
  BY DEF Defaults
<1> QED
  BY <1>1 DEF IsConfig

(* Load accepts nothing but a configuration that is what the two files     *)
(* say, local over shared over defaults, and in which every forward has a  *)
(* macOS port of its own (config.go:103-124, 159-236).                     *)
THEOREM LoadIsSound ==
  ASSUME NEW shared, IsShared(shared), NEW local, IsLocal(local),
         Load(shared, local) # Invalid
  PROVE  Sound(shared, local, Load(shared, local))
<1> DEFINE base == Decode(shared)
           cfg == Load(shared, local)
           own == IF local = Missing THEN <<>> ELSE Given(local, "ports", <<>>)
           start == IF local = Missing THEN base
                    ELSE [base EXCEPT !.cpus = Given(local, "cpus", @)]
<1>1. /\ shared # Invalid /\ local # Invalid
      /\ cfg = IF local = Missing THEN base ELSE MergeLocal(base, local)
      /\ Validate(cfg)
  BY DEF Load
<1>2. IsConfig(base) /\ own \in Seq(HostPort)
  BY <1>1, DecodedForwards, OwnForwards
<1>3. /\ IsConfig(start) /\ start.ports = base.ports
      /\ start.cpus = IF local = Missing THEN base.cpus
                      ELSE Given(local, "cpus", base.cpus)
      /\ \A field \in {"image", "packages", "commands"} :
            start[field] = base[field]
  <2>1. {"image", "packages", "commands"} \subseteq DOMAIN Defaults \ {"cpus"}
    BY DEF Defaults
  <2> HIDE DEF base
  <2>2. CASE local = Missing
    BY <1>2, <2>2
  <2>3. CASE local # Missing
    <3> DEFINE cpus == Given(local, "cpus", base.cpus)
    <3>1. start = [base EXCEPT !.cpus = cpus]
      BY <2>3
    <3> HIDE DEF cpus, start
    <3>2. /\ IsConfig(start)
          /\ start.ports = base.ports /\ start.cpus = cpus
          /\ \A field \in DOMAIN Defaults \ {"cpus"} :
                start[field] = base[field]
      BY <1>2, <3>1, CpusFirst
    <3> QED
      BY <2>1, <2>3, <3>2 DEF cpus
  <2> QED
    BY <2>2, <2>3
<1>4. cfg = Overridden(start, own)[Len(own)]
  <2>1. CASE local = Missing
    BY <1>1, <1>2, <2>1, OverriddenStep
  <2>2. CASE local # Missing
    BY <1>1, <2>2 DEF MergeLocal
  <2> QED
    BY <2>1, <2>2
<1> HIDE DEF base, cfg, own, start
<1>5. Merged(cfg, start, own, Len(own))
  BY <1>2, <1>3, <1>4, OverriddenIsMerged DEF cfg
<1>6. /\ cfg.ports \in Seq(Forward) /\ ValidPorts(cfg.ports)
      /\ Len(cfg.ports) = Len(base.ports) /\ base.ports \in Seq(Forward)
      /\ DOMAIN cfg.ports = DOMAIN base.ports
      /\ DOMAIN base.ports = 1 .. Len(base.ports)
  BY <1>1, <1>2, <1>3, <1>5 DEF Merged, IsConfig, Validate
<1>7. \A i \in 1 .. Len(base.ports) :
         LET l == LastNamed(own, base.ports[i].name)
         IN  cfg.ports[i] = [base.ports[i] EXCEPT !.host =
                IF l = 0 THEN base.ports[i].host ELSE own[l].host]
  <2>1. \A i \in 1 .. Len(base.ports) :
           cfg.ports[i] = [base.ports[i] EXCEPT !.host = cfg.ports[i].host]
    BY <1>3, <1>5 DEF Merged
  <2> QED
    BY <1>2, <1>3, <1>5, <1>6, <2>1, MergedForwards
<1>8. cfg.ports = [i \in DOMAIN base.ports |->
         LET l == LastNamed(own, base.ports[i].name)
         IN  [base.ports[i] EXCEPT !.host =
                IF l = 0 THEN base.ports[i].host ELSE own[l].host]]
  <2>1. cfg.ports = [i \in DOMAIN base.ports |-> cfg.ports[i]]
    BY <1>6
  <2> QED
    BY <1>6, <1>7, <2>1, Zenon
<1>9. \A o \in Range(own) : \E p \in Range(base.ports) : p.name = o.name
  <2>1. \A k \in 1 .. Len(own) : \E i \in 1 .. Len(base.ports) :
           base.ports[i].name = own[k].name
    BY <1>2, <1>3, <1>5, <1>6, MergedForwards
  <2>2. DOMAIN own = 1 .. Len(own)
    BY <1>2
  <2> QED
    BY <1>6, <2>1, <2>2 DEF Range
<1>10. /\ cfg.cpus = start.cpus
       /\ \A field \in {"image", "packages", "commands"} :
             cfg[field] = start[field]
  BY <1>5 DEF Merged, Defaults
<1>11. /\ Cardinality({p.host : p \in Range(cfg.ports)}) = Len(cfg.ports)
       /\ \A p \in Range(cfg.ports) : p.host \in 1 .. MaxPort
  BY <1>6, DistinctHosts DEF ValidPorts, ValidPort
<1> QED
  BY <1>3, <1>8, <1>9, <1>10, <1>11 DEF Sound, base, own, cfg
=============================================================================
