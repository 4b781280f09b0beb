--------------------------- MODULE VrMemory_proofs ---------------------------
(***************************************************************************)
(* What the VR4300 sees of memory: its caches, and its address translation *)
(* with the TLB.                                                           *)
(*                                                                         *)
(* CachesRight, for caches, memories and lines of any size. The invariant  *)
(* adds to it that a valid line of the data cache is in its place, and     *)
(* that code which was written back is in memory. The data cache is taken  *)
(* as a value, so that what an operation does to one of its lines can be   *)
(* said without primes: it drops a line (PutInvalid) or puts one for an    *)
(* address (PutValid), after it has evicted the old one or not.            *)
(*                                                                         *)
(* AddressesRight, for a TLB of any size, any set of mapped addresses and  *)
(* any settings of STATUS that a guest like TlbGuest has. The invariant    *)
(* says whose page tables an entry is of, that no two entries are for one  *)
(* page, and what a fault leaves for its handler and the handler for the   *)
(* access when it is tried again.                                          *)
(***************************************************************************)
EXTENDS VrCaches, VrTlb, FiniteSetTheorems, TLAPS

Contents == [Words -> Values]
CacheLine == [metadata : Nat, data : Contents]
Places == 0 .. CacheLines - 1
Caches == [Places -> CacheLine]
Memories == [Lines -> Contents]

\* HomeOf and Seen, of any cache and memory.
Home(d, n) == get_tag(d[n]) * LinesPerPage + (n % LinesPerPage)
SeenIn(d, m, a) == IF Probe(d, a) THEN d[Index(a)].data ELSE m[a]

\* The cache d over the memory m holds the lines l.
Coherent(d, m, l) ==
  /\ \A n \in Places : is_valid(d[n]) => Home(d, n) \in Lines /\ Index(Home(d, n)) = n
  /\ \A a \in Lines : SeenIn(d, m, a) = l[a]
  /\ \A n \in Places : is_valid(d[n]) /\ ~is_dirty(d[n]) => d[n].data = m[Home(d, n)]

\* What dcache.c writes back before a line is dropped.
Evicted(d, m, n) ==
  IF is_dirty(d[n]) /\ is_valid(d[n]) THEN [m EXCEPT ![Home(d, n)] = d[n].data] ELSE m

\* Code that was written back is in memory, and code that was published is what
\* the instruction cache has, if it has the line.
Fetched ==
  \A a \in CodeLines :
    /\ synced[a] # "stale" => ram[a] = latest[a]
    /\ synced[a] = "synced" /\ Probe(icache, a) => icache[Index(a)].data = latest[a]

CacheTypeOK ==
  /\ dcache \in Caches /\ icache \in Caches
  /\ ram \in Memories /\ latest \in Memories
  /\ taglo \in Nat
  /\ synced \in [CodeLines -> {"stale", "written", "synced"}]

CachesInv == CacheTypeOK /\ Coherent(dcache, ram, latest) /\ Fetched

-----------------------------------------------------------------------------
(* Addresses, and the bits of the metadata. *)

\* The page and the index tell an address: C is a whole number of pages.
LEMMA AddressParts ==
  ASSUME NEW a \in Nat
  PROVE  /\ Index(a) \in Places
         /\ PageOf(a) \in Nat
         /\ PageOf(a) * LinesPerPage + (Index(a) % LinesPerPage) = a
<1> DEFINE C == CacheLines
           q == a \div C
           r == a % C
           h == C \div 2
           z == h * q
<1>1. C \in Nat \ {0} /\ C % 2 = 0
  BY VrCachesAssumption DEF LinesPerPage
<1> HIDE DEF C
<1>2. q \in Nat /\ r \in 0 .. C - 1 /\ a = C * q + r
  BY <1>1
<1>3. h \in Nat /\ C = 2 * h
  BY <1>1
<1> HIDE DEF q, r, h
<1>4. z \in Nat /\ a = 2 * z + r
  <2>1. (2 * h) * q = 2 * (h * q) /\ h * q \in Nat
    BY <1>2, <1>3
  <2> QED BY <1>2, <1>3, <2>1
<1> HIDE DEF z
<1>5. a % 2 = r % 2
  BY <1>1, <1>2, <1>4
<1>6. (a \div 2) * 2 + (a % 2) = a /\ a \div 2 \in Nat
  OBVIOUS
<1>7. Index(a) = r
  BY DEF Index, r, C
<1>8. 0 .. C - 1 = Places
  BY DEF Places, C
<1> QED BY <1>2, <1>5, <1>6, <1>7, <1>8 DEF PageOf, LinesPerPage

\* A line is in the cache if its place holds a valid line that is for it.
LEMMA ProbeHome ==
  ASSUME NEW d \in Caches, NEW a \in Nat
  PROVE  Probe(d, a) <=> is_valid(d[Index(a)]) /\ Home(d, Index(a)) = a
<1> DEFINE t == get_tag(d[Index(a)])
           i == Index(a) % LinesPerPage
<1>1. Index(a) \in Places /\ PageOf(a) \in Nat /\ PageOf(a) * LinesPerPage + i = a
  BY AddressParts
<1>2. t \in Nat
  <2>1. d[Index(a)].metadata \in Nat
    BY <1>1 DEF Caches, CacheLine
  <2> QED BY <2>1 DEF get_tag
<1>3. i \in Nat
  BY <1>1 DEF Places, LinesPerPage
<1> HIDE DEF t, i
<1>4. t = PageOf(a) <=> t * LinesPerPage + i = a
  BY <1>1, <1>2, <1>3 DEF LinesPerPage
<1> QED BY <1>4 DEF Probe, Home, t, i

\* Two lines with the same tag and place are one.
LEMMA OneLine ==
  ASSUME NEW a \in Nat, NEW b \in Nat, Index(a) = Index(b), PageOf(a) = PageOf(b)
  PROVE  a = b
BY AddressParts

\* What the operations on the metadata do to its three fields.
LEMMA Bits ==
  ASSUME NEW x \in CacheLine
  PROVE  /\ get_tag(x) \in Nat
         /\ invalidate_line(x) \in CacheLine /\ ~is_valid(invalidate_line(x))
         /\ set_dirty(x) \in CacheLine /\ is_dirty(set_dirty(x))
         /\ is_valid(set_dirty(x)) = is_valid(x) /\ get_tag(set_dirty(x)) = get_tag(x)
         /\ set_dirty(x).data = x.data
         /\ Clean(x) \in CacheLine /\ ~is_dirty(Clean(x))
         /\ is_valid(Clean(x)) = is_valid(x) /\ get_tag(Clean(x)) = get_tag(x)
         /\ Clean(x).data = x.data
<1>1. PICK m \in Nat, c \in Contents : x = [metadata |-> m, data |-> c]
  BY DEF CacheLine
<1>2. \A k \in Nat : [x EXCEPT !.metadata = k] = [metadata |-> k, data |-> c]
  BY <1>1
<1> DEFINE inv == IF m % 2 = 1 THEN m - 1 ELSE m
           dir == IF (m \div 2) % 2 = 1 THEN m ELSE m + 2
           cln == IF (m \div 2) % 2 = 1 THEN m - 2 ELSE m
<1>3. inv \in Nat /\ inv % 2 # 1
  OBVIOUS
<1>4. /\ dir \in Nat /\ (dir \div 2) % 2 = 1 /\ dir % 2 = m % 2
      /\ dir \div 4 = m \div 4
  OBVIOUS
<1>5. /\ cln \in Nat /\ (cln \div 2) % 2 # 1 /\ cln % 2 = m % 2
      /\ cln \div 4 = m \div 4
  OBVIOUS
<1>6. m \div 4 \in Nat
  OBVIOUS
<1>7. /\ invalidate_line(x) = [x EXCEPT !.metadata = inv]
      /\ set_dirty(x) = [x EXCEPT !.metadata = dir]
      /\ Clean(x) = [x EXCEPT !.metadata = cln]
  BY <1>1 DEF invalidate_line, set_dirty, Clean, is_valid, is_dirty
<1> HIDE DEF inv, dir, cln
<1>8. /\ invalidate_line(x) = [metadata |-> inv, data |-> c]
      /\ set_dirty(x) = [metadata |-> dir, data |-> c]
      /\ Clean(x) = [metadata |-> cln, data |-> c]
  BY <1>2, <1>3, <1>4, <1>5, <1>7
<1> QED BY <1>1, <1>3, <1>4, <1>5, <1>6, <1>8 DEF CacheLine, is_valid, is_dirty, get_tag

\* A line that was filled, or taken for an address by create dirty exclusive.
LEMMA NewBits ==
  ASSUME NEW t \in Nat, NEW c \in Contents
  PROVE  /\ LET x == [metadata |-> validate_line(t), data |-> c]
            IN x \in CacheLine /\ is_valid(x) /\ ~is_dirty(x) /\ get_tag(x) = t /\ x.data = c
         /\ LET x == [metadata |-> t * 4 + 3, data |-> c]
            IN x \in CacheLine /\ is_valid(x) /\ is_dirty(x) /\ get_tag(x) = t /\ x.data = c
<1>1. /\ t * 4 + 1 \in Nat /\ (t * 4 + 1) % 2 = 1 /\ ((t * 4 + 1) \div 2) % 2 # 1
      /\ (t * 4 + 1) \div 4 = t
  OBVIOUS
<1>2. /\ t * 4 + 3 \in Nat /\ (t * 4 + 3) % 2 = 1 /\ ((t * 4 + 3) \div 2) % 2 = 1
      /\ (t * 4 + 3) \div 4 = t
  OBVIOUS
<1> QED BY <1>1, <1>2 DEF CacheLine, is_valid, is_dirty, get_tag, validate_line

\* TAGLO gives the metadata back.
LEMMA TagLoBack ==
  ASSUME NEW m \in Nat
  PROVE  TagLoOf(m) \in Nat /\ MetadataOf(TagLoOf(m)) = m
<1>1. PICK t \in Nat, d \in 0 .. 1, v \in 0 .. 1 :
        /\ m = 4 * t + 2 * d + v
        /\ m \div 4 = t /\ (m \div 2) % 2 = d /\ m % 2 = v
  <2>1. m \div 4 \in Nat /\ (m \div 2) % 2 \in 0 .. 1 /\ m % 2 \in 0 .. 1
    OBVIOUS
  <2>2. m = 4 * (m \div 4) + 2 * ((m \div 2) % 2) + (m % 2)
    OBVIOUS
  <2> QED BY <2>1, <2>2
<1> DEFINE g == t * 4 + v * 2 + d
<1>2. TagLoOf(m) = g
  BY <1>1 DEF TagLoOf
<1>3. g \in Nat /\ g \div 4 = t /\ (g \div 2) % 2 = v /\ g % 2 = d
  BY <1>1
<1> HIDE DEF g
<1>4. MetadataOf(g) = t * 4 + d * 2 + v
  BY <1>3 DEF MetadataOf
<1>5. t * 4 + d * 2 + v = m
  BY <1>1
<1> QED BY <1>2, <1>3, <1>4, <1>5

-----------------------------------------------------------------------------
(* One line of the data cache. *)

\* A line x of the cache is for the line a of memory.
Holds(x, a) == is_valid(x) /\ get_tag(x) = PageOf(a)

\* What is seen at an address is the line in its place, if that is for it.
LEMMA SeenPlace ==
  ASSUME NEW d \in Caches, NEW m \in Memories, NEW a \in Lines
  PROVE  /\ a \in Nat /\ Index(a) \in Places
         /\ Probe(d, a) <=> Holds(d[Index(a)], a)
         /\ Holds(d[Index(a)], a) => SeenIn(d, m, a) = d[Index(a)].data
         /\ ~Holds(d[Index(a)], a) => SeenIn(d, m, a) = m[a]
<1>1. a \in Nat
  BY DEF Lines
<1>2. Index(a) \in Places
  BY <1>1, AddressParts
<1> QED BY <1>1, <1>2, Zenon DEF Probe, Holds, SeenIn

\* Once the line in a place is written back, memory has all that is to be seen of
\* the lines that share the place.
LEMMA Evict ==
  ASSUME NEW d \in Caches, NEW m \in Memories, NEW l \in Memories,
         Coherent(d, m, l), NEW n \in Places
  PROVE  /\ Evicted(d, m, n) \in Memories
         /\ \A a \in Lines : Evicted(d, m, n)[a] = IF Index(a) = n THEN l[a] ELSE m[a]
<1> DEFINE h == Home(d, n)
           M == Evicted(d, m, n)
<1>1. d[n].data \in Contents
  BY DEF Caches, CacheLine
<1>2. is_valid(d[n]) => h \in Lines /\ Index(h) = n
  BY DEF Coherent
<1>3. \A a \in Lines : Index(a) = n => (Probe(d, a) <=> is_valid(d[n]) /\ h = a)
  <2> TAKE a \in Lines
  <2>1. a \in Nat
    BY DEF Lines
  <2> QED BY <2>1, ProbeHome
<1>4. \A a \in Lines : Index(a) = n =>
        l[a] = IF is_valid(d[n]) /\ h = a THEN d[n].data ELSE m[a]
  BY <1>3, Zenon DEF Coherent, SeenIn
<1>5. is_valid(d[n]) /\ ~is_dirty(d[n]) => d[n].data = m[h]
  BY DEF Coherent
<1> HIDE DEF h
<1>6. CASE is_dirty(d[n]) /\ is_valid(d[n])
  <2>1. M = [m EXCEPT ![h] = d[n].data]
    BY <1>6, Zenon DEF Evicted, h
  <2> QED BY <1>1, <1>2, <1>4, <1>6, <2>1 DEF Memories
<1>7. CASE ~(is_dirty(d[n]) /\ is_valid(d[n]))
  <2>1. M = m
    BY <1>7, Zenon DEF Evicted
  <2> QED BY <1>4, <1>5, <1>7, <2>1
<1> QED BY <1>6, <1>7

\* A place takes the line x, while memory m becomes M and the lines l become L: of
\* the lines that share the place, the one that x is for is right in x, the others
\* in memory.
Fits(x, n, m, l, M, L) ==
  /\ is_valid(x) => \E a \in Lines : Index(a) = n /\ Holds(x, a)
  /\ \A a \in Lines : Index(a) # n => M[a] = m[a] /\ L[a] = l[a]
  /\ \A a \in Lines : Index(a) = n =>
       IF Holds(x, a) THEN L[a] = x.data /\ (is_dirty(x) \/ M[a] = x.data)
       ELSE M[a] = L[a]

LEMMA PutLine ==
  ASSUME NEW d \in Caches, NEW m \in Memories, NEW l \in Memories,
         Coherent(d, m, l),
         NEW n \in Places, NEW x \in CacheLine, NEW M \in Memories, NEW L \in Memories,
         Fits(x, n, m, l, M, L)
  PROVE  [d EXCEPT ![n] = x] \in Caches /\ Coherent([d EXCEPT ![n] = x], M, L)
<1> DEFINE e == [d EXCEPT ![n] = x]
<1>1. e \in Caches /\ e[n] = x /\ \A k \in Places : k # n => e[k] = d[k]
  BY DEF Caches
<1> HIDE DEF e
<1> USE DEF Fits
<1>2. ASSUME NEW k \in Places, is_valid(e[k])
      PROVE  Home(e, k) \in Lines /\ Index(Home(e, k)) = k
  <2>1. CASE k = n
    <3>1. PICK a \in Lines : Index(a) = n /\ Holds(x, a)
      BY <1>1, <1>2, <2>1
    <3>2. Home(e, n) = a
      BY <1>1, <3>1, SeenPlace, ProbeHome
    <3> QED BY <2>1, <3>1, <3>2
  <2>2. CASE k # n
    BY <1>1, <1>2, <2>2 DEF Coherent, Home
  <2> QED BY <2>1, <2>2
<1>3. ASSUME NEW a \in Lines
      PROVE  SeenIn(e, M, a) = L[a]
  <2>1. CASE Index(a) = n
    <3>1. e[Index(a)] = x
      BY <1>1, <2>1
    <3>2. CASE Holds(x, a)
      <4>1. SeenIn(e, M, a) = e[Index(a)].data
        BY <1>1, <3>1, <3>2, SeenPlace
      <4> QED BY <2>1, <3>1, <3>2, <4>1
    <3>3. CASE ~Holds(x, a)
      <4>1. SeenIn(e, M, a) = M[a]
        BY <1>1, <3>1, <3>3, SeenPlace
      <4> QED BY <2>1, <3>3, <4>1
    <3> QED BY <3>2, <3>3
  <2>2. CASE Index(a) # n
    <3>1. SeenIn(d, m, a) = l[a]
      BY DEF Coherent
    <3>2. Index(a) \in Places /\ e[Index(a)] = d[Index(a)] /\ M[a] = m[a] /\ L[a] = l[a]
      BY <1>1, <2>2, SeenPlace
    <3>3. CASE Holds(d[Index(a)], a)
      <4>1. SeenIn(d, m, a) = d[Index(a)].data
        BY <3>3, SeenPlace
      <4>2. SeenIn(e, M, a) = e[Index(a)].data
        <5>1. Holds(e[Index(a)], a)
          BY <3>2, <3>3
        <5> QED BY <1>1, <5>1, SeenPlace
      <4> QED BY <3>1, <3>2, <4>1, <4>2, Zenon
    <3>4. CASE ~Holds(d[Index(a)], a)
      <4>1. SeenIn(d, m, a) = m[a]
        BY <3>4, SeenPlace
      <4>2. SeenIn(e, M, a) = M[a]
        <5>1. ~Holds(e[Index(a)], a)
          BY <3>2, <3>4
        <5> QED BY <1>1, <5>1, SeenPlace
      <4> QED BY <3>1, <3>2, <4>1, <4>2, Zenon
    <3> QED BY <3>3, <3>4
  <2> QED BY <2>1, <2>2
<1>4. ASSUME NEW k \in Places, is_valid(e[k]), ~is_dirty(e[k])
      PROVE  e[k].data = M[Home(e, k)]
  <2>1. Home(e, k) \in Lines /\ Index(Home(e, k)) = k
    BY <1>2, <1>4
  <2>2. CASE k = n
    <3>1. Holds(x, Home(e, n))
      <4>1. Home(e, n) \in Nat
        BY <2>1, <2>2 DEF Lines
      <4>2. Probe(e, Home(e, n))
        BY <1>1, <1>4, <2>1, <2>2, <4>1, ProbeHome
      <4> QED BY <1>1, <2>1, <2>2, <4>2, Zenon DEF Probe, Holds
    <3> QED BY <1>1, <1>4, <2>1, <2>2, <3>1
  <2>3. CASE k # n
    <3>1. Home(e, k) = Home(d, k) /\ e[k] = d[k]
      BY <1>1, <2>3 DEF Home
    <3>2. d[k].data = m[Home(d, k)]
      BY <1>4, <3>1 DEF Coherent
    <3> QED BY <2>1, <2>3, <3>1, <3>2
  <2> QED BY <2>2, <2>3
<1> QED BY <1>1, <1>2, <1>3, <1>4 DEF Coherent, e

\* The line that leaves a place is written back, and nothing valid takes it.
LEMMA DropLine ==
  ASSUME NEW d \in Caches, NEW m \in Memories, NEW l \in Memories,
         Coherent(d, m, l), NEW n \in Places, NEW x \in CacheLine, ~is_valid(x)
  PROVE  [d EXCEPT ![n] = x] \in Caches /\ Coherent([d EXCEPT ![n] = x], Evicted(d, m, n), l)
<1> DEFINE M == Evicted(d, m, n)
<1>1. M \in Memories /\ \A a \in Lines : M[a] = IF Index(a) = n THEN l[a] ELSE m[a]
  BY Evict, Zenon
<1> HIDE DEF M
<1>2. \A a \in Lines : ~Holds(x, a)
  BY DEF Holds
<1>3. Fits(x, n, m, l, M, l)
  BY <1>1, <1>2 DEF Fits
<1>4. [d EXCEPT ![n] = x] \in Caches /\ Coherent([d EXCEPT ![n] = x], M, l)
  BY <1>1, <1>3, PutLine
<1> QED BY <1>4 DEF M

\* A line of the cache is for one line of those that share its place.
LEMMA HoldsOne ==
  ASSUME NEW x \in CacheLine, NEW a \in Lines, NEW b \in Lines,
         Index(a) = Index(b), Holds(x, a)
  PROVE  Holds(x, b) <=> b = a
<1>1. a \in Nat /\ b \in Nat
  BY DEF Lines
<1> QED BY <1>1, OneLine DEF Holds

-----------------------------------------------------------------------------
(* The operations. *)

\* What an operation on the data cache owes to the instruction cache.
LEMMA FetchedOn ==
  ASSUME Fetched, icache' = icache,
         \A c \in CodeLines : synced'[c] # "stale" => ram'[c] = latest'[c],
         \A c \in CodeLines : synced'[c] = "synced" => synced[c] = "synced" /\ latest'[c] = latest[c]
  PROVE  Fetched'
<1> SUFFICES ASSUME NEW c \in CodeLines
             PROVE  /\ synced'[c] # "stale" => ram'[c] = latest'[c]
                    /\ synced'[c] = "synced" /\ Probe(icache', c)
                         => icache'[Index(c)].data = latest'[c]
  BY DEF Fetched
<1>1. synced'[c] = "synced" /\ Probe(icache', c) => icache'[Index(c)].data = latest'[c]
  <2> SUFFICES ASSUME synced'[c] = "synced", Probe(icache', c)
               PROVE  icache'[Index(c)].data = latest'[c]
    OBVIOUS
  <2>1. Probe(icache, c)
    BY Zenon
  <2>2. icache[Index(c)].data = latest[c]
    BY <2>1 DEF Fetched
  <2> QED BY <2>2
<1> QED BY <1>1

\* The lines of the program are lines of memory, and the history is theirs.
LEMMA CodePlaces ==
  ASSUME NEW c \in CodeLines
  PROVE  c \in Lines /\ c \in Nat /\ Index(c) \in Places
<1>1. c \in Lines
  BY VrCachesAssumption DEF Lines
<1> QED BY <1>1, AddressParts DEF Lines

\* The history of code: what a store notes, and what a write back publishes.
LEMMA History ==
  ASSUME CacheTypeOK
  PROVE  /\ \A a \in Lines, how \in {"stale", "written"} :
              /\ Noted(a, how) \in [CodeLines -> {"stale", "written", "synced"}]
              /\ \A c \in CodeLines : Noted(a, how)[c] = IF c = a THEN how ELSE synced[c]
         /\ \A S \in SUBSET Lines :
              /\ Published(S) \in [CodeLines -> {"stale", "written", "synced"}]
              /\ \A c \in CodeLines :
                   Published(S)[c] = IF c \in S /\ synced[c] = "stale" THEN "written" ELSE synced[c]
BY DEF CacheTypeOK, Noted, Published

\* A hit: the line is in its place, and memory has the others that share it.
LEMMA Hit ==
  ASSUME CachesInv, NEW a \in Lines, Probe(dcache, a)
  PROVE  /\ Holds(dcache[Index(a)], a) /\ dcache[Index(a)] \in CacheLine
         /\ dcache[Index(a)].data = latest[a]
         /\ \A b \in Lines : Index(b) = Index(a) /\ b # a => ram[b] = latest[b]
<1>1. dcache \in Caches /\ ram \in Memories /\ Coherent(dcache, ram, latest)
  BY DEF CachesInv, CacheTypeOK
<1>2. Holds(dcache[Index(a)], a) /\ dcache[Index(a)] \in CacheLine
  BY <1>1, SeenPlace DEF Caches
<1>3. \A b \in Lines : SeenIn(dcache, ram, b) = latest[b]
  BY <1>1 DEF Coherent
<1>4. dcache[Index(a)].data = latest[a]
  BY <1>1, <1>2, <1>3, SeenPlace
<1>5. ASSUME NEW b \in Lines, Index(b) = Index(a), b # a
      PROVE  ram[b] = latest[b]
  <2>1. ~Holds(dcache[Index(b)], b)
    BY <1>2, <1>5, HoldsOne
  <2>2. SeenIn(dcache, ram, b) = ram[b]
    BY <1>1, <2>1, SeenPlace
  <2> QED BY <1>3, <2>2
<1> QED BY <1>2, <1>4, <1>5

\* What a flush of a line leaves in memory.
LEMMA Flush ==
  ASSUME CachesInv, NEW n \in Places
  PROVE  /\ Flushed(n) = Evicted(dcache, ram, n)
         /\ Flushed(n) \in Memories
         /\ \A b \in Lines : Flushed(n)[b] = IF Index(b) = n THEN latest[b] ELSE ram[b]
<1> DEFINE M == Evicted(dcache, ram, n)
<1>1. M \in Memories /\ \A b \in Lines : M[b] = IF Index(b) = n THEN latest[b] ELSE ram[b]
  BY Evict DEF CachesInv, CacheTypeOK
<1>2. Flushed(n) = M
  BY Zenon DEF Flushed, ShouldFlush, WrittenBack, Evicted, HomeOf, Home
<1> HIDE DEF M
<1>3. Flushed(n) \in Memories /\ \A b \in Lines : Flushed(n)[b] = IF Index(b) = n THEN latest[b] ELSE ram[b]
  BY <1>1, <1>2
<1> QED BY <1>2, <1>3 DEF M

\* The place n takes the line x, and nothing of the instruction cache changes.
LEMMA Taken ==
  ASSUME CachesInv, NEW n \in Places, NEW x \in CacheLine,
         dcache' = [dcache EXCEPT ![n] = x],
         ram' \in Memories, latest' \in Memories,
         Fits(x, n, ram, latest, ram', latest'),
         UNCHANGED <<icache, taglo>>,
         synced' \in [CodeLines -> {"stale", "written", "synced"}],
         \A c \in CodeLines : synced'[c] # "stale" => ram'[c] = latest'[c],
         \A c \in CodeLines : synced'[c] = "synced" => synced[c] = "synced" /\ latest'[c] = latest[c]
  PROVE  CachesInv'
<1>1. CacheTypeOK /\ Coherent(dcache, ram, latest) /\ Fetched
  BY DEF CachesInv
<1>2. dcache' \in Caches /\ Coherent(dcache', ram', latest')
  BY <1>1, PutLine DEF CacheTypeOK
<1>3. Fetched'
  BY <1>1, FetchedOn
<1> QED BY <1>1, <1>2, <1>3 DEF CachesInv, CacheTypeOK

LEMMA Miss ==
  ASSUME CachesInv, NEW a \in Lines, DCM(a)
  PROVE  CachesInv'
<1> DEFINE n == Index(a)
           x == [metadata |-> validate_line(PageOf(a)), data |-> ram'[a]]
<1>0. a \in Nat /\ n \in Places /\ PageOf(a) \in Nat
  BY AddressParts DEF Lines
<1>1. CacheTypeOK /\ Fetched
  BY DEF CachesInv
<1>2. dcache' = [dcache EXCEPT ![n] = x] /\ UNCHANGED <<icache, taglo, latest, synced>>
  BY DEF DCM, Filled
<1>3. ram' \in Memories /\ \A b \in Lines : ram'[b] = IF Index(b) = n THEN latest[b] ELSE ram[b]
  BY <1>0, Flush DEF DCM
<1>4. x \in CacheLine /\ is_valid(x) /\ get_tag(x) = PageOf(a) /\ x.data = latest[a]
  <2>1. ram'[a] \in Contents /\ ram'[a] = latest[a]
    BY <1>3 DEF Memories
  <2> QED BY <1>0, <2>1, NewBits
<1> HIDE DEF x
<1>5. Fits(x, n, ram, latest, ram', latest')
  <2>1. Holds(x, a)
    BY <1>4 DEF Holds
  <2>2. \A b \in Lines : Index(b) = n =>
          IF Holds(x, b) THEN latest[b] = x.data /\ (is_dirty(x) \/ ram'[b] = x.data)
          ELSE ram'[b] = latest[b]
    BY <1>3, <1>4, <2>1, HoldsOne
  <2> QED BY <1>2, <1>3, <2>1, <2>2 DEF Fits
<1>6. \A c \in CodeLines : synced'[c] # "stale" => ram'[c] = latest'[c]
  BY <1>1, <1>2, <1>3, CodePlaces DEF Fetched
<1> QED BY <1>0, <1>1, <1>2, <1>3, <1>4, <1>5, <1>6, Taken DEF CacheTypeOK

LEMMA Store ==
  ASSUME CachesInv, NEW a \in Lines, NEW w \in Words, NEW v \in Values, StoreHit(a, w, v)
  PROVE  CachesInv'
<1> DEFINE n == Index(a)
           y == set_dirty(dcache[n])
           x == [y EXCEPT !.data[w] = v]
<1>0. n \in Places
  BY AddressParts DEF Lines
<1>1. CacheTypeOK /\ Fetched
  BY DEF CachesInv
<1>2. /\ Holds(dcache[n], a) /\ dcache[n] \in CacheLine /\ dcache[n].data = latest[a]
      /\ \A b \in Lines : Index(b) = n /\ b # a => ram[b] = latest[b]
  BY Hit DEF StoreHit
<1>3. /\ dcache' = [dcache EXCEPT ![n] = x]
      /\ latest' = [latest EXCEPT ![a][w] = v]
      /\ synced' = Noted(a, "stale")
      /\ UNCHANGED <<icache, ram, taglo>>
  BY Zenon DEF StoreHit
<1>4. /\ x \in CacheLine /\ is_valid(x) /\ is_dirty(x) /\ Holds(x, a)
      /\ x.data = [latest[a] EXCEPT ![w] = v]
  <2>1. y \in CacheLine /\ is_dirty(y) /\ is_valid(y) /\ get_tag(y) = PageOf(a) /\ y.data = latest[a]
    BY <1>2, Bits DEF Holds
  <2>2. PICK k \in Nat, c \in Contents : y = [metadata |-> k, data |-> c]
    BY <2>1 DEF CacheLine
  <2> HIDE DEF y
  <2>3. x = [metadata |-> k, data |-> [c EXCEPT ![w] = v]]
    BY <2>2
  <2>4. [c EXCEPT ![w] = v] \in Contents
    BY DEF Contents
  <2> QED BY <2>1, <2>2, <2>3, <2>4 DEF CacheLine, is_valid, is_dirty, get_tag, Holds
<1> HIDE DEF x
<1>5. /\ latest' \in Memories /\ latest'[a] = x.data
      /\ \A b \in Lines : b # a => latest'[b] = latest[b]
  BY <1>1, <1>3, <1>4 DEF CacheTypeOK, Memories, Contents
<1>6. Fits(x, n, ram, latest, ram', latest')
  <2>1. \A b \in Lines : Index(b) = n =>
          IF Holds(x, b) THEN latest'[b] = x.data /\ (is_dirty(x) \/ ram'[b] = x.data)
          ELSE ram'[b] = latest'[b]
    BY <1>2, <1>3, <1>4, <1>5, HoldsOne
  <2> QED BY <1>3, <1>4, <1>5, <2>1 DEF Fits
<1>7. /\ synced' \in [CodeLines -> {"stale", "written", "synced"}]
      /\ \A c \in CodeLines : synced'[c] = IF c = a THEN "stale" ELSE synced[c]
  BY <1>1, <1>3, History
<1>8. /\ \A c \in CodeLines : synced'[c] # "stale" => ram'[c] = latest'[c]
      /\ \A c \in CodeLines : synced'[c] = "synced" => synced[c] = "synced" /\ latest'[c] = latest[c]
  BY <1>1, <1>3, <1>5, <1>7, CodePlaces DEF Fetched
<1> QED BY <1>0, <1>1, <1>3, <1>4, <1>5, <1>6, <1>7, <1>8, Taken DEF CacheTypeOK

\* A store past the cache: the place keeps its line, which is for another.
LEMMA StorePast ==
  ASSUME CachesInv, NEW a \in Lines, NEW w \in Words, NEW v \in Values, UncachedStore(a, w, v)
  PROVE  CachesInv'
<1> DEFINE n == Index(a)
           x == dcache[n]
<1>0. n \in Places
  BY AddressParts DEF Lines
<1>1. CacheTypeOK /\ Fetched /\ Coherent(dcache, ram, latest)
  BY DEF CachesInv
<1>2. /\ ~Probe(dcache, a)
      /\ ram' = [ram EXCEPT ![a][w] = v]
      /\ latest' = [latest EXCEPT ![a][w] = v]
      /\ synced' = Noted(a, "written")
      /\ UNCHANGED <<dcache, icache, taglo>>
  BY Zenon DEF UncachedStore
<1>3. ~Holds(x, a) /\ ram[a] = latest[a]
  BY <1>1, <1>2, SeenPlace DEF Coherent, CacheTypeOK
<1>4. /\ ram' \in Memories /\ latest' \in Memories /\ ram'[a] = latest'[a]
      /\ \A b \in Lines : b # a => ram'[b] = ram[b] /\ latest'[b] = latest[b]
  BY <1>1, <1>2, <1>3 DEF CacheTypeOK, Memories, Contents
<1>5. x \in CacheLine /\ dcache' = [dcache EXCEPT ![n] = x]
  BY <1>0, <1>1, <1>2 DEF CacheTypeOK, Caches
<1>6. Fits(x, n, ram, latest, ram', latest')
  <2>1. is_valid(x) => \E b \in Lines : Index(b) = n /\ Holds(x, b)
    <3> SUFFICES ASSUME is_valid(x)
                 PROVE  \E b \in Lines : Index(b) = n /\ Holds(x, b)
      OBVIOUS
    <3>1. Home(dcache, n) \in Lines /\ Index(Home(dcache, n)) = n
      BY <1>0, <1>1 DEF Coherent
    <3>2. Home(dcache, n) \in Nat
      BY <3>1 DEF Lines
    <3>3. Probe(dcache, Home(dcache, n))
      BY <1>1, <3>1, <3>2, ProbeHome DEF CacheTypeOK
    <3> QED BY <3>1, <3>3 DEF Probe, Holds
  <2>2. ASSUME NEW b \in Lines, Index(b) = n
        PROVE  IF Holds(x, b) THEN latest'[b] = x.data /\ (is_dirty(x) \/ ram'[b] = x.data)
               ELSE ram'[b] = latest'[b]
    <3>1. CASE b = a
      BY <1>3, <1>4, <3>1
    <3>2. CASE b # a /\ Holds(x, b)
      <4>1. latest[b] = x.data
        BY <1>1, <2>2, <3>2, SeenPlace DEF Coherent, CacheTypeOK
      <4>2. Home(dcache, n) = b
        BY <1>1, <2>2, <3>2, SeenPlace, ProbeHome DEF CacheTypeOK
      <4>3. is_dirty(x) \/ x.data = ram[b]
        BY <1>0, <1>1, <3>2, <4>2 DEF Coherent, Holds
      <4> QED BY <1>4, <3>2, <4>1, <4>3
    <3>3. CASE b # a /\ ~Holds(x, b)
      <4>1. ram[b] = latest[b]
        BY <1>1, <2>2, <3>3, SeenPlace DEF Coherent, CacheTypeOK
      <4> QED BY <1>4, <3>3, <4>1
    <3> QED BY <3>1, <3>2, <3>3
  <2>3. \A b \in Lines : Index(b) # n => b # a
    OBVIOUS
  <2> QED BY <1>4, <2>1, <2>2, <2>3 DEF Fits
<1>7. /\ synced' \in [CodeLines -> {"stale", "written", "synced"}]
      /\ \A c \in CodeLines : synced'[c] = IF c = a THEN "written" ELSE synced[c]
  BY <1>1, <1>2, History
<1>8. /\ \A c \in CodeLines : synced'[c] # "stale" => ram'[c] = latest'[c]
      /\ \A c \in CodeLines : synced'[c] = "synced" => synced[c] = "synced" /\ latest'[c] = latest[c]
  BY <1>1, <1>4, <1>7, CodePlaces DEF Fetched
<1> HIDE DEF x
<1> QED BY <1>0, <1>2, <1>4, <1>5, <1>6, <1>7, <1>8, Taken

\* The place is flushed, and takes a line that is not valid: what was written there
\* is published.
LEMMA Dropped ==
  ASSUME CachesInv, NEW n \in Places, NEW x \in CacheLine, ~is_valid(x),
         dcache' = [dcache EXCEPT ![n] = x], ram' = Flushed(n),
         NEW S \in SUBSET Lines, \A a \in S : Index(a) = n, synced' = Published(S),
         UNCHANGED <<icache, taglo, latest>>
  PROVE  CachesInv'
<1>1. CacheTypeOK /\ Fetched
  BY DEF CachesInv
<1>2. ram' \in Memories /\ \A b \in Lines : ram'[b] = IF Index(b) = n THEN latest[b] ELSE ram[b]
  BY Flush
<1>3. Fits(x, n, ram, latest, ram', latest')
  BY <1>2 DEF Fits, Holds
<1>4. /\ synced' \in [CodeLines -> {"stale", "written", "synced"}]
      /\ \A c \in CodeLines :
           synced'[c] = IF c \in S /\ synced[c] = "stale" THEN "written" ELSE synced[c]
  BY <1>1, History
<1>5. /\ \A c \in CodeLines : synced'[c] # "stale" => ram'[c] = latest'[c]
      /\ \A c \in CodeLines : synced'[c] = "synced" => synced[c] = "synced" /\ latest'[c] = latest[c]
  BY <1>1, <1>2, <1>4, CodePlaces DEF Fetched
<1> QED BY <1>1, <1>2, <1>3, <1>4, <1>5, Taken DEF CacheTypeOK

LEMMA WriteBackInvalidate ==
  ASSUME CachesInv, NEW n \in Places, dc_wb_invalidate(n)
  PROVE  CachesInv'
<1> DEFINE x == IF is_valid(dcache[n]) THEN Clean(invalidate_line(dcache[n])) ELSE dcache[n]
           S == {a \in Lines : Index(a) = n}
<1>1. x \in CacheLine /\ ~is_valid(x)
  <2>1. dcache[n] \in CacheLine
    BY DEF CachesInv, CacheTypeOK, Caches
  <2>2. invalidate_line(dcache[n]) \in CacheLine /\ ~is_valid(invalidate_line(dcache[n]))
    BY <2>1, Bits
  <2> QED BY <2>1, <2>2, Bits
<1>2. /\ dcache' = [dcache EXCEPT ![n] = x] /\ ram' = Flushed(n) /\ synced' = Published(S)
      /\ UNCHANGED <<icache, taglo, latest>>
  BY Zenon DEF dc_wb_invalidate
<1>3. S \in SUBSET Lines /\ \A a \in S : Index(a) = n
  OBVIOUS
<1> HIDE DEF x, S
<1> QED BY <1>1, <1>2, <1>3, Dropped

LEMMA HitWriteBackInvalidate ==
  ASSUME CachesInv, NEW a \in Lines, dc_hit_wb_invalidate(a)
  PROVE  CachesInv'
<1> DEFINE n == Index(a)
           x == invalidate_line(dcache[n])
           S == {a}
<1>1. n \in Places
  BY AddressParts DEF Lines
<1>2. x \in CacheLine /\ ~is_valid(x)
  <2>1. dcache[n] \in CacheLine
    BY <1>1 DEF CachesInv, CacheTypeOK, Caches
  <2> QED BY <2>1, Bits
<1>3. /\ dcache' = [dcache EXCEPT ![n] = x] /\ ram' = Flushed(n) /\ synced' = Published(S)
      /\ UNCHANGED <<icache, taglo, latest>>
  BY Zenon DEF dc_hit_wb_invalidate
<1>4. S \in SUBSET Lines /\ \A b \in S : Index(b) = n
  OBVIOUS
<1> HIDE DEF x, S
<1> QED BY <1>1, <1>2, <1>3, <1>4, Dropped

LEMMA HitWriteBack ==
  ASSUME CachesInv, NEW a \in Lines, dc_hit_wb(a)
  PROVE  CachesInv'
<1> DEFINE n == Index(a)
           x == Clean(dcache[n])
<1>0. n \in Places
  BY AddressParts DEF Lines
<1>1. CacheTypeOK /\ Fetched
  BY DEF CachesInv
<1>2. Holds(dcache[n], a) /\ dcache[n] \in CacheLine /\ dcache[n].data = latest[a]
  BY Hit DEF dc_hit_wb
<1>3. /\ dcache' = [dcache EXCEPT ![n] = x] /\ ram' = Flushed(n) /\ synced' = Published({a})
      /\ UNCHANGED <<icache, taglo, latest>>
  BY Zenon DEF dc_hit_wb
<1>4. ram' \in Memories /\ \A b \in Lines : ram'[b] = IF Index(b) = n THEN latest[b] ELSE ram[b]
  BY <1>0, <1>3, Flush
<1>5. x \in CacheLine /\ Holds(x, a) /\ x.data = latest[a] /\ is_valid(x)
  BY <1>2, Bits DEF Holds
<1> HIDE DEF x
<1>6. Fits(x, n, ram, latest, ram', latest')
  <2>1. \A b \in Lines : Index(b) = n =>
          IF Holds(x, b) THEN latest[b] = x.data /\ (is_dirty(x) \/ ram'[b] = x.data)
          ELSE ram'[b] = latest[b]
    BY <1>4, <1>5, HoldsOne
  <2> QED BY <1>3, <1>4, <1>5, <2>1 DEF Fits
<1>7. /\ synced' \in [CodeLines -> {"stale", "written", "synced"}]
      /\ \A c \in CodeLines :
           synced'[c] = IF c \in {a} /\ synced[c] = "stale" THEN "written" ELSE synced[c]
  <2>1. {a} \in SUBSET Lines
    OBVIOUS
  <2> QED BY <1>1, <1>3, <2>1, History
<1>8. /\ \A c \in CodeLines : synced'[c] # "stale" => ram'[c] = latest'[c]
      /\ \A c \in CodeLines : synced'[c] = "synced" => synced[c] = "synced" /\ latest'[c] = latest[c]
  BY <1>1, <1>3, <1>4, <1>7, CodePlaces DEF Fetched
<1> QED BY <1>0, <1>1, <1>3, <1>4, <1>5, <1>6, <1>7, <1>8, Taken DEF CacheTypeOK

\* The line is dropped without a write back: its memory is what the program reads.
LEMMA HitInvalidate ==
  ASSUME CachesInv, NEW a \in Lines, dc_hit_invalidate(a)
  PROVE  CachesInv'
<1> DEFINE n == Index(a)
           x == invalidate_line(dcache[n])
<1>0. n \in Places
  BY AddressParts DEF Lines
<1>1. CacheTypeOK /\ Fetched
  BY DEF CachesInv
<1>2. /\ dcache[n] \in CacheLine
      /\ \A b \in Lines : Index(b) = n /\ b # a => ram[b] = latest[b]
  BY Hit DEF dc_hit_invalidate
<1>3. /\ dcache' = [dcache EXCEPT ![n] = x]
      /\ latest' = [latest EXCEPT ![a] = ram[a]]
      /\ synced' = IF latest[a] = ram[a] THEN Published({a}) ELSE Noted(a, "written")
      /\ UNCHANGED <<icache, ram, taglo>>
  BY Zenon DEF dc_hit_invalidate
<1>4. x \in CacheLine /\ ~is_valid(x)
  BY <1>2, Bits
<1> HIDE DEF x
<1>5. /\ latest' \in Memories /\ latest'[a] = ram[a]
      /\ \A b \in Lines : b # a => latest'[b] = latest[b]
  BY <1>1, <1>3 DEF CacheTypeOK, Memories
<1>6. Fits(x, n, ram, latest, ram', latest')
  BY <1>2, <1>3, <1>4, <1>5 DEF Fits, Holds
<1>7. /\ synced' \in [CodeLines -> {"stale", "written", "synced"}]
      /\ \A c \in CodeLines : c # a => synced'[c] = synced[c]
      /\ a \in CodeLines /\ synced'[a] = "synced" => synced[a] = "synced" /\ latest'[a] = latest[a]
  <2>1. {a} \in SUBSET Lines
    OBVIOUS
  <2>2. CASE latest[a] = ram[a]
    BY <1>1, <1>3, <1>5, <2>1, <2>2, History
  <2>3. CASE latest[a] # ram[a]
    BY <1>1, <1>3, <2>3, History
  <2> QED BY <2>2, <2>3
<1>8. /\ \A c \in CodeLines : synced'[c] # "stale" => ram'[c] = latest'[c]
      /\ \A c \in CodeLines : synced'[c] = "synced" => synced[c] = "synced" /\ latest'[c] = latest[c]
  BY <1>1, <1>3, <1>5, <1>7, CodePlaces DEF Fetched
<1> QED BY <1>0, <1>1, <1>3, <1>4, <1>5, <1>6, <1>7, <1>8, Taken DEF CacheTypeOK

\* The line is taken for an address, dirty, with whatever it held.
LEMMA CreateDirty ==
  ASSUME CachesInv, NEW a \in Lines, dc_create_dirty_ex(a)
  PROVE  CachesInv'
<1> DEFINE n == Index(a)
           x == [metadata |-> PageOf(a) * 4 + 3, data |-> dcache[n].data]
<1>0. n \in Places /\ PageOf(a) \in Nat
  BY AddressParts DEF Lines
<1>1. CacheTypeOK /\ Fetched
  BY DEF CachesInv
<1>2. PICK k \in Nat, w \in Contents : dcache[n] = [metadata |-> k, data |-> w]
  BY <1>0, <1>1 DEF CacheTypeOK, Caches, CacheLine
<1>3. /\ ram' = Flushed(n)
      /\ dcache' = [dcache EXCEPT ![n] = x]
      /\ latest' = [latest EXCEPT ![a] = x.data]
      /\ synced' = Noted(a, "stale")
      /\ UNCHANGED <<icache, taglo>>
  <2>1. dcache' = [dcache EXCEPT ![n] = [dcache[n] EXCEPT !.metadata = PageOf(a) * 4 + 3]]
    BY DEF dc_create_dirty_ex
  <2>2. [dcache[n] EXCEPT !.metadata = PageOf(a) * 4 + 3] = x
    BY <1>2
  <2> QED BY <2>1, <2>2 DEF dc_create_dirty_ex
<1>4. /\ x \in CacheLine /\ is_valid(x) /\ is_dirty(x) /\ get_tag(x) = PageOf(a)
      /\ x.data \in Contents
  <2>1. dcache[n].data \in Contents
    BY <1>2
  <2> QED BY <1>0, <2>1, NewBits
<1> HIDE DEF x
<1>5. ram' \in Memories /\ \A b \in Lines : ram'[b] = IF Index(b) = n THEN latest[b] ELSE ram[b]
  BY <1>0, <1>3, Flush
<1>6. /\ latest' \in Memories /\ latest'[a] = x.data
      /\ \A b \in Lines : b # a => latest'[b] = latest[b]
  BY <1>1, <1>3, <1>4 DEF CacheTypeOK, Memories
<1>7. Fits(x, n, ram, latest, ram', latest')
  <2>1. Holds(x, a)
    BY <1>4 DEF Holds
  <2>2. \A b \in Lines : Index(b) = n =>
          IF Holds(x, b) THEN latest'[b] = x.data /\ (is_dirty(x) \/ ram'[b] = x.data)
          ELSE ram'[b] = latest'[b]
    BY <1>4, <1>5, <1>6, <2>1, HoldsOne
  <2> QED BY <1>5, <1>6, <2>1, <2>2 DEF Fits
<1>8. /\ synced' \in [CodeLines -> {"stale", "written", "synced"}]
      /\ \A c \in CodeLines : synced'[c] = IF c = a THEN "stale" ELSE synced[c]
  BY <1>1, <1>3, History
<1>9. /\ \A c \in CodeLines : synced'[c] # "stale" => ram'[c] = latest'[c]
      /\ \A c \in CodeLines : synced'[c] = "synced" => synced[c] = "synced" /\ latest'[c] = latest[c]
  BY <1>1, <1>5, <1>6, <1>8, CodePlaces DEF Fetched
<1> QED BY <1>0, <1>1, <1>3, <1>4, <1>5, <1>6, <1>7, <1>8, <1>9, Taken DEF CacheTypeOK

\* The metadata that the program sets is what it has read from the line, or nothing.
LEMMA SetTag ==
  ASSUME CachesInv, NEW n \in Places, dc_set_taglo(n)
  PROVE  CachesInv'
<1> DEFINE x == [dcache[n] EXCEPT !.metadata = MetadataOf(taglo)]
<1>1. CacheTypeOK /\ Fetched /\ Coherent(dcache, ram, latest)
  BY DEF CachesInv
<1>2. PICK k \in Nat, c \in Contents : dcache[n] = [metadata |-> k, data |-> c]
  BY <1>1 DEF CacheTypeOK, Caches, CacheLine
<1>3. dcache' = [dcache EXCEPT ![n] = x] /\ UNCHANGED <<icache, ram, taglo, latest, synced>>
  BY Zenon DEF dc_set_taglo
<1>4. x = [metadata |-> MetadataOf(taglo), data |-> c]
  BY <1>2
<1>5. CASE taglo = TagLoOf(dcache[n].metadata)
  <2>1. MetadataOf(taglo) = k
    BY <1>2, <1>5, TagLoBack
  <2>2. dcache' = dcache
    BY <1>1, <1>2, <1>3, <1>4, <2>1 DEF CacheTypeOK, Caches
  <2> QED BY <1>1, <1>3, <2>2 DEF CachesInv, CacheTypeOK, Fetched, Probe
<1>6. CASE taglo = 0 /\ ~ShouldFlush(n)
  <2>1. MetadataOf(taglo) = 0
    BY <1>6 DEF MetadataOf
  <2>2. x \in CacheLine /\ ~is_valid(x)
    BY <1>4, <2>1 DEF CacheLine, is_valid
  <2> HIDE DEF x
  <2>3. Flushed(n) = ram
    BY <1>6, Zenon DEF Flushed
  <2>4. {} \in SUBSET Lines
    OBVIOUS
  <2>5. Published({}) = synced
    BY <1>1 DEF CacheTypeOK, Published
  <2> QED BY <1>3, <2>2, <2>3, <2>4, <2>5, Dropped
<1> QED BY <1>5, <1>6 DEF dc_set_taglo

-----------------------------------------------------------------------------
(* The instruction cache. *)

\* What an operation on the instruction cache owes: it keeps the data cache, and has
\* published code if it has it at all.
LEMMA InstructionSide ==
  ASSUME CachesInv, UNCHANGED <<dcache, ram, latest>>,
         icache' \in Caches, taglo' \in Nat,
         synced' \in [CodeLines -> {"stale", "written", "synced"}],
         \A c \in CodeLines : synced'[c] # "stale" => synced[c] # "stale",
         \A c \in CodeLines : synced'[c] = "synced" /\ Probe(icache', c) =>
           icache'[Index(c)].data = latest[c]
  PROVE  CachesInv'
BY DEF CachesInv, CacheTypeOK, Coherent, SeenIn, Probe, Home, Fetched

LEMMA Fetch ==
  ASSUME CachesInv, NEW a \in CodeLines, ICB(a)
  PROVE  CachesInv'
<1> DEFINE n == Index(a)
           x == [metadata |-> validate_line(PageOf(a)), data |-> ram[a]]
<1>0. a \in Lines /\ a \in Nat /\ n \in Places /\ PageOf(a) \in Nat
  BY CodePlaces, AddressParts
<1>1. CacheTypeOK /\ Fetched
  BY DEF CachesInv
<1>2. icache' = [icache EXCEPT ![n] = x] /\ UNCHANGED <<dcache, ram, taglo, latest, synced>>
  BY DEF ICB
<1>3. x \in CacheLine /\ is_valid(x) /\ get_tag(x) = PageOf(a) /\ x.data = ram[a]
  <2>1. ram[a] \in Contents
    BY <1>0, <1>1 DEF CacheTypeOK, Memories
  <2> QED BY <1>0, <2>1, NewBits
<1> HIDE DEF x
<1>4. icache' \in Caches /\ icache'[n] = x /\ \A k \in Places : k # n => icache'[k] = icache[k]
  BY <1>0, <1>1, <1>2, <1>3 DEF CacheTypeOK, Caches
<1>5. ASSUME NEW c \in CodeLines, synced'[c] = "synced", Probe(icache', c)
      PROVE  icache'[Index(c)].data = latest[c]
  <2>1. c \in Lines /\ c \in Nat /\ Index(c) \in Places
    BY CodePlaces
  <2>2. CASE Index(c) = n
    <3>1. get_tag(x) = PageOf(c)
      BY <1>4, <1>5, <2>2 DEF Probe
    <3>2. c = a
      BY <1>0, <1>3, <2>1, <2>2, <3>1, OneLine
    <3>3. ram[a] = latest[a]
      BY <1>1, <1>2, <1>5, <3>2 DEF Fetched
    <3> QED BY <1>3, <1>4, <2>2, <3>2, <3>3
  <2>3. CASE Index(c) # n
    <3>1. icache'[Index(c)] = icache[Index(c)]
      BY <1>4, <2>1, <2>3
    <3>2. Probe(icache, c)
      BY <1>5, <3>1, Zenon DEF Probe
    <3> QED BY <1>1, <1>2, <1>5, <3>1, <3>2 DEF Fetched
  <2> QED BY <2>2, <2>3
<1> QED BY <1>1, <1>2, <1>4, <1>5, InstructionSide DEF CacheTypeOK

\* The place of the instruction cache takes a line that is not valid.
LEMMA InstructionDropped ==
  ASSUME CachesInv, NEW n \in Places, NEW x \in CacheLine, ~is_valid(x),
         icache' = [icache EXCEPT ![n] = x], UNCHANGED <<dcache, ram, taglo, latest>>,
         synced' \in [CodeLines -> {"stale", "written", "synced"}],
         \A c \in CodeLines : synced'[c] # synced[c] =>
           synced[c] = "written" /\ synced'[c] = "synced" /\ Index(c) = n
  PROVE  CachesInv'
<1>1. CacheTypeOK /\ Fetched
  BY DEF CachesInv
<1>2. icache' \in Caches /\ icache'[n] = x /\ \A k \in Places : k # n => icache'[k] = icache[k]
  BY <1>1 DEF CacheTypeOK, Caches
<1>3. ASSUME NEW c \in CodeLines, synced'[c] = "synced", Probe(icache', c)
      PROVE  icache'[Index(c)].data = latest[c]
  <2>1. Index(c) # n
    BY <1>2, <1>3 DEF Probe
  <2>2. icache'[Index(c)] = icache[Index(c)]
    BY <1>2, <2>1, CodePlaces
  <2>3. Probe(icache, c)
    BY <1>3, <2>2, Zenon DEF Probe
  <2> QED BY <1>1, <1>3, <2>1, <2>2, <2>3 DEF Fetched
<1> QED BY <1>1, <1>2, <1>3, InstructionSide DEF CacheTypeOK

LEMMA Invalidate ==
  ASSUME CachesInv, NEW n \in Places, ic_invalidate(n)
  PROVE  CachesInv'
<1> DEFINE x == invalidate_line(icache[n])
<1>1. CacheTypeOK /\ icache[n] \in CacheLine
  BY DEF CachesInv, CacheTypeOK, Caches
<1>2. x \in CacheLine /\ ~is_valid(x)
  BY <1>1, Bits
<1>3. icache' = [icache EXCEPT ![n] = x] /\ UNCHANGED <<dcache, ram, taglo, latest>>
  BY Zenon DEF ic_invalidate
<1> HIDE DEF x
<1>4. /\ synced' \in [CodeLines -> {"stale", "written", "synced"}]
      /\ \A c \in CodeLines : synced'[c] # synced[c] =>
           synced[c] = "written" /\ synced'[c] = "synced" /\ Index(c) = n
  BY <1>1 DEF CacheTypeOK, ic_invalidate
<1> QED BY <1>2, <1>3, <1>4, InstructionDropped

LEMMA InvalidateHit ==
  ASSUME CachesInv, NEW a \in CodeLines, ic_invalidate_hit(a)
  PROVE  CachesInv'
<1> DEFINE n == Index(a)
           x == invalidate_line(icache[n])
<1>0. n \in Places
  BY CodePlaces
<1>1. CacheTypeOK /\ Fetched /\ icache[n] \in CacheLine
  BY <1>0 DEF CachesInv, CacheTypeOK, Caches
<1>2. x \in CacheLine /\ ~is_valid(x)
  BY <1>1, Bits
<1>3. /\ UNCHANGED <<dcache, ram, taglo, latest>>
      /\ icache' = IF Probe(icache, a) THEN [icache EXCEPT ![n] = x] ELSE icache
  BY Zenon DEF ic_invalidate_hit
<1> HIDE DEF x
<1>4. /\ synced' \in [CodeLines -> {"stale", "written", "synced"}]
      /\ \A c \in CodeLines : synced'[c] # synced[c] =>
           synced[c] = "written" /\ synced'[c] = "synced" /\ c = a
  BY <1>1 DEF CacheTypeOK, ic_invalidate_hit
<1>5. CASE Probe(icache, a)
  BY <1>0, <1>2, <1>3, <1>4, <1>5, InstructionDropped
<1>6. CASE ~Probe(icache, a)
  <2>1. icache' = icache
    BY <1>3, <1>6
  <2>2. \A c \in CodeLines : synced'[c] = "synced" /\ Probe(icache', c) =>
          icache'[Index(c)].data = latest[c]
    BY <1>1, <1>4, <1>6, <2>1 DEF Fetched
  <2> QED BY <1>1, <1>3, <1>4, <2>1, <2>2, InstructionSide DEF CacheTypeOK
<1> QED BY <1>5, <1>6

LEMMA ResetTag ==
  ASSUME CachesInv, NEW n \in Places, ic_set_taglo(n)
  PROVE  CachesInv'
<1> DEFINE k == (taglo \div 4) * 4 + ((taglo \div 2) % 2)
           x == [icache[n] EXCEPT !.metadata = k]
<1>1. CacheTypeOK /\ icache[n] \in CacheLine
  BY DEF CachesInv, CacheTypeOK, Caches
<1>2. k = 0
  BY DEF ic_set_taglo
<1>3. icache' = [icache EXCEPT ![n] = x] /\ UNCHANGED <<dcache, ram, taglo, latest, synced>>
  BY Zenon DEF ic_set_taglo
<1> HIDE DEF k
<1>4. x \in CacheLine /\ ~is_valid(x)
  BY <1>1, <1>2 DEF CacheLine, is_valid
<1> HIDE DEF x
<1>5. synced' \in [CodeLines -> {"stale", "written", "synced"}]
  BY <1>1, <1>3 DEF CacheTypeOK
<1> QED BY <1>3, <1>4, <1>5, InstructionDropped

-----------------------------------------------------------------------------
LEMMA CachesStart == VrCacheInit => CachesInv
<1> SUFFICES ASSUME VrCacheInit PROVE CachesInv
  OBVIOUS
<1> DEFINE z == [w \in Words |-> 0]
           x == [metadata |-> 0, data |-> z]
<1>1. z \in Contents
  BY VrCachesAssumption DEF Contents
<1>2. /\ dcache = [n \in Places |-> x] /\ icache = dcache
      /\ ram = [a \in Lines |-> z] /\ latest = ram
      /\ taglo = 0 /\ synced = [a \in CodeLines |-> "synced"]
  BY DEF VrCacheInit, Places
<1> HIDE DEF z
<1>3. x \in CacheLine /\ ~is_valid(x)
  BY <1>1 DEF CacheLine, is_valid
<1> HIDE DEF x
<1>4. CacheTypeOK
  BY <1>1, <1>2, <1>3 DEF CacheTypeOK, Caches, Memories
<1>5. \A a \in Lines : ~Probe(dcache, a)
  BY <1>2, <1>3, AddressParts DEF Probe, Lines
<1>6. Coherent(dcache, ram, latest)
  BY <1>2, <1>3, <1>5 DEF Coherent, SeenIn
<1>7. Fetched
  BY <1>2, <1>5, CodePlaces DEF Fetched
<1> QED BY <1>4, <1>6, <1>7 DEF CachesInv

LEMMA CachesStep ==
  ASSUME CachesInv, [VrCacheNext]_cacheVars
  PROVE  CachesInv'
<1>1. CASE \E a \in Lines :
             \/ DCM(a) \/ dc_hit_invalidate(a)
             \/ dc_hit_wb_invalidate(a) \/ dc_hit_wb(a) \/ dc_create_dirty_ex(a)
             \/ \E w \in Words, v \in Values : StoreHit(a, w, v) \/ UncachedStore(a, w, v)
  BY <1>1, Miss, HitInvalidate, HitWriteBackInvalidate, HitWriteBack, CreateDirty, Store, StorePast
<1>2. CASE \E a \in CodeLines : ICB(a) \/ ic_invalidate_hit(a)
  BY <1>2, Fetch, InvalidateHit
<1>3. CASE \E n \in Places :
             ic_invalidate(n) \/ dc_wb_invalidate(n) \/ dc_get_taglo(n) \/ dc_set_taglo(n) \/ ic_set_taglo(n)
  <2>1. ASSUME NEW n \in Places, dc_get_taglo(n)
        PROVE  CachesInv'
    <3>1. taglo' \in Nat
      BY <2>1, TagLoBack DEF dc_get_taglo, CachesInv, CacheTypeOK, Caches, CacheLine
    <3> QED BY <2>1, <3>1, InstructionSide DEF dc_get_taglo, CachesInv, CacheTypeOK, Fetched
  <2> QED BY <1>3, <2>1, Invalidate, WriteBackInvalidate, SetTag, ResetTag
<1>4. CASE UNCHANGED cacheVars
  BY <1>4 DEF cacheVars, CachesInv, CacheTypeOK, Coherent, SeenIn, Probe, Home, Fetched
<1> QED BY <1>1, <1>2, <1>3, <1>4 DEF VrCacheNext, Places

\* What is seen, what a clean line holds and what is fetched, from the invariant.
LEMMA CachesSeen == CachesInv => CachesRight
<1> SUFFICES ASSUME CachesInv PROVE CachesRight
  OBVIOUS
<1>1. Coherent(dcache, ram, latest) /\ Fetched
  BY DEF CachesInv
<1>2. ReadsLatest
  BY <1>1, Zenon DEF ReadsLatest, Seen, SeenIn, Coherent
<1>3. CleanIsMemory
  BY <1>1, Zenon DEF CleanIsMemory, HomeOf, Home, Coherent, Places
<1>4. CodeFresh
  BY <1>1 DEF CodeFresh, Fetched
<1> QED BY <1>2, <1>3, <1>4 DEF CachesRight

\* CachesRight: with caches and lines of any size, the program reads back what it
\* last wrote through any order of fills, evictions, write backs, invalidations and
\* tag writes; a clean line is memory's; and code that was written back and then
\* invalidated in the instruction cache is what is fetched.
THEOREM CachesAlwaysRight == VrCacheSpec => []CachesRight
<1>1. VrCacheInit => CachesInv
  BY CachesStart
<1>2. CachesInv /\ [VrCacheNext]_cacheVars => CachesInv'
  BY CachesStep
<1>3. CachesInv => CachesRight
  BY CachesSeen
<1> QED BY <1>1, <1>2, <1>3, PTL DEF VrCacheSpec
-----------------------------------------------------------------------------
(***************************************************************************)
(* Segments: get_segment with its numbers worked out. Lemmas about numbers *)
(* take an address as a natural number below the size of the space.        *)
(***************************************************************************)

\* The settings of STATUS.
LEMMA ModeTypes ==
  ASSUME NEW s \in StatusValues
  PROVE  /\ ModeOf(s) \in Modes /\ Use64(s) \in BOOLEAN
         /\ ModeOf(s) = "kernel" => Use64(s) = s.kx
         /\ ModeOf(s) = "supervisor" => Use64(s) = s.sx
         /\ ModeOf(s) = "user" => Use64(s) = s.ux
<1>1. /\ s.exl \in BOOLEAN /\ s.erl \in BOOLEAN /\ s.ksu \in Modes
      /\ s.kx \in BOOLEAN /\ s.sx \in BOOLEAN /\ s.ux \in BOOLEAN
  BY DEF StatusValues
<1>2. ModeOf(s) \in Modes
  BY <1>1 DEF ModeOf, Modes
<1> QED BY <1>1, <1>2 DEF Use64, Modes

\* Which addresses are in which segment.
LEMMA InsideIs ==
  ASSUME NEW a \in Nat, a < 8192
  PROVE  /\ Inside(a, USEG) <=> a \in 0 .. 15
         /\ Inside(a, XUSEG) <=> a \in 0 .. 63
         /\ Inside(a, XSSEG) <=> a \in 2048 .. 2111
         /\ Inside(a, XKSEG) <=> a \in 6144 .. 6207
         /\ ~ Inside(a, default_segment)
<1>1. Inside(a, USEG) <=> a \in 0 .. 15
  BY DEF USEG, Segment, Inside, Minus, VSize, V31, V32, V40, V59, V62, V63
<1>2. Inside(a, XUSEG) <=> a \in 0 .. 63
  BY DEF XUSEG, Segment, Inside, Minus, VSize, V31, V32, V40, V59, V62, V63
<1>3. Inside(a, XSSEG) <=> a \in 2048 .. 2111
  BY DEF XSSEG, Segment, Inside, Minus, VSize, V31, V32, V40, V59, V62, V63
<1>4. Inside(a, XKSEG) <=> a \in 6144 .. 6207
  BY DEF XKSEG, Segment, Inside, Minus, VSize, V31, V32, V40, V59, V62, V63
<1>5. ~ Inside(a, default_segment)
  BY DEF default_segment, Segment, Inside, Minus, VSize
<1> QED BY <1>1, <1>2, <1>3, <1>4, <1>5

LEMMA InsideKSEG ==
  ASSUME NEW a \in Nat, a < 8192, NEW n \in Nat, n < 4
  PROVE  Inside(a, KSEGs(n)) <=> a >= 8176 + 4 * n /\ a < 8180 + 4 * n
<1>1. KSEGs(n).start = VSize - V31 + n * V29 /\ KSEGs(n).length = V29
  BY DEF KSEGs, Segment
<1>2. (a + VSize - (VSize - V31 + n * V29)) % VSize < V29 <=> a >= 8176 + 4 * n /\ a < 8180 + 4 * n
  BY DEF VSize, V31, V29
<1> QED BY <1>1, <1>2 DEF Inside, Minus

LEMMA InsideXKPHYS ==
  ASSUME NEW a \in Nat, a < 8192, NEW n \in Nat, n < 8
  PROVE  Inside(a, XKPHYS(n)) <=> a >= 4096 + 256 * n /\ a < 4128 + 256 * n
  BY DEF XKPHYS, Segment, Inside, Minus, VSize, V32, V59, V63

\* kernel_segs_lut, by the address.
LEMMA KernelSegmentIs ==
  ASSUME NEW a \in Nat, a < 8192
  PROVE  /\ a \in 6144 .. 6191 => IfInside(a, KernelSegment(a)) = XKSEG
         /\ \A n \in Nat : n < 8 /\ a \in 4096 + 256 * n .. 4127 + 256 * n =>
              IfInside(a, KernelSegment(a)) = XKPHYS(n)
         /\ a \in 8184 .. 8187 => IfInside(a, KernelSegment(a)) = KSEGs(2)
         /\ /\ a \notin 6144 .. 6191
            /\ \A n \in Nat : n < 8 => a \notin 4096 + 256 * n .. 4127 + 256 * n
            /\ a \notin 8184 .. 8187
            => IfInside(a, KernelSegment(a)) = NULL
<1> DEFINE n == (a \div 256) % 16
<1>1. a \in Nat /\ a < 8192
  OBVIOUS
<1>2. Minus(a, V63) < V62 + V40 - V31 <=> a \in 4096 .. 6191
  <2>1. (a + 8192 - 4096) % 8192 < 2096 <=> a \in 4096 .. 6191
    BY <1>1
  <2>2. V62 + V40 - V31 = 2096
    BY DEF V62, V40, V31
  <2> QED BY <2>1, <2>2 DEF Minus, VSize, V63
<1>3. n \in Nat /\ n < 16
  BY <1>1
<1>4. a \in 4096 .. 6143 => n < 8 /\ a \in 4096 + 256 * n .. 4351 + 256 * n
  BY <1>1
<1>5. a \in 6144 .. 6191 => n = 8
  BY <1>1
<1>6. a \in 4096 .. 6191 => KernelSegment(a) = IF n < 8 THEN XKPHYS(n) ELSE XKSEG
  BY <1>2 DEF KernelSegment, V59
<1>7. a \notin 4096 .. 6191 => KernelSegment(a) = KSEGs(2)
  BY <1>2 DEF KernelSegment
<1> HIDE DEF n
<1>8. CASE a \in 6144 .. 6191
  <2>1. KernelSegment(a) = XKSEG
    BY <1>5, <1>6, <1>8
  <2>2. Inside(a, XKSEG)
    BY <1>8, InsideIs
  <2> QED BY <1>1, <1>8, <2>1, <2>2 DEF IfInside
<1>9. CASE a \in 4096 .. 6143
  <2>1. KernelSegment(a) = XKPHYS(n) /\ n \in Nat /\ n < 8
    BY <1>1, <1>3, <1>4, <1>6, <1>9
  <2>2. \A m \in Nat : m < 8 /\ a \in 4096 + 256 * m .. 4127 + 256 * m => m = n
    BY <1>1, <1>4, <1>9, <2>1
  <2>3. Inside(a, XKPHYS(n)) <=> a >= 4096 + 256 * n /\ a < 4128 + 256 * n
    BY <2>1, InsideXKPHYS
  <2> QED BY <1>1, <1>9, <2>1, <2>2, <2>3 DEF IfInside
<1>10. CASE a \notin 4096 .. 6191
  <2>1. \A m \in Nat : m < 8 => a \notin 4096 + 256 * m .. 4127 + 256 * m
    BY <1>1, <1>10
  <2>2. KernelSegment(a) = KSEGs(2)
    BY <1>7, <1>10
  <2>3. Inside(a, KSEGs(2)) <=> a >= 8176 + 4 * 2 /\ a < 8180 + 4 * 2
    BY InsideKSEG
  <2> QED BY <1>1, <1>10, <2>1, <2>2, <2>3 DEF IfInside
<1> QED BY <1>1, <1>8, <1>9, <1>10

LEMMA SignExtendedIs ==
  ASSUME NEW a \in Nat, a < 8192
  PROVE  SignExtended(a) = a <=> a < 16 \/ a >= 8176
<1>1. (IF a % 32 >= 16 THEN 8192 - 32 + (a % 32) ELSE a % 32) = a <=> a < 16 \/ a >= 8176
  OBVIOUS
<1> QED BY <1>1 DEF SignExtended, V32, V31, VSize

\* get_segment, with the numbers worked out.
LEMMA SegmentIs ==
  ASSUME NEW a \in Nat, a < 8192, NEW s \in StatusValues
  PROVE  get_segment(a, s) =
           IF ~ Use64(s) /\ a >= 16 /\ a < 8176 THEN NULL
           ELSE IF a < (IF Use64(s) THEN 64 ELSE 16) THEN IF Use64(s) THEN XUSEG ELSE USEG
           ELSE IF ModeOf(s) = "user" THEN NULL
           ELSE IF a >= 2048 /\ a < 2112 THEN XSSEG
           ELSE IF ModeOf(s) = "supervisor" THEN IF a >= 8184 /\ a < 8188 THEN KSEGs(2) ELSE NULL
           ELSE IF a >= 8176 THEN KSEGs((a \div 4) % 4)
           ELSE IfInside(a, KernelSegment(a))
<1>1. SignExtended(a) = a <=> a < 16 \/ a >= 8176
  BY SignExtendedIs
<1>2. (IF Use64(s) THEN XUSEG ELSE USEG).length = IF Use64(s) THEN 64 ELSE 16
  BY DEF XUSEG, USEG, Segment, V40, V31
<1>3. a \div V40 = V62 \div V40 <=> a >= 2048 /\ a < 2112
  BY DEF V40, V62
<1>4. KSEGs(0).start = 8176 /\ V29 = 4
  BY DEF KSEGs, Segment, VSize, V31, V29
<1>5. Inside(a, KSEGs(2)) <=> a >= 8176 + 4 * 2 /\ a < 8180 + 4 * 2
  BY InsideKSEG
<1> QED BY <1>1, <1>2, <1>3, <1>4, <1>5 DEF get_segment, IfInside

\* The addresses that some setting maps: bits 6 to 10 follow from the region and
\* the rest, so the TLB need not look at them.
MappedAt(a) == a < 64 \/ (a >= 2048 /\ a < 2112) \/ (a >= 6144 /\ a < 6192) \/ a >= 8184

LEMMA SegmentValues ==
  /\ NULL.name = "NULL"
  /\ USEG.name = "useg" /\ XUSEG.name = "xuseg" /\ XSSEG.name = "xsseg" /\ XKSEG.name = "xkseg"
  /\ \A n \in Nat : n < 8 => XKPHYS(n).name = "xkphys" /\ ~ XKPHYS(n).mapped
  /\ \A n \in Nat : n < 4 => KSEGs(n).name # "NULL" /\ (KSEGs(n).mapped <=> n >= 2)
  /\ USEG.xmode = "ux" /\ XUSEG.xmode = "ux" /\ XSSEG.xmode = "sx" /\ XKSEG.xmode = "kx"
<1>1. NULL.name = "NULL"
  BY DEF NULL
<1>2. /\ USEG.name = "useg" /\ XUSEG.name = "xuseg" /\ XSSEG.name = "xsseg" /\ XKSEG.name = "xkseg"
      /\ USEG.xmode = "ux" /\ XUSEG.xmode = "ux" /\ XSSEG.xmode = "sx" /\ XKSEG.xmode = "kx"
  BY DEF USEG, XUSEG, XSSEG, XKSEG, Segment
<1>3. ASSUME NEW n \in Nat PROVE XKPHYS(n).name = "xkphys" /\ XKPHYS(n).mapped = FALSE
  BY DEF XKPHYS, Segment
<1>4. ASSUME NEW n \in Nat, n < 4 PROVE KSEGs(n).name # "NULL" /\ KSEGs(n).mapped = (n >= 2)
  <2>1. KSEGs(n).name = <<"ckseg0", "ckseg1", "csseg", "ckseg3">>[n + 1] /\ KSEGs(n).mapped = (n >= 2)
    BY DEF KSEGs, Segment
  <2>2. n = 0 \/ n = 1 \/ n = 2 \/ n = 3
    BY <1>4
  <2> QED BY <2>1, <2>2
<1> QED BY <1>1, <1>2, <1>3, <1>4

LEMMA KernelMapped ==
  ASSUME NEW a \in Nat, a < 8192, IfInside(a, KernelSegment(a)) # NULL,
         IfInside(a, KernelSegment(a)).mapped
  PROVE  (a >= 6144 /\ a < 6192) \/ (a >= 8184 /\ a < 8188)
<1>1. CASE \E n \in Nat : n < 8 /\ a \in 4096 + 256 * n .. 4127 + 256 * n
  BY <1>1, KernelSegmentIs, SegmentValues
<1> QED BY <1>1, KernelSegmentIs

LEMMA MappedOnly ==
  ASSUME NEW a \in Nat, a < 8192, NEW s \in StatusValues,
         get_segment(a, s) # NULL, get_segment(a, s).mapped
  PROVE  MappedAt(a)
<1>1. CASE a >= 8176 /\ a < 8184
  <2>1. (a \div 4) % 4 \in Nat /\ (a \div 4) % 4 < 2
    BY <1>1
  <2>2. ~ KSEGs((a \div 4) % 4).mapped
    BY <2>1, SegmentValues
  <2> QED BY <1>1, <2>2, SegmentIs
<1>2. CASE a >= 64 /\ a < 8176
  BY <1>2, SegmentIs, KernelMapped DEF MappedAt
<1> QED BY <1>1, <1>2 DEF MappedAt

\* Addresses of one segment have the same segment.
LEMMA SameSegment ==
  ASSUME NEW a \in Nat, a < 8192, NEW b \in Nat, b < 8192, NEW s \in StatusValues,
         MappedAt(a), get_segment(b, s) # NULL, get_segment(b, s).mapped,
         Inside(a, get_segment(b, s))
  PROVE  get_segment(a, s) = get_segment(b, s)
<1>1. CASE b < (IF Use64(s) THEN 64 ELSE 16)
  <2>1. get_segment(b, s) = IF Use64(s) THEN XUSEG ELSE USEG
    BY <1>1, SegmentIs
  <2>2. a < (IF Use64(s) THEN 64 ELSE 16)
    BY <2>1, InsideIs
  <2> QED BY <2>1, <2>2, SegmentIs
<1>2. CASE b >= (IF Use64(s) THEN 64 ELSE 16) /\ b < 8176
  <2>1. Use64(s) /\ ModeOf(s) # "user" /\ b >= 64
    BY <1>2, SegmentIs
  <2>2. CASE b >= 2048 /\ b < 2112
    <3>1. get_segment(b, s) = XSSEG
      BY <2>1, <2>2, SegmentIs
    <3>2. a >= 2048 /\ a < 2112
      BY <3>1, InsideIs
    <3> QED BY <2>1, <3>1, <3>2, SegmentIs
  <2>3. CASE ~ (b >= 2048 /\ b < 2112)
    <3>1. ModeOf(s) # "supervisor" /\ get_segment(b, s) = IfInside(b, KernelSegment(b))
      BY <1>2, <2>1, <2>3, SegmentIs
    <3>2. b >= 6144 /\ b < 6192
      BY <1>2, <3>1, KernelMapped
    <3>3. get_segment(b, s) = XKSEG
      BY <3>1, <3>2, KernelSegmentIs
    <3>4. a >= 6144 /\ a < 6192
      BY <3>3, InsideIs DEF MappedAt
    <3>5. IfInside(a, KernelSegment(a)) = XKSEG
      BY <3>4, KernelSegmentIs
    <3> QED BY <2>1, <3>1, <3>3, <3>4, <3>5, SegmentIs
  <2> QED BY <2>2, <2>3
<1>3. CASE b >= 8176
  <2> DEFINE n == (b \div 4) % 4
  <2>1. n \in Nat /\ n < 4 /\ b >= 8176 + 4 * n /\ b < 8180 + 4 * n
    BY <1>3
  <2>2. \A m \in Nat : m < 4 /\ a >= 8176 + 4 * m /\ a < 8180 + 4 * m => (a \div 4) % 4 = m
    OBVIOUS
  <2>3. ModeOf(s) # "user" /\ get_segment(b, s) = KSEGs(n)
    BY <1>3, <2>1, SegmentIs
  <2> HIDE DEF n
  <2>4. a >= 8176 + 4 * n /\ a < 8180 + 4 * n
    BY <2>1, <2>3, InsideKSEG
  <2>5. (a \div 4) % 4 = n
    BY <2>1, <2>2, <2>4
  <2>6. CASE ModeOf(s) = "supervisor"
    <3>1. b >= 8184 /\ b < 8188
      BY <1>3, <2>6, SegmentIs
    <3>2. n = 2
      BY <2>1, <3>1
    <3> QED BY <2>3, <2>4, <2>6, <3>2, SegmentIs
  <2>7. CASE ModeOf(s) # "supervisor"
    BY <2>1, <2>3, <2>4, <2>5, <2>7, SegmentIs
  <2> QED BY <2>6, <2>7
<1> QED BY <1>1, <1>2, <1>3

\* The setting of an address's segment is the one that get_segment looks at.
LEMMA ExtendsRight ==
  ASSUME NEW a \in Nat, a < 8192, NEW s \in StatusValues,
         Use64(s) => s.ux /\ (ModeOf(s) # "user" => s.sx),
         get_segment(a, s) # NULL, get_segment(a, s).mapped
  PROVE  \/ SignExtended(a) = a
         \/ get_segment(a, s).xmode = "ux" /\ s.ux
         \/ get_segment(a, s).xmode = "sx" /\ s.sx
         \/ get_segment(a, s).xmode = "kx" /\ s.kx
<1>1. CASE a < 16 \/ a >= 8176
  BY <1>1, SignExtendedIs
<1>2. CASE a >= 16 /\ a < 8176
  <2>1. Use64(s)
    BY <1>2, SegmentIs
  <2>2. CASE a < 64
    BY <1>2, <2>1, <2>2, SegmentIs, SegmentValues
  <2>3. CASE a >= 64
    <3>1. ModeOf(s) # "user"
      BY <1>2, <2>1, <2>3, SegmentIs
    <3>2. CASE a >= 2048 /\ a < 2112
      BY <1>2, <2>1, <2>3, <3>1, <3>2, SegmentIs, SegmentValues
    <3>3. CASE ~ (a >= 2048 /\ a < 2112)
      <4>1. ModeOf(s) # "supervisor" /\ get_segment(a, s) = IfInside(a, KernelSegment(a))
        BY <1>2, <2>1, <2>3, <3>1, <3>3, SegmentIs
      <4>2. a >= 6144 /\ a < 6192
        BY <1>2, <4>1, KernelMapped
      <4>3. get_segment(a, s) = XKSEG
        BY <4>1, <4>2, KernelSegmentIs
      <4>4. s.kx
        BY <2>1, <3>1, <4>1, ModeTypes DEF Modes
      <4> QED BY <4>3, <4>4, SegmentValues
    <3> QED BY <3>2, <3>3
  <2> QED BY <2>2, <2>3
<1> QED BY <1>1, <1>2

-----------------------------------------------------------------------------
(* The map of the instruction set, and SegmentsRight. *)

\* Where the map of the instruction set has a region, by its name.
ManualHas(a, mode, wide, x) ==
  \/ x = "useg" /\ ~ wide /\ a < 16
  \/ x = "xuseg" /\ wide /\ a < 64
  \/ mode # "user" /\ x = "csseg" /\ a >= 8184 /\ a < 8188
  \/ mode # "user" /\ wide /\ x = "xsseg" /\ a >= 2048 /\ a < 2112
  \/ mode = "kernel" /\ x = "ckseg0" /\ a >= 8176 /\ a < 8180
  \/ mode = "kernel" /\ x = "ckseg1" /\ a >= 8180 /\ a < 8184
  \/ mode = "kernel" /\ x = "ckseg3" /\ a >= 8188
  \/ mode = "kernel" /\ wide /\ x = "xkseg" /\ a >= 6144 /\ a < 6192
  \/ /\ mode = "kernel" /\ wide /\ x = "xkphys"
     /\ \E n \in Nat : n < 8 /\ a \in 4096 + 256 * n .. 4127 + 256 * n

LEMMA ManualIs ==
  ASSUME NEW a \in Nat, a < 8192, NEW mode \in Modes, NEW wide \in BOOLEAN, NEW x
  PROVE  x \in ManualNames(a, mode, wide) <=> ManualHas(a, mode, wide, x)
<1> DEFINE At(r) == r.name = x /\ a >= r.first /\ a <= r.last
<1>1. \A r \in ManualMap(mode, wide) : r.first \in Int /\ r.last \in Int
  BY DEF ManualMap, Region, VSize, V29, V31, V32, V40, V59, V62, V63
<1>2. x \in ManualNames(a, mode, wide) <=> \E r \in ManualMap(mode, wide) : At(r)
  <2>1. \A r \in ManualMap(mode, wide) : a \in r.first .. r.last <=> a >= r.first /\ a <= r.last
    BY <1>1
  <2>2. x \in ManualNames(a, mode, wide) <=>
          \E r \in ManualMap(mode, wide) : r.name = x /\ a \in r.first .. r.last
    BY DEF ManualNames
  <2> QED BY <2>1, <2>2
<1>3. ASSUME NEW r \in ManualMap(mode, wide), At(r) PROVE ManualHas(a, mode, wide, x)
  <2>1. \/ ~ wide /\ r = Region("useg", 0, V31 - 1)
        \/ wide /\ r = Region("xuseg", 0, V40 - 1)
        \/ mode # "user" /\ r = Region("csseg", VSize - 2 * V29, VSize - V29 - 1)
        \/ mode # "user" /\ wide /\ r = Region("xsseg", V62, V62 + V40 - 1)
        \/ mode = "kernel" /\ r = Region("ckseg0", VSize - 4 * V29, VSize - 3 * V29 - 1)
        \/ mode = "kernel" /\ r = Region("ckseg1", VSize - 3 * V29, VSize - 2 * V29 - 1)
        \/ mode = "kernel" /\ r = Region("ckseg3", VSize - V29, VSize - 1)
        \/ mode = "kernel" /\ wide /\ r = Region("xkseg", V63 + V62, V63 + V62 + V40 - V31 - 1)
        \/ mode = "kernel" /\ wide /\ \E n \in 0 .. 7 :
             r = Region("xkphys", V63 + n * V59, V63 + n * V59 + V32 - 1)
    BY <1>3 DEF ManualMap
  <2>2. CASE mode = "kernel" /\ wide /\ \E n \in 0 .. 7 :
               r = Region("xkphys", V63 + n * V59, V63 + n * V59 + V32 - 1)
    <3>1. PICK n \in 0 .. 7 : r = Region("xkphys", V63 + n * V59, V63 + n * V59 + V32 - 1)
      BY <2>2
    <3>2. x = "xkphys" /\ a >= 4096 + n * 256 /\ a <= 4096 + n * 256 + 31
      BY <1>3, <3>1 DEF Region, V32, V59, V63
    <3>3. \E k \in Nat : k < 8 /\ a \in 4096 + 256 * k .. 4127 + 256 * k
      <4>1. n \in Nat /\ n < 8 /\ a \in 4096 + 256 * n .. 4127 + 256 * n
        BY <3>2
      <4> QED BY <4>1
    <3> QED BY <2>2, <3>2, <3>3 DEF ManualHas
  <2>3. CASE ~ (mode = "kernel" /\ wide /\ \E n \in 0 .. 7 :
                  r = Region("xkphys", V63 + n * V59, V63 + n * V59 + V32 - 1))
    BY <1>3, <2>1, <2>3 DEF ManualHas, Region, VSize, V29, V31, V40, V62, V63
  <2> QED BY <2>2, <2>3
<1>4. ASSUME ManualHas(a, mode, wide, x) PROVE \E r \in ManualMap(mode, wide) : At(r)
  <2> DEFINE Has(name, first, last) == x = name /\ a >= first /\ a <= last
             Found(name, first, last) == Region(name, first, last) \in ManualMap(mode, wide)
  <2>1. ASSUME NEW name, NEW first, NEW last, Has(name, first, last), Found(name, first, last)
        PROVE  \E r \in ManualMap(mode, wide) : At(r)
    <3>1. At(Region(name, first, last))
      BY <2>1 DEF Region
    <3> QED BY <2>1, <3>1
  <2>2. /\ ~ wide => Found("useg", 0, V31 - 1)
        /\ wide => Found("xuseg", 0, V40 - 1)
        /\ mode # "user" => Found("csseg", VSize - 2 * V29, VSize - V29 - 1)
        /\ mode # "user" /\ wide => Found("xsseg", V62, V62 + V40 - 1)
        /\ mode = "kernel" =>
             /\ Found("ckseg0", VSize - 4 * V29, VSize - 3 * V29 - 1)
             /\ Found("ckseg1", VSize - 3 * V29, VSize - 2 * V29 - 1)
             /\ Found("ckseg3", VSize - V29, VSize - 1)
        /\ mode = "kernel" /\ wide =>
             /\ Found("xkseg", V63 + V62, V63 + V62 + V40 - V31 - 1)
             /\ \A n \in 0 .. 7 : Found("xkphys", V63 + n * V59, V63 + n * V59 + V32 - 1)
    BY DEF ManualMap
  <2> HIDE DEF Found
  <2>3. \/ ~ wide /\ Has("useg", 0, V31 - 1)
        \/ wide /\ Has("xuseg", 0, V40 - 1)
        \/ mode # "user" /\ Has("csseg", VSize - 2 * V29, VSize - V29 - 1)
        \/ mode # "user" /\ wide /\ Has("xsseg", V62, V62 + V40 - 1)
        \/ mode = "kernel" /\ Has("ckseg0", VSize - 4 * V29, VSize - 3 * V29 - 1)
        \/ mode = "kernel" /\ Has("ckseg1", VSize - 3 * V29, VSize - 2 * V29 - 1)
        \/ mode = "kernel" /\ Has("ckseg3", VSize - V29, VSize - 1)
        \/ mode = "kernel" /\ wide /\ Has("xkseg", V63 + V62, V63 + V62 + V40 - V31 - 1)
        \/ mode = "kernel" /\ wide /\ \E n \in 0 .. 7 :
             Has("xkphys", V63 + n * V59, V63 + n * V59 + V32 - 1)
    BY <1>4 DEF ManualHas, VSize, V29, V31, V32, V40, V59, V62, V63
  <2> HIDE DEF Has, At
  <2> QED BY <2>1, <2>2, <2>3
<1> QED BY <1>2, <1>3, <1>4

LEMMA KsegNames ==
  /\ KSEGs(0).name = "ckseg0" /\ KSEGs(1).name = "ckseg1"
  /\ KSEGs(2).name = "csseg" /\ KSEGs(3).name = "ckseg3"
<1> DEFINE names == <<"ckseg0", "ckseg1", "csseg", "ckseg3">>
<1>1. /\ KSEGs(0).name = names[0 + 1] /\ KSEGs(1).name = names[1 + 1]
      /\ KSEGs(2).name = names[2 + 1] /\ KSEGs(3).name = names[3 + 1]
  BY DEF KSEGs, Segment
<1> QED BY <1>1

\* SegmentsRight, at one address and setting.
LEMMA SegmentNamed ==
  ASSUME NEW a \in Nat, a < 8192, NEW s \in StatusValues
  PROVE  ManualNames(a, ModeOf(s), Use64(s)) =
           IF get_segment(a, s) = NULL THEN {} ELSE {get_segment(a, s).name}
<1> DEFINE mode == ModeOf(s)
           wide == Use64(s)
           seg == get_segment(a, s)
<1>1. mode \in Modes /\ wide \in BOOLEAN
  BY ModeTypes
<1>2. ASSUME NEW x PROVE ManualHas(a, mode, wide, x) <=> seg # NULL /\ x = seg.name
  <2>1. CASE a < (IF wide THEN 64 ELSE 16)
    <3>1. seg = IF wide THEN XUSEG ELSE USEG
      BY <2>1, SegmentIs
    <3>2. seg # NULL /\ seg.name = IF wide THEN "xuseg" ELSE "useg"
      BY <3>1, SegmentValues
    <3>3. ManualHas(a, mode, wide, x) <=> x = IF wide THEN "xuseg" ELSE "useg"
      BY <1>1, <2>1 DEF ManualHas
    <3> QED BY <3>2, <3>3
  <2>2. CASE a >= (IF wide THEN 64 ELSE 16) /\ a < 8176 /\ ~ wide
    <3>1. seg = NULL
      BY <1>1, <2>2, SegmentIs
    <3>2. ~ ManualHas(a, mode, wide, x)
      BY <1>1, <2>2 DEF ManualHas
    <3> QED BY <3>1, <3>2
  <2>3. CASE a >= (IF wide THEN 64 ELSE 16) /\ (a >= 8176 \/ wide) /\ mode = "user"
    <3>1. seg = NULL
      BY <1>1, <2>3, SegmentIs
    <3>2. ~ ManualHas(a, mode, wide, x)
      BY <1>1, <2>3 DEF ManualHas
    <3> QED BY <3>1, <3>2
  <2>4. CASE a >= 2048 /\ a < 2112 /\ wide /\ mode # "user"
    <3>1. seg = XSSEG
      BY <1>1, <2>4, SegmentIs
    <3>2. seg # NULL /\ seg.name = "xsseg"
      BY <3>1, SegmentValues
    <3>3. ManualHas(a, mode, wide, x) <=> x = "xsseg"
      BY <1>1, <2>4 DEF ManualHas
    <3> QED BY <3>2, <3>3
  <2>5. CASE a >= 8176 /\ mode # "user"
    <3> DEFINE n == (a \div 4) % 4
    <3>1. n \in Nat /\ n < 4 /\ a >= 8176 + 4 * n /\ a < 8180 + 4 * n
      BY <2>5
    <3>2. n = 0 \/ n = 1 \/ n = 2 \/ n = 3
      BY <3>1
    <3>3. seg = IF mode = "kernel" THEN KSEGs(n) ELSE IF n = 2 THEN KSEGs(2) ELSE NULL
      BY <1>1, <2>5, <3>1, SegmentIs DEF Modes
    <3> HIDE DEF n
    <3>4. seg # NULL <=> mode = "kernel" \/ n = 2
      BY <3>1, <3>2, <3>3, SegmentValues
    <3>5. seg # NULL => seg.name = <<"ckseg0", "ckseg1", "csseg", "ckseg3">>[n + 1]
      BY <3>2, <3>3, <3>4, KsegNames
    <3>6. ManualHas(a, mode, wide, x) <=>
            (mode = "kernel" \/ n = 2) /\ x = <<"ckseg0", "ckseg1", "csseg", "ckseg3">>[n + 1]
      BY <1>1, <2>5, <3>1, <3>2 DEF ManualHas, Modes
    <3> QED BY <3>4, <3>5, <3>6
  <2>6. CASE a >= 64 /\ a < 8176 /\ ~ (a >= 2048 /\ a < 2112) /\ wide /\ mode # "user"
    <3>1. CASE mode = "supervisor"
      <4>1. seg = NULL
        BY <1>1, <2>6, <3>1, SegmentIs
      <4>2. ~ ManualHas(a, mode, wide, x)
        BY <1>1, <2>6, <3>1 DEF ManualHas
      <4> QED BY <4>1, <4>2
    <3>2. CASE mode = "kernel"
      <4>1. seg = IfInside(a, KernelSegment(a))
        BY <1>1, <2>6, <3>2, SegmentIs
      <4>2. CASE a >= 6144 /\ a < 6192
        <5>1. seg = XKSEG
          BY <4>1, <4>2, KernelSegmentIs
        <5>2. seg # NULL /\ seg.name = "xkseg"
          BY <5>1, SegmentValues
        <5>3. ManualHas(a, mode, wide, x) <=> x = "xkseg"
          BY <2>6, <3>2, <4>2 DEF ManualHas
        <5> QED BY <5>2, <5>3
      <4>3. CASE \E n \in Nat : n < 8 /\ a \in 4096 + 256 * n .. 4127 + 256 * n
        <5>1. PICK n \in Nat : n < 8 /\ a \in 4096 + 256 * n .. 4127 + 256 * n
          BY <4>3
        <5>2. seg = XKPHYS(n)
          BY <4>1, <5>1, KernelSegmentIs
        <5>3. seg # NULL /\ seg.name = "xkphys"
          BY <5>1, <5>2, SegmentValues
        <5>4. ManualHas(a, mode, wide, x) <=> x = "xkphys"
          BY <2>6, <3>2, <4>3, <5>1 DEF ManualHas
        <5> QED BY <5>3, <5>4
      <4>4. CASE /\ ~ (a >= 6144 /\ a < 6192)
                 /\ ~ \E n \in Nat : n < 8 /\ a \in 4096 + 256 * n .. 4127 + 256 * n
        <5>1. seg = NULL
          BY <2>6, <4>1, <4>4, KernelSegmentIs
        <5>2. ~ ManualHas(a, mode, wide, x)
          BY <2>6, <3>2, <4>4 DEF ManualHas
        <5> QED BY <5>1, <5>2
      <4> QED BY <4>2, <4>3, <4>4
    <3>3. mode = "supervisor" \/ mode = "kernel"
      BY <1>1, <2>6 DEF Modes
    <3> QED BY <3>1, <3>2, <3>3
  <2> QED BY <1>1, <2>1, <2>2, <2>3, <2>4, <2>5, <2>6
<1>3. ASSUME NEW x PROVE x \in ManualNames(a, mode, wide) <=> seg # NULL /\ x = seg.name
  BY <1>1, <1>2, ManualIs
<1> QED BY <1>3

-----------------------------------------------------------------------------
(* The fields of an address that the TLB looks at. *)

\* The pair of pages, of a mapped address, that a VPN2 stands for.
PairAt(v) ==
  IF v < 32 THEN v ELSE IF v < 64 THEN v - 32 + 1024 ELSE IF v < 124 THEN v - 96 + 3072 ELSE v - 124 + 4092

LEMMA Vpn2Is ==
  ASSUME NEW a \in Nat, a < 8192, MappedAt(a)
  PROVE  Vpn2(a) \in Nat /\ Vpn2(a) < 128 /\ a \div 2 = PairAt(Vpn2(a))
<1>1. Vpn2(a) = (a \div 2048) * 32 + ((a % 64) \div 2)
  BY DEF Vpn2, RegionBits, Vpn2Bits, V62, V40
<1>2. CASE a < 64
  BY <1>1, <1>2 DEF PairAt
<1>3. CASE a >= 2048 /\ a < 2112
  BY <1>1, <1>3 DEF PairAt
<1>4. CASE a >= 6144 /\ a < 6192
  BY <1>1, <1>4 DEF PairAt
<1>5. CASE a >= 8184
  BY <1>1, <1>5 DEF PairAt
<1> QED BY <1>2, <1>3, <1>4, <1>5 DEF MappedAt

\* Addresses with one masked VPN2 are in one pair of pages.
LEMMA SamePair ==
  ASSUME NEW a \in Nat, a < 8192, MappedAt(a), NEW b \in Nat, b < 8192, MappedAt(b)
  PROVE  /\ Vpn2(a) = Vpn2(b) => a \div 2 = b \div 2
         /\ Masked(Vpn2(a), 1) = Masked(Vpn2(b), 1) => a \div 4 = b \div 4
<1> DEFINE v == Vpn2(a)
           w == Vpn2(b)
<1>1. /\ v \in Nat /\ v < 128 /\ a \div 2 = PairAt(v)
      /\ w \in Nat /\ w < 128 /\ b \div 2 = PairAt(w)
  BY Vpn2Is
<1> HIDE DEF v, w
<1>2. v = w => a \div 2 = b \div 2
  BY <1>1
<1>3. ASSUME v - (v % 2) = w - (w % 2) PROVE a \div 4 = b \div 4
  <2>1. v \div 2 = w \div 2
    BY <1>1, <1>3
  <2>2. PairAt(v) \div 2 = PairAt(w) \div 2
    BY <1>1, <2>1 DEF PairAt
  <2>3. (a \div 2) \div 2 = a \div 4 /\ (b \div 2) \div 2 = b \div 4
    OBVIOUS
  <2> QED BY <1>1, <2>2, <2>3
<1> QED BY <1>2, <1>3 DEF v, w, Masked

\* What an address's VPN2, under its own mask, says of it.
VpnOf(a) == Masked(Vpn2(a), MaskAt(a))

LEMMA SameKind ==
  ASSUME NEW a \in Nat, a < 8192, NEW b \in Nat, b < 8192, a \div 4 = b \div 4
  PROVE  MaskAt(a) = MaskAt(b) /\ GlobalPage(a) = GlobalPage(b) /\ LargePage(a) = LargePage(b)
<1>1. a \div 2048 = b \div 2048 
  OBVIOUS
<1> QED BY <1>1 DEF MaskAt, LargePage, GlobalPage, V29, V62

LEMMA SameVpn ==
  ASSUME NEW a \in Nat, a < 8192, MappedAt(a), NEW b \in Nat, b < 8192, MappedAt(b),
         VpnOf(a) = Masked(Vpn2(b), MaskAt(a))
  PROVE  /\ MaskAt(a) = MaskAt(b) /\ GlobalPage(a) = GlobalPage(b) /\ LargePage(a) = LargePage(b)
         /\ MaskAt(a) = 0 => a \div 2 = b \div 2
         /\ MaskAt(a) = 1 => a \div 4 = b \div 4
<1>1. MaskAt(a) = 0 \/ MaskAt(a) = 1
  BY DEF MaskAt
<1>2. CASE MaskAt(a) = 0
  <2>1. a \div 2 = b \div 2
    BY <1>2, SamePair DEF VpnOf, Masked
  <2>2. a \div 4 = b \div 4
    BY <2>1
  <2> QED BY <1>2, <2>1, <2>2, SameKind
<1>3. CASE MaskAt(a) = 1
  <2>1. a \div 4 = b \div 4
    BY <1>3, SamePair DEF VpnOf
  <2> QED BY <1>3, <2>1, SameKind
<1> QED BY <1>1, <1>2, <1>3

\* The other way: an address and the VPN2 of its pair.
LEMMA PairIs ==
  ASSUME NEW a \in Nat, a < 8192, NEW b \in Nat, b < 8192,
         MaskAt(a) = 0 => a \div 2 = b \div 2,
         MaskAt(a) = 1 => a \div 4 = b \div 4
  PROVE  /\ Select(b, MaskAt(a)) \in Pages
         /\ PairOf(a)[Select(b, MaskAt(a))] = IF MaskAt(a) = 1 THEN b - (b % 2) ELSE b
<1>1. MaskAt(a) = 0 \/ MaskAt(a) = 1
  BY DEF MaskAt
<1>2. b % 2 \in 0 .. 1 /\ (b \div 2) % 2 \in 0 .. 1
  OBVIOUS
<1>3. CASE MaskAt(a) = 0
  <2>1. a - (a % 2) + (b % 2) * 1 = b
    BY <1>3
  <2> QED BY <1>2, <1>3, <2>1 DEF PairOf, Select, Pages
<1>4. CASE MaskAt(a) = 1
  <2>1. a - (a % 4) + ((b \div 2) % 2) * 2 = b - (b % 2)
    BY <1>4
  <2> QED BY <1>2, <1>4, <2>1 DEF PairOf, Select, Pages
<1> QED BY <1>1, <1>3, <1>4

LEMMA PairTypes ==
  ASSUME NEW a \in Nat, a < 8192, NEW p \in Pages
  PROVE  /\ PairOf(a)[p] \in Nat /\ PairOf(a)[p] < 8192
         /\ GlobalPage(PairOf(a)[p]) = GlobalPage(a)
<1>1. p \in Nat /\ p < 2
  BY DEF Pages
<1>2. PairOf(a)[p] = IF MaskAt(a) = 1 THEN a - (a % 4) + p * 2 ELSE a - (a % 2) + p * 1
  BY DEF PairOf
<1>3. /\ a - (a % 4) + p * 2 \in Nat /\ a - (a % 4) + p * 2 < 8192
      /\ (a - (a % 4) + p * 2) \div 2048 = a \div 2048
  BY <1>1
<1>4. /\ a - (a % 2) + p * 1 \in Nat /\ a - (a % 2) + p * 1 < 8192
      /\ (a - (a % 2) + p * 1) \div 2048 = a \div 2048
  BY <1>1
<1> QED BY <1>2, <1>3, <1>4 DEF GlobalPage, V62

-----------------------------------------------------------------------------
(* The entries of the TLB. *)

\* The guest that the theorem is about: its addresses are mapped ones, the
\* settings of STATUS have the 64-bit addresses of the modes below if they have
\* those of their own, and the handlers know about the larger pages.
TlbGuest ==
  /\ \A a \in TlbAddresses : \E s \in StatusValues :
       get_segment(a, s) # NULL /\ get_segment(a, s).mapped
  /\ \A s \in TlbStatus :
       s \in StatusValues /\ ~ s.exl /\ (Use64(s) => s.ux /\ (ModeOf(s) # "user" => s.sx))
  /\ HandlerMasks \/ ~ LargePages

Slots == 0 .. TlbEntries - 1
PageTypes == [frame : Nat \X Nat, g : BOOLEAN, v : BOOLEAN, d : BOOLEAN]
EntryTypes == [vpn2 : Int, asid : Nat, global : BOOLEAN, mask : {0, 1}, lo : [Pages -> PageTypes]]

\* The entry e is of the page tables, for the pair of a.
EntryFor(e, a) ==
  /\ e.vpn2 = VpnOf(a) /\ e.mask = MaskAt(a) /\ (e.global <=> GlobalPage(a))
  /\ \A p \in Pages : /\ e.lo[p].frame = FrameOf(PairOf(a)[p], e.asid)
                      /\ e.lo[p].g <=> GlobalPage(a)

TlbRight(t) ==
  /\ t \in [Slots -> EntryTypes]
  /\ \A i \in Slots : t[i].vpn2 # -1 => \E a \in TlbAddresses : EntryFor(t[i], a)
  /\ \A i, j \in Slots : i # j /\ t[i].vpn2 # -1 /\ t[i].vpn2 = t[j].vpn2 =>
       t[i].asid # t[j].asid /\ ~ t[i].global /\ ~ t[j].global

LEMMA AddressTypes ==
  ASSUME TlbGuest, NEW a \in TlbAddresses
  PROVE  a \in Nat /\ a < 8192 /\ MappedAt(a)
<1>1. a \in Nat /\ a < 8192
  BY VrTlbAssumption DEF VAddresses, VSize
<1>2. PICK s \in StatusValues : get_segment(a, s) # NULL /\ get_segment(a, s).mapped
  BY DEF TlbGuest
<1> QED BY <1>1, <1>2, MappedOnly

LEMMA VpnTypes ==
  ASSUME NEW a \in Nat, a < 8192, MappedAt(a)
  PROVE  /\ VpnOf(a) \in Nat /\ Vpn2(a) \in Nat
         /\ Masked(VpnOf(a), 1) = Masked(Vpn2(a), 1)
         /\ Masked(VpnOf(a), MaskAt(a)) = VpnOf(a)
<1> DEFINE v == Vpn2(a)
<1>1. v \in Nat
  BY Vpn2Is
<1>2. v - (v % 2) \in Nat /\ (v - (v % 2)) % 2 = 0
  BY <1>1
<1>3. MaskAt(a) = 0 \/ MaskAt(a) = 1
  BY DEF MaskAt
<1> HIDE DEF v
<1>4. VpnOf(a) = v \/ VpnOf(a) = v - (v % 2)
  BY <1>3 DEF VpnOf, Masked, v
<1>5. MaskAt(a) = 1 => VpnOf(a) = v - (v % 2)
  BY DEF VpnOf, Masked, v
<1>6. Masked(VpnOf(a), 1) = Masked(v, 1)
  BY <1>1, <1>2, <1>4 DEF Masked
<1> QED BY <1>1, <1>2, <1>3, <1>4, <1>5, <1>6 DEF Masked, v

\* Entries of one VPN2 are of one kind.
LEMMA SameEntryKind ==
  ASSUME NEW a \in Nat, a < 8192, MappedAt(a), NEW b \in Nat, b < 8192, MappedAt(b),
         VpnOf(a) = VpnOf(b)
  PROVE  MaskAt(a) = MaskAt(b) /\ GlobalPage(a) = GlobalPage(b)
<1>1. Masked(Vpn2(a), 1) = Masked(Vpn2(b), 1)
  BY VpnTypes
<1>2. a \div 4 = b \div 4
  BY <1>1, SamePair
<1> QED BY <1>2, SameKind

\* What an entry that matches says of the address.
LEMMA MatchRight ==
  ASSUME TlbGuest, NEW a \in TlbAddresses, NEW e \in EntryTypes, EntryFor(e, a),
         NEW b \in TlbAddresses, NEW asid, Matches(e, b, asid)
  PROVE  /\ e.mask = MaskAt(b) /\ e.vpn2 = VpnOf(b) /\ (e.global <=> GlobalPage(b))
         /\ Select(b, e.mask) \in Pages
         /\ PhysicalOf(e, b) = RightPhysical(b, asid)
<1>1. /\ a \in Nat /\ a < 8192 /\ MappedAt(a)
      /\ b \in Nat /\ b < 8192 /\ MappedAt(b)
  BY AddressTypes
<1>2. VpnOf(a) = Masked(Vpn2(b), MaskAt(a)) /\ e.mask = MaskAt(a) /\ e.vpn2 = VpnOf(a)
  BY DEF EntryFor, Matches
<1>3. /\ MaskAt(a) = MaskAt(b) /\ GlobalPage(a) = GlobalPage(b) /\ LargePage(a) = LargePage(b)
      /\ MaskAt(a) = 0 => a \div 2 = b \div 2
      /\ MaskAt(a) = 1 => a \div 4 = b \div 4
  BY <1>1, <1>2, SameVpn
<1>4. e.vpn2 = VpnOf(b)
  BY <1>2, <1>3 DEF VpnOf
<1> DEFINE p == Select(b, MaskAt(a))
           page == IF MaskAt(a) = 1 THEN b - (b % 2) ELSE b
<1>5. p \in Pages /\ PairOf(a)[p] = page
  BY <1>1, <1>3, PairIs
<1>6. GlobalPage(page) = GlobalPage(a) /\ (e.asid = asid \/ GlobalPage(a))
  <2>1. GlobalPage(PairOf(a)[p]) = GlobalPage(a)
    BY <1>1, <1>5, PairTypes
  <2>2. e.global <=> GlobalPage(a)
    BY DEF EntryFor
  <2> QED BY <1>5, <2>1, <2>2 DEF Matches
<1>7. e.lo[p].frame = FrameOf(page, asid)
  <2>1. e.lo[p].frame = FrameOf(page, e.asid)
    BY <1>5 DEF EntryFor
  <2> QED BY <1>6, <2>1 DEF FrameOf
<1>8. MaskAt(b) = 1 <=> LargePage(b)
  BY DEF MaskAt
<1>9. PhysicalOf(e, b) = RightPhysical(b, asid)
  BY <1>2, <1>3, <1>7, <1>8 DEF PhysicalOf, RightPhysical
<1>10. e.global <=> GlobalPage(b)
  BY <1>3 DEF EntryFor
<1> QED BY <1>2, <1>3, <1>4, <1>5, <1>9, <1>10

\* At most one entry matches.
LEMMA MatchOnce ==
  ASSUME TlbGuest, NEW t, TlbRight(t), NEW b \in TlbAddresses, NEW asid,
         NEW i \in Matching(t, b, asid), NEW j \in Matching(t, b, asid)
  PROVE  i = j
<1>1. /\ i \in Slots /\ t[i].vpn2 # -1 /\ Matches(t[i], b, asid) /\ t[i] \in EntryTypes
      /\ j \in Slots /\ t[j].vpn2 # -1 /\ Matches(t[j], b, asid) /\ t[j] \in EntryTypes
  BY DEF Matching, TlbRight
<1>2. t[i].vpn2 = VpnOf(b)
  <2>1. PICK a \in TlbAddresses : EntryFor(t[i], a)
    BY <1>1 DEF TlbRight
  <2> QED BY <1>1, <2>1, MatchRight
<1>3. t[j].vpn2 = VpnOf(b)
  <2>1. PICK a \in TlbAddresses : EntryFor(t[j], a)
    BY <1>1 DEF TlbRight
  <2> QED BY <1>1, <2>1, MatchRight
<1>4. (t[i].asid = asid \/ t[i].global) /\ (t[j].asid = asid \/ t[j].global)
  BY <1>1 DEF Matches
<1> QED BY <1>1, <1>2, <1>3, <1>4 DEF TlbRight

\* A new entry, where no other one matches its address.
LEMMA PutRight ==
  ASSUME TlbGuest, NEW t, TlbRight(t), NEW a \in TlbAddresses, NEW e \in EntryTypes,
         EntryFor(e, a), NEW i \in Slots,
         \A j \in Slots : j # i /\ t[j].vpn2 # -1 => ~ Matches(t[j], a, e.asid)
  PROVE  TlbRight([t EXCEPT ![i] = e])
<1> DEFINE u == [t EXCEPT ![i] = e]
<1>1. u \in [Slots -> EntryTypes] /\ u[i] = e /\ \A j \in Slots : j # i => u[j] = t[j]
  BY DEF TlbRight
<1> HIDE DEF u
<1>2. \A j \in Slots : u[j].vpn2 # -1 => \E b \in TlbAddresses : EntryFor(u[j], b)
  BY <1>1 DEF TlbRight
<1>3. ASSUME NEW j \in Slots, j # i, t[j].vpn2 = e.vpn2
      PROVE  t[j].asid # e.asid /\ ~ t[j].global /\ ~ e.global
  <2>1. a \in Nat /\ a < 8192 /\ MappedAt(a) /\ e.vpn2 = VpnOf(a) /\ VpnOf(a) \in Nat
    BY AddressTypes, VpnTypes DEF EntryFor
  <2>2. PICK b \in TlbAddresses : EntryFor(t[j], b)
    BY <1>3, <2>1 DEF TlbRight
  <2>3. b \in Nat /\ b < 8192 /\ MappedAt(b) /\ VpnOf(a) = VpnOf(b)
    BY <1>3, <2>1, <2>2, AddressTypes DEF EntryFor
  <2>4. MaskAt(a) = MaskAt(b) /\ GlobalPage(a) = GlobalPage(b)
    BY <2>1, <2>3, SameEntryKind
  <2>5. t[j].vpn2 = Masked(Vpn2(a), t[j].mask)
    <3>1. t[j].mask = MaskAt(a)
      BY <2>2, <2>4 DEF EntryFor
    <3> QED BY <1>3, <2>1, <3>1 DEF VpnOf
  <2>6. ~ Matches(t[j], a, e.asid)
    BY <1>3, <2>1
  <2>7. t[j].asid # e.asid /\ ~ t[j].global
    BY <2>5, <2>6 DEF Matches
  <2>8. (t[j].global <=> GlobalPage(b)) /\ (e.global <=> GlobalPage(a))
    BY <2>2 DEF EntryFor
  <2> QED BY <2>4, <2>7, <2>8
<1>4. \A j, k \in Slots : j # k /\ u[j].vpn2 # -1 /\ u[j].vpn2 = u[k].vpn2 =>
        u[j].asid # u[k].asid /\ ~ u[j].global /\ ~ u[k].global
  <2> SUFFICES ASSUME NEW j \in Slots, NEW k \in Slots,
                      j # k, u[j].vpn2 # -1, u[j].vpn2 = u[k].vpn2
               PROVE  u[j].asid # u[k].asid /\ ~ u[j].global /\ ~ u[k].global
    OBVIOUS
  <2>1. CASE j = i
    BY <1>1, <1>3, <2>1
  <2>2. CASE k = i
    BY <1>1, <1>3, <2>2
  <2>3. CASE j # i /\ k # i
    BY <1>1, <2>3 DEF TlbRight
  <2> QED BY <2>1, <2>2, <2>3
<1> QED BY <1>1, <1>2, <1>4 DEF TlbRight, u

\* An entry that is written back with other rights.
LEMMA ChangeRight ==
  ASSUME NEW t, TlbRight(t), NEW i \in Slots, t[i].vpn2 # -1, NEW e \in EntryTypes,
         e.vpn2 = t[i].vpn2, e.asid = t[i].asid, e.mask = t[i].mask, e.global = t[i].global,
         \A p \in Pages : e.lo[p].frame = t[i].lo[p].frame /\ e.lo[p].g = t[i].lo[p].g
  PROVE  TlbRight([t EXCEPT ![i] = e])
<1> DEFINE u == [t EXCEPT ![i] = e]
<1>1. u \in [Slots -> EntryTypes] /\ u[i] = e /\ \A j \in Slots : j # i => u[j] = t[j]
  BY DEF TlbRight
<1> HIDE DEF u
<1>2. PICK a \in TlbAddresses : EntryFor(t[i], a)
  BY DEF TlbRight
<1>3. EntryFor(e, a)
  BY <1>2 DEF EntryFor
<1>4. \A j \in Slots : u[j].vpn2 # -1 => \E b \in TlbAddresses : EntryFor(u[j], b)
  BY <1>1, <1>3 DEF TlbRight
<1>5. \A j \in Slots : u[j].vpn2 = t[j].vpn2 /\ u[j].asid = t[j].asid /\ u[j].global = t[j].global
  BY <1>1
<1>6. \A j, k \in Slots : j # k /\ u[j].vpn2 # -1 /\ u[j].vpn2 = u[k].vpn2 =>
        u[j].asid # u[k].asid /\ ~ u[j].global /\ ~ u[k].global
  BY <1>5 DEF TlbRight
<1> QED BY <1>1, <1>4, <1>6 DEF TlbRight, u

-----------------------------------------------------------------------------
(* The invariant, and what an access finds. *)

\* The page of a, in the entry e.
PageIn(e, a) == e.lo[Select(a, e.mask)]
Current == Matching(tlb, tries.at, hi.asid)

TlbTypes ==
  /\ TlbRight(tlb)
  /\ status \in StatusValues /\ [status EXCEPT !.exl = FALSE] \in TlbStatus
  /\ hi \in [vpn2 : Nat, asid : Asids]
  /\ tries \in [at : TlbAddresses \cup {-1}, write : BOOLEAN, count : Nat,
                why : {"none", "miss", "invalid", "mod"}]

\* The segment of EX/DC is that of a mapped address, in the setting of now.
SegmentKept ==
  segment = default_segment \/
    /\ ~ status.exl
    /\ \E b \in TlbAddresses :
         segment = get_segment(b, status) /\ segment # NULL /\ segment.mapped

\* What a fault has left for its handler, and what the handler has left for the
\* access that is tried again.
FaultState ==
  /\ tries.at = -1 => tries.count = 0 /\ ~ status.exl
  /\ status.exl =>
       /\ hi.vpn2 = Vpn2(tries.at)
       /\ \/ tries.why = "miss" /\ tries.count = 1 /\ Current = {}
          \/ tries.why = "invalid" /\ tries.count = 1
          \/ /\ tries.why = "mod" /\ (tries.count = 1 \/ tries.count = 2)
             /\ \A i \in Current : PageIn(tlb[i], tries.at).v
  /\ tries.at # -1 /\ ~ status.exl =>
       /\ Current # {}
       /\ \A i \in Current : PageIn(tlb[i], tries.at).v
       /\ \/ (tries.why = "miss" \/ tries.why = "invalid") /\ tries.count = 1
          \/ /\ tries.why = "mod" /\ (tries.count = 1 \/ tries.count = 2)
             /\ \A i \in Current : PageIn(tlb[i], tries.at).d

TlbInv == TlbTypes /\ SegmentKept /\ FaultState

LEMMA TlbInitInv == ASSUME TlbGuest, TlbInit PROVE TlbInv
<1>1. TlbRight(tlb)
  <2>1. NoEntry \in EntryTypes /\ NoEntry.vpn2 = -1
    BY DEF NoEntry, NoPage, EntryTypes, PageTypes
  <2> QED BY <2>1 DEF TlbInit, TlbRight, Slots
<1>2. /\ status \in StatusValues /\ ~ status.exl /\ status \in TlbStatus
      /\ [status EXCEPT !.exl = FALSE] = status
  BY DEF TlbInit, TlbGuest, StatusValues
<1>3. hi \in [vpn2 : Nat, asid : Asids]
  BY DEF TlbInit, Asids
<1>4. /\ tries \in [at : TlbAddresses \cup {-1}, write : BOOLEAN, count : Nat,
                    why : {"none", "miss", "invalid", "mod"}]
      /\ tries.at = -1 /\ tries.count = 0
  BY DEF TlbInit
<1> QED BY <1>1, <1>2, <1>3, <1>4 DEF TlbInit, TlbInv, TlbTypes, SegmentKept, FaultState

\* Outside of the handlers, STATUS is a setting of the guest.
LEMMA StatusIs ==
  ASSUME TlbGuest, TlbTypes
  PROVE  /\ ~ status.exl => status \in TlbStatus
         /\ ~ [status EXCEPT !.exl = FALSE].exl /\ [status EXCEPT !.exl = FALSE] \in StatusValues
         /\ ~ status.exl => [[status EXCEPT !.exl = TRUE] EXCEPT !.exl = FALSE] = status
         /\ [status EXCEPT !.exl = TRUE] \in StatusValues /\ [status EXCEPT !.exl = TRUE].exl
         /\ [[status EXCEPT !.exl = FALSE] EXCEPT !.exl = FALSE] = [status EXCEPT !.exl = FALSE]
<1>1. ~ status.exl => [status EXCEPT !.exl = FALSE] = status
  BY DEF TlbTypes, StatusValues
<1>2. /\ ~ [status EXCEPT !.exl = FALSE].exl /\ [status EXCEPT !.exl = FALSE] \in StatusValues
      /\ [status EXCEPT !.exl = TRUE] \in StatusValues /\ [status EXCEPT !.exl = TRUE].exl
  BY DEF TlbTypes, StatusValues
<1>3. /\ [[status EXCEPT !.exl = FALSE] EXCEPT !.exl = FALSE] = [status EXCEPT !.exl = FALSE]
      /\ [[status EXCEPT !.exl = TRUE] EXCEPT !.exl = FALSE] = [status EXCEPT !.exl = FALSE]
  BY DEF TlbTypes, StatusValues
<1> QED BY <1>1, <1>2, <1>3 DEF TlbTypes

\* The segment that an access uses is the one that get_segment gives.
LEMMA SegmentForIs ==
  ASSUME TlbGuest, TlbInv, NEW a \in TlbAddresses
  PROVE  Inside(a, segment) => segment = get_segment(a, status)
<1>1. a \in Nat /\ a < 8192 /\ MappedAt(a)
  BY AddressTypes
<1>2. CASE segment = default_segment
  BY <1>1, <1>2, InsideIs
<1>3. CASE segment # default_segment
  <2>1. PICK b \in TlbAddresses :
          segment = get_segment(b, status) /\ segment # NULL /\ segment.mapped
    BY <1>3 DEF TlbInv, SegmentKept
  <2>2. b \in Nat /\ b < 8192 /\ status \in StatusValues
    BY AddressTypes DEF TlbInv, TlbTypes
  <2> QED BY <1>1, <2>1, <2>2, SameSegment
<1> QED BY <1>2, <1>3

\* The VPN2 that a fault leaves is the address's.
LEMMA FaultVpn2Is ==
  ASSUME TlbGuest, TlbInv, ~ status.exl, NEW a \in TlbAddresses,
         get_segment(a, status) # NULL, get_segment(a, status).mapped
  PROVE  FaultVpn2(a, get_segment(a, status)) = Vpn2(a)
<1> DEFINE seg == get_segment(a, status)
<1>1. /\ seg.xmode = "ux" => XModeBit(seg) = status.ux
      /\ seg.xmode = "sx" => XModeBit(seg) = status.sx
      /\ seg.xmode = "kx" => XModeBit(seg) = status.kx
  BY DEF XModeBit
<1>2. status \in StatusValues /\ (Use64(status) => status.ux /\ (ModeOf(status) # "user" => status.sx))
  BY StatusIs DEF TlbInv, TlbTypes, TlbGuest
<1>3. a \in Nat /\ a < 8192
  BY AddressTypes
<1>4. \/ SignExtended(a) = a
      \/ seg.xmode = "ux" /\ status.ux
      \/ seg.xmode = "sx" /\ status.sx
      \/ seg.xmode = "kx" /\ status.kx
  BY <1>2, <1>3, ExtendsRight
<1> QED BY <1>1, <1>4 DEF FaultVpn2

\* What the translation of an address depends on.
LEMMA TranslationIs ==
  ASSUME TlbGuest, TlbTypes, NEW a \in TlbAddresses, NEW write \in BOOLEAN
  PROVE  LET found == Matching(tlb, a, hi.asid) IN
         /\ Translation(a, write) = "miss" <=> found = {}
         /\ Translation(a, write) \in {"miss", "invalid", "mod", "ok"}
         /\ \A i \in found :
              /\ Translation(a, write) = "invalid" <=> ~ PageIn(tlb[i], a).v
              /\ Translation(a, write) = "mod" <=>
                   PageIn(tlb[i], a).v /\ write /\ ~ PageIn(tlb[i], a).d
<1> DEFINE found == Matching(tlb, a, hi.asid)
<1>1. CASE found = {}
  BY <1>1 DEF Translation
<1>2. CASE found # {}
  <2>1. PICK i \in found : TRUE
    BY <1>2
  <2>2. \A j \in found : j = i
    BY <2>1, MatchOnce DEF TlbTypes
  <2>3. (CHOOSE j \in found : TRUE) = i
    BY <2>1, <2>2
  <2> DEFINE page == tlb[i].lo[Select(a, tlb[i].mask)]
  <2>4. Translation(a, write) =
          IF ~ page.v THEN "invalid" ELSE IF write /\ ~ page.d THEN "mod" ELSE "ok"
    BY <1>2, <2>3, Zenon DEF Translation
  <2> QED BY <1>2, <2>1, <2>2, <2>4 DEF PageIn
<1> QED BY <1>1, <1>2

-----------------------------------------------------------------------------
(* Every step keeps the invariant. *)

LEMMA AccessInv ==
  ASSUME TlbGuest, TlbInv, NEW a \in TlbAddresses, NEW write \in BOOLEAN, TlbAccess(a, write)
  PROVE  TlbInv'
<1> DEFINE seg == get_segment(a, status)
           found == Matching(tlb, a, hi.asid)
<1>1. /\ ~ status.exl /\ tlb' = tlb
      /\ tries.at = -1 \/ (tries.at = a /\ tries.write = write)
  BY DEF TlbAccess
<1>2. SegmentFor(a) = seg /\ seg # NULL /\ seg.mapped
  BY SegmentForIs DEF TlbAccess, SegmentFor
<1>3. tries.at \in TlbAddresses \cup {-1} /\ tries.count \in Nat /\ a \in Nat
  BY AddressTypes DEF TlbInv, TlbTypes
<1>4. CASE Translation(a, write) = "ok"
  <2>1. /\ segment' = seg /\ UNCHANGED <<status, hi>>
        /\ tries' = [tries EXCEPT !.at = -1, !.count = 0]
    BY <1>2, <1>4 DEF TlbAccess
  <2>2. /\ tries' \in [at : TlbAddresses \cup {-1}, write : BOOLEAN, count : Nat,
                       why : {"none", "miss", "invalid", "mod"}]
        /\ tries'.at = -1 /\ tries'.count = 0
    BY <2>1 DEF TlbInv, TlbTypes
  <2>3. TlbTypes'
    BY <1>1, <2>1, <2>2 DEF TlbInv, TlbTypes, TlbRight
  <2>4. SegmentKept'
    BY <1>1, <1>2, <2>1 DEF SegmentKept
  <2>5. FaultState'
    BY <1>1, <2>1, <2>2 DEF FaultState
  <2> QED BY <2>3, <2>4, <2>5 DEF TlbInv
<1>5. CASE Translation(a, write) # "ok"
  <2>1. /\ hi' = [hi EXCEPT !.vpn2 = FaultVpn2(a, seg)]
        /\ status' = [status EXCEPT !.exl = TRUE]
        /\ segment' = default_segment
        /\ tries' = [at |-> a, write |-> write, count |-> tries.count + 1,
                     why |-> Translation(a, write)]
    BY <1>2, <1>5 DEF TlbAccess
  <2>2. /\ hi' \in [vpn2 : Nat, asid : Asids]
        /\ hi'.vpn2 = Vpn2(a) /\ hi'.asid = hi.asid
    <3>1. FaultVpn2(a, seg) = Vpn2(a)
      BY <1>1, <1>2, FaultVpn2Is
    <3>2. Vpn2(a) \in Nat
      BY AddressTypes, VpnTypes
    <3> QED BY <2>1, <3>1, <3>2 DEF TlbInv, TlbTypes
  <2>3. /\ status' \in StatusValues /\ status'.exl
        /\ [status' EXCEPT !.exl = FALSE] = status /\ status \in TlbStatus
    BY <1>1, <2>1, StatusIs DEF TlbInv
  <2>4. /\ Translation(a, write) \in {"miss", "invalid", "mod"}
        /\ Translation(a, write) = "miss" <=> found = {}
        /\ \A i \in found : /\ Translation(a, write) = "invalid" <=> ~ PageIn(tlb[i], a).v
                            /\ Translation(a, write) = "mod" <=>
                                 PageIn(tlb[i], a).v /\ write /\ ~ PageIn(tlb[i], a).d
    BY <1>5, TranslationIs DEF TlbInv
  <2>5. /\ tries' \in [at : TlbAddresses \cup {-1}, write : BOOLEAN, count : Nat,
                       why : {"none", "miss", "invalid", "mod"}]
        /\ tries'.at = a /\ tries'.count = tries.count + 1 /\ tries'.why = Translation(a, write)
    BY <1>3, <2>1, <2>4
  <2>6. TlbTypes'
    BY <1>1, <2>2, <2>3, <2>5 DEF TlbInv, TlbTypes, TlbRight
  <2>7. SegmentKept'
    BY <2>1 DEF SegmentKept
  <2>8. Current' = found
    BY <1>1, <2>2, <2>5 DEF Current
  <2>9. CASE tries.at = -1
    <3>1. tries'.count = 1
      BY <2>5, <2>9 DEF TlbInv, FaultState
    <3>2. tries'.why = "mod" => \A i \in Current' : PageIn(tlb'[i], tries'.at).v
      BY <1>1, <2>4, <2>5, <2>8
    <3> QED BY <1>3, <2>2, <2>3, <2>4, <2>5, <2>6, <2>7, <2>8, <3>1, <3>2 DEF TlbInv, FaultState
  <2>10. CASE tries.at # -1
    <3>1. tries.at = a /\ Current = found
      BY <1>1, <2>10 DEF Current
    <3>2. PICK i \in found : TRUE
      BY <1>1, <2>10, <3>1 DEF TlbInv, FaultState
    <3>3. \A j \in found : PageIn(tlb[j], a).v
      BY <1>1, <2>10, <3>1 DEF TlbInv, FaultState
    <3>4. Translation(a, write) = "mod" /\ ~ PageIn(tlb[i], a).d
      BY <2>4, <3>2, <3>3
    <3>5. tries.count = 1
      BY <1>1, <2>10, <3>1, <3>2, <3>4 DEF TlbInv, FaultState
    <3>6. \A j \in Current' : PageIn(tlb'[j], tries'.at).v
      BY <1>1, <2>5, <2>8, <3>3
    <3> QED BY <1>3, <2>2, <2>3, <2>5, <2>6, <2>7, <3>4, <3>5, <3>6 DEF TlbInv, FaultState
  <2> QED BY <2>9, <2>10
<1> QED BY <1>4, <1>5

\* The entry that the refill handler writes.
LEMMA RefillEntry ==
  ASSUME TlbGuest, TlbInv, status.exl, NEW a \in TlbAddresses, tries.at = a
  PROVE  LET e == tlb_write(HandlerHi(a), HandlerLo(a), MaskAt(a)) IN
         /\ e \in EntryTypes /\ EntryFor(e, a) /\ e.asid = hi.asid
         /\ e.vpn2 # -1 /\ Matches(e, a, hi.asid) /\ PageIn(e, a).v
<1> DEFINE lo == HandlerLo(a)
           e == tlb_write(HandlerHi(a), lo, MaskAt(a))
<1>1. a \in Nat /\ a < 8192 /\ MappedAt(a)
  BY AddressTypes
<1>2. MaskAt(a) \in {0, 1} /\ (~ LargePages => MaskAt(a) = 0)
  BY DEF MaskAt, LargePage
<1>3. hi.vpn2 = Vpn2(a) /\ hi \in [vpn2 : Nat, asid : Asids]
  BY DEF TlbInv, TlbTypes, FaultState
<1>4. HandlerHi(a).vpn2 = VpnOf(a) /\ HandlerHi(a).asid = hi.asid
  <2>1. CASE HandlerMasks
    BY <1>3, <2>1 DEF HandlerHi, VpnOf
  <2>2. CASE ~ HandlerMasks
    BY <1>2, <1>3, <2>2 DEF HandlerHi, VpnOf, Masked, TlbGuest
  <2> QED BY <2>1, <2>2
<1>5. VpnOf(a) \in Nat /\ hi.asid \in Nat
  BY <1>1, <1>3, VpnTypes DEF Asids
<1>6. ASSUME NEW p \in Pages
      PROVE  /\ lo[p].frame = FrameOf(PairOf(a)[p], hi.asid) /\ lo[p].g = GlobalPage(a)
             /\ lo[p].v = (Select(a, MaskAt(a)) = p) /\ lo[p] \in PageTypes
  <2>1. lo[p] = PageAt(PairOf(a)[p], hi.asid, Select(a, MaskAt(a)) = p)
    BY DEF HandlerLo
  <2>2. /\ PairOf(a)[p] \in Nat /\ GlobalPage(PairOf(a)[p]) = GlobalPage(a)
        /\ GlobalPage(a) \in BOOLEAN
    BY <1>1, PairTypes DEF GlobalPage
  <2>3. FrameOf(PairOf(a)[p], hi.asid) \in Nat \X Nat
    BY <1>5, <2>2 DEF FrameOf
  <2>4. (Select(a, MaskAt(a)) = p) \in BOOLEAN
    OBVIOUS
  <2> QED BY <2>1, <2>2, <2>3, <2>4 DEF PageAt, PageTypes
<1>7. lo \in [Pages -> PageTypes]
  BY <1>6 DEF HandlerLo
<1>8. /\ e.vpn2 = VpnOf(a) /\ e.asid = hi.asid /\ e.mask = MaskAt(a) /\ e.lo = lo
      /\ e.global = (lo[0].g /\ lo[1].g)
  BY <1>4 DEF tlb_write
<1>9. e.global = GlobalPage(a) /\ GlobalPage(a) \in BOOLEAN
  <2>1. 0 \in Pages /\ 1 \in Pages
    BY DEF Pages
  <2>2. lo[0].g = GlobalPage(a) /\ lo[1].g = GlobalPage(a)
    BY <1>6, <2>1
  <2>3. GlobalPage(a) = TRUE \/ GlobalPage(a) = FALSE
    BY DEF GlobalPage
  <2>4. e.global = (lo[0].g /\ lo[1].g)
    BY <1>8
  <2> QED BY <2>2, <2>3, <2>4, Zenon
<1>10. e \in EntryTypes
  BY <1>2, <1>4, <1>5, <1>7, <1>8, <1>9 DEF EntryTypes, tlb_write
<1>11. EntryFor(e, a)
  BY <1>6, <1>8, <1>9 DEF EntryFor
<1>12. Matches(e, a, hi.asid)
  BY <1>8 DEF Matches, VpnOf
<1>13. Select(a, MaskAt(a)) \in Pages
  BY <1>1, PairIs
<1>14. PageIn(e, a).v
  BY <1>6, <1>8, <1>13 DEF PageIn
<1> QED BY <1>5, <1>8, <1>10, <1>11, <1>12, <1>14

LEMMA RefillInv == ASSUME TlbGuest, TlbInv, RefillHandler PROVE TlbInv'
<1> DEFINE a == tries.at
           e == tlb_write(HandlerHi(a), HandlerLo(a), MaskAt(a))
<1>1. status.exl /\ tries.at # -1 /\ tries.why = "miss" /\ UNCHANGED <<hi, tries>>
  BY DEF RefillHandler
<1>2. a \in TlbAddresses
  BY <1>1 DEF TlbInv, TlbTypes
<1>3. /\ status' = [status EXCEPT !.exl = FALSE] /\ segment' = default_segment
      /\ ~ status'.exl /\ status' \in StatusValues
      /\ [status' EXCEPT !.exl = FALSE] \in TlbStatus
  BY StatusIs DEF RefillHandler, VR4300_ERET_TLB, TlbInv, TlbTypes
<1>4. PICK i \in DOMAIN tlb : tlb' = [tlb EXCEPT ![i] = e]
  BY DEF RefillHandler
<1>5. Current = {} /\ tries.count = 1
  BY <1>1 DEF TlbInv, FaultState
<1>6. /\ e \in EntryTypes /\ EntryFor(e, a) /\ e.asid = hi.asid
      /\ e.vpn2 # -1 /\ Matches(e, a, hi.asid) /\ PageIn(e, a).v
  BY <1>1, <1>2, RefillEntry
<1> HIDE DEF a, e
<1>7. tlb \in [Slots -> EntryTypes] /\ i \in Slots /\ TlbRight(tlb)
  BY <1>4 DEF TlbInv, TlbTypes, TlbRight
<1>8. \A j \in Slots : tlb[j].vpn2 # -1 => ~ Matches(tlb[j], a, hi.asid)
  BY <1>5, <1>7 DEF Current, Matching, a
<1>9. TlbRight(tlb')
  BY <1>2, <1>4, <1>6, <1>7, <1>8, PutRight
<1>10. Current' = {i} /\ tlb'[i] = e
  <2>1. \A j \in Slots : tlb'[j] = IF j = i THEN e ELSE tlb[j]
    BY <1>4, <1>7
  <2>2. DOMAIN tlb' = Slots
    BY <1>4, <1>7
  <2>3. Current' = Matching(tlb', a, hi.asid)
    BY <1>1 DEF Current, a
  <2> QED BY <1>6, <1>7, <1>8, <2>1, <2>2, <2>3 DEF Matching
<1>11. TlbTypes'
  BY <1>1, <1>3, <1>9 DEF TlbInv, TlbTypes
<1>12. SegmentKept'
  BY <1>3 DEF SegmentKept
<1>13. FaultState'
  BY <1>1, <1>3, <1>5, <1>6, <1>10 DEF FaultState, a
<1> QED BY <1>11, <1>12, <1>13 DEF TlbInv

LEMMA PageInv == ASSUME TlbGuest, TlbInv, PageHandler PROVE TlbInv'
<1> DEFINE a == tries.at
<1>1. status.exl /\ tries.at # -1 /\ tries.why # "miss" /\ UNCHANGED <<hi, tries>>
  BY DEF PageHandler
<1>2. a \in TlbAddresses /\ TlbRight(tlb) /\ tlb \in [Slots -> EntryTypes]
  BY <1>1 DEF TlbInv, TlbTypes, TlbRight
<1>3. /\ status' = [status EXCEPT !.exl = FALSE] /\ segment' = default_segment
      /\ ~ status'.exl /\ status' \in StatusValues
      /\ [status' EXCEPT !.exl = FALSE] \in TlbStatus
  BY StatusIs DEF PageHandler, VR4300_ERET_TLB, TlbInv, TlbTypes
<1>4. PICK i \in Current :
        LET read == TLBR(tlb[i])
            changed == [read.lo EXCEPT ![Select(a, read.mask)] =
                          IF tries.why = "mod" THEN [@ EXCEPT !.d = TRUE] ELSE [@ EXCEPT !.v = TRUE]]
        IN tlb' = [tlb EXCEPT ![i] = tlb_write(read.entryhi, changed, read.mask)]
  BY DEF PageHandler, Current
<1> DEFINE old == tlb[i]
           p == Select(a, old.mask)
           page == IF tries.why = "mod" THEN [old.lo[p] EXCEPT !.d = TRUE]
                   ELSE [old.lo[p] EXCEPT !.v = TRUE]
           lo == [old.lo EXCEPT ![p] = page]
           e == tlb_write([vpn2 |-> old.vpn2, asid |-> old.asid], lo, old.mask)
<1>5. tlb' = [tlb EXCEPT ![i] = e]
  BY <1>4 DEF TLBR
<1>6. i \in Slots /\ old \in EntryTypes /\ old.vpn2 # -1 /\ Matches(old, a, hi.asid)
  BY <1>2 DEF Current, Matching
<1>7. PICK b \in TlbAddresses : EntryFor(old, b)
  BY <1>2, <1>6 DEF TlbRight
<1>8. p \in Pages
  BY <1>2, <1>6, <1>7, MatchRight
<1> HIDE DEF a, p, old
<1>9. /\ old.lo \in [Pages -> PageTypes] /\ old.lo[p] \in PageTypes
      /\ old.mask \in {0, 1} /\ old.vpn2 \in Int /\ old.asid \in Nat /\ old.global \in BOOLEAN
  BY <1>6, <1>8 DEF EntryTypes
<1>10. /\ page \in PageTypes /\ page.frame = old.lo[p].frame /\ page.g = old.lo[p].g
       /\ tries.why = "mod" => page.d /\ page.v = old.lo[p].v
       /\ tries.why # "mod" => page.v
  BY <1>9 DEF PageTypes
<1> HIDE DEF page
<1>11. /\ lo \in [Pages -> PageTypes] /\ lo[p] = page
       /\ \A q \in Pages : lo[q].frame = old.lo[q].frame /\ lo[q].g = old.lo[q].g
  BY <1>8, <1>9, <1>10
<1> HIDE DEF lo
<1>12. /\ e.vpn2 = old.vpn2 /\ e.asid = old.asid /\ e.mask = old.mask /\ e.lo = lo
       /\ e.global = (lo[0].g /\ lo[1].g)
  BY DEF tlb_write
<1>13. e.global = old.global
  <2>1. 0 \in Pages /\ 1 \in Pages
    BY DEF Pages
  <2>2. /\ lo[0].g \in BOOLEAN /\ lo[1].g \in BOOLEAN
        /\ old.lo[0].g = lo[0].g /\ old.lo[1].g = lo[1].g
    BY <1>11, <2>1 DEF PageTypes
  <2>3. /\ old.global <=> GlobalPage(b)
        /\ old.lo[0].g <=> GlobalPage(b)
        /\ old.lo[1].g <=> GlobalPage(b)
    BY <1>7, <2>1 DEF EntryFor
  <2>4. old.global = TRUE \/ old.global = FALSE
    BY <1>9
  <2>5. e.global = (lo[0].g /\ lo[1].g)
    BY <1>12
  <2>6. (lo[0].g = TRUE \/ lo[0].g = FALSE) /\ (lo[1].g = TRUE \/ lo[1].g = FALSE)
    BY <2>2
  <2>7. (old.global <=> lo[0].g) /\ (old.global <=> lo[1].g)
    BY <2>2, <2>3
  <2> HIDE DEF e
  <2> QED BY <2>4, <2>5, <2>6, <2>7, Zenon
<1>14. e \in EntryTypes
  BY <1>9, <1>11, <1>12, <1>13 DEF EntryTypes, tlb_write
<1> HIDE DEF e
<1>15. TlbRight(tlb')
  BY <1>2, <1>5, <1>6, <1>11, <1>12, <1>13, <1>14, ChangeRight DEF old
<1>16. /\ \A j \in Slots : tlb'[j] = IF j = i THEN e ELSE tlb[j]
       /\ DOMAIN tlb' = Slots /\ Current' = Matching(tlb', a, hi.asid)
  BY <1>1, <1>2, <1>5, <1>6 DEF Current, a
<1>17. Current' = {i}
  <2>1. i \in Current'
    BY <1>6, <1>12, <1>13, <1>16 DEF Matching, Matches
  <2>2. ASSUME NEW j \in Current', j # i PROVE FALSE
    <3>1. j \in Matching(tlb, a, hi.asid)
      BY <1>2, <1>16, <2>2 DEF Matching
    <3>2. i \in Matching(tlb, a, hi.asid)
      BY <1>2, <1>6 DEF Matching, old
    <3> QED BY <1>2, <2>2, <3>1, <3>2, MatchOnce
  <2> QED BY <2>1, <2>2
<1>18. PageIn(tlb'[i], a) = page
  BY <1>6, <1>11, <1>12, <1>16 DEF PageIn, p
<1>19. tries.why = "mod" => old.lo[p].v
  BY <1>1 DEF TlbInv, FaultState, PageIn, old, p, a
<1>20. TlbTypes'
  BY <1>1, <1>3, <1>15 DEF TlbInv, TlbTypes
<1>21. SegmentKept'
  BY <1>3 DEF SegmentKept
<1>22. \/ tries.why = "invalid" /\ tries.count = 1
       \/ tries.why = "mod" /\ (tries.count = 1 \/ tries.count = 2)
  BY <1>1 DEF TlbInv, FaultState
<1>23. FaultState'
  BY <1>1, <1>3, <1>10, <1>17, <1>18, <1>19, <1>22 DEF FaultState, a
<1> QED BY <1>20, <1>21, <1>23 DEF TlbInv

LEMMA ContextInv ==
  ASSUME TlbGuest, TlbInv, NEW asid \in Asids, ContextSwitch(asid)
  PROVE  TlbInv'
<1>1. ~ status.exl /\ tries.at = -1 /\ hi' = [hi EXCEPT !.asid = asid]
      /\ UNCHANGED <<tlb, status, segment, tries>>
  BY DEF ContextSwitch
<1>2. hi' \in [vpn2 : Nat, asid : Asids]
  BY <1>1 DEF TlbInv, TlbTypes
<1>3. TlbTypes'
  BY <1>1, <1>2 DEF TlbInv, TlbTypes, TlbRight
<1> QED BY <1>1, <1>3 DEF TlbInv, SegmentKept, FaultState

LEMMA StatusInv ==
  ASSUME TlbGuest, TlbInv, NEW new \in TlbStatus, MTC0_STATUS(new)
  PROVE  TlbInv'
<1>1. /\ ~ status.exl /\ tries.at = -1 /\ status' = new /\ segment' = default_segment
      /\ UNCHANGED <<tlb, hi, tries>>
  BY DEF MTC0_STATUS
<1>2. new \in StatusValues /\ ~ new.exl /\ [new EXCEPT !.exl = FALSE] = new
  BY DEF TlbGuest, StatusValues
<1>3. TlbTypes'
  BY <1>1, <1>2 DEF TlbInv, TlbTypes, TlbRight
<1> QED BY <1>1, <1>2, <1>3 DEF TlbInv, SegmentKept, FaultState

LEMMA TlbNextInv == ASSUME TlbGuest, TlbInv, [TlbNext]_tlbVars PROVE TlbInv'
<1>1. ASSUME NEW a \in TlbAddresses, NEW write \in BOOLEAN, TlbAccess(a, write) PROVE TlbInv'
  BY <1>1, AccessInv
<1>2. CASE RefillHandler
  BY <1>2, RefillInv
<1>3. CASE PageHandler
  BY <1>3, PageInv
<1>4. ASSUME NEW asid \in Asids, ContextSwitch(asid) PROVE TlbInv'
  BY <1>4, ContextInv
<1>5. ASSUME NEW new \in TlbStatus, MTC0_STATUS(new) PROVE TlbInv'
  BY <1>5, StatusInv
<1>6. CASE UNCHANGED tlbVars
  BY <1>6 DEF tlbVars, TlbInv, TlbTypes, TlbRight, SegmentKept, FaultState, Current
<1> QED BY <1>1, <1>2, <1>3, <1>4, <1>5, <1>6 DEF TlbNext

LEMMA TlbInvRight == ASSUME TlbGuest, TlbInv PROVE AddressesRight
<1>1. status \in StatusValues /\ TlbRight(tlb) /\ tlb \in [Slots -> EntryTypes]
  BY DEF TlbInv, TlbTypes, TlbRight
<1>2. SegmentsRight
  <2>1. ASSUME NEW a \in VAddresses
        PROVE  ManualNames(a, ModeOf(status), Use64(status)) =
                 IF get_segment(a, status) = NULL THEN {} ELSE {get_segment(a, status).name}
    <3>1. a \in Nat /\ a < 8192
      BY DEF VAddresses, VSize
    <3> QED BY <1>1, <3>1, SegmentNamed
  <2> QED BY <2>1 DEF SegmentsRight
<1>3. SegmentCurrent
  BY SegmentForIs DEF SegmentCurrent
<1>4. TranslatedRight
  <2> SUFFICES ASSUME NEW a \in TlbAddresses, NEW i \in Matching(tlb, a, hi.asid)
               PROVE  PhysicalOf(tlb[i], a) = RightPhysical(a, hi.asid)
    BY DEF TranslatedRight
  <2>1. i \in Slots /\ tlb[i] \in EntryTypes /\ tlb[i].vpn2 # -1 /\ Matches(tlb[i], a, hi.asid)
    BY <1>1 DEF Matching
  <2>2. PICK b \in TlbAddresses : EntryFor(tlb[i], b)
    BY <1>1, <2>1 DEF TlbRight
  <2> QED BY <2>1, <2>2, MatchRight
<1>5. OneEntry
  <2> SUFFICES ASSUME NEW a \in TlbAddresses
               PROVE  Cardinality(Matching(tlb, a, hi.asid)) <= 1
    BY DEF OneEntry
  <2> DEFINE found == Matching(tlb, a, hi.asid)
  <2>1. CASE found = {}
    <3>1. Cardinality({}) = 0
      BY FS_EmptySet
    <3> QED BY <2>1, <3>1
  <2>2. CASE found # {}
    <3>1. PICK i \in found : TRUE
      BY <2>2
    <3>2. found = {i}
      BY <1>1, <3>1, MatchOnce
    <3>3. Cardinality({i}) = 1
      BY FS_Singleton
    <3> QED BY <3>2, <3>3
  <2> QED BY <2>1, <2>2
<1>6. FaultsEnd
  <2>1. tries.at = -1 => tries.count = 0
    BY DEF TlbInv, FaultState
  <2>2. tries.at # -1 => tries.count = 1 \/ tries.count = 2
    BY DEF TlbInv, FaultState
  <2> QED BY <2>1, <2>2 DEF FaultsEnd
<1>7. TlbRoundTrip
  <2> SUFFICES ASSUME NEW i \in DOMAIN tlb, tlb[i].vpn2 # -1
               PROVE  tlb_write(TLBR(tlb[i]).entryhi, TLBR(tlb[i]).lo, TLBR(tlb[i]).mask) = tlb[i]
    BY DEF TlbRoundTrip
  <2> DEFINE e == tlb[i]
  <2>1. i \in Slots /\ e \in EntryTypes
    BY <1>1
  <2>2. PICK b \in TlbAddresses : EntryFor(e, b)
    BY <1>1, <2>1 DEF TlbRight
  <2>3. 0 \in Pages /\ 1 \in Pages
    BY DEF Pages
  <2>4. (e.global <=> GlobalPage(b)) /\ (e.lo[0].g <=> GlobalPage(b)) /\ (e.lo[1].g <=> GlobalPage(b))
    BY <2>2, <2>3 DEF EntryFor
  <2>5. /\ e.global = TRUE \/ e.global = FALSE
        /\ e.lo[0].g = TRUE \/ e.lo[0].g = FALSE
        /\ e.lo[1].g = TRUE \/ e.lo[1].g = FALSE
    BY <2>1, <2>3 DEF EntryTypes, PageTypes
  <2> HIDE DEF e
  <2>6. e.global = (e.lo[0].g /\ e.lo[1].g)
    BY <2>4, <2>5, Zenon
  <2>7. e = [vpn2 |-> e.vpn2, asid |-> e.asid, global |-> e.global, mask |-> e.mask, lo |-> e.lo]
    BY <2>1 DEF EntryTypes
  <2>8. tlb_write(TLBR(e).entryhi, TLBR(e).lo, TLBR(e).mask) =
          [vpn2 |-> e.vpn2, asid |-> e.asid, global |-> (e.lo[0].g /\ e.lo[1].g), mask |-> e.mask,
           lo |-> e.lo]
    BY DEF tlb_write, TLBR
  <2>9. tlb_write(TLBR(e).entryhi, TLBR(e).lo, TLBR(e).mask) = e
    BY <2>6, <2>7, <2>8, Zenon
  <2> QED BY <2>9 DEF e
<1> QED BY <1>2, <1>3, <1>4, <1>5, <1>6, <1>7 DEF AddressesRight

\* AddressesRight, always: every address gets the segment of the instruction
\* set's map, the segment that EX/DC keeps is current, at most one entry of the
\* TLB matches an address and it gives the page of the running process, an
\* access is stopped at most three times (tlb_probe and tlb_write of tlb.c, the
\* TLB exceptions of fault.c), and TLBWI undoes TLBR.
THEOREM AddressesAlwaysRight == ASSUME TlbGuest PROVE TlbSpec => []AddressesRight
<1>1. TlbInit => TlbInv
  BY TlbInitInv
<1>2. TlbInv /\ [TlbNext]_tlbVars => TlbInv'
  BY TlbNextInv
<1>3. TlbInv => AddressesRight
  BY TlbInvRight
<1> QED BY <1>1, <1>2, <1>3, PTL DEF TlbSpec
==============================================================================
