--------------------------- MODULE RawMemoryProofs ---------------------------
(***************************************************************************)
(* Nothing a host reads, writes or gives up takes a byte away from its     *)
(* place, for buffers, memories and pages of any size: the chunks of a     *)
(* loop meet those of the host as long as the host it works for is there,  *)
(* and what a loop does after that stays within the reach of its request.  *)
(* And a transfer that ends well has done what the host asked for.         *)
(***************************************************************************)
EXTENDS RawMemory, SequenceTheorems, TLAPS

Placed(c) == mem[c][2] = c[2]

(* A clean transfer, not yet parsed, will find no loop that arms EP0.      *)
CleanInv ==
  clean /\ pending_setup =>
    /\ ~ep0.busy /\ ep0.hsnak /\ moved = 0 /\ got = <<>> /\ stage # "done"
    /\ \/ pc = "loop"
       \/ pc \in {"arm", "read"} /\ arg_len = 0
       \/ pc = "data" /\ arg_len <= EP0BUFF_SIZE

(* The chunk that has come lies in the buffer, in its order.               *)
ChunkHere == \A i \in 0..(Len1 - 1) : buf[i + 1] = <<"new", arg_addr + i>>

(* The host of a write is there: before each chunk arrives it is where the *)
(* loop is, and the last chunk stays in the buffer until it is taken.      *)
Expected(n) == stage = "data" /\ xfer = request /\ request.wValue + moved = arg_addr + n
GivenInv ==
  given /\ ~request.read =>
    \/ pc = "arm" /\ ~ep0.busy /\ arg_len > 0 /\ Expected(0)
    \/ pc = "data" /\ ep0.busy /\ arg_len > 0 /\ Expected(0)
    \/ pc = "data" /\ ~ep0.busy /\ arg_len > EP0BUFF_SIZE /\ Expected(EP0BUFF_SIZE) /\ ChunkHere
    \/ pc = "data" /\ ~ep0.busy /\ arg_len <= EP0BUFF_SIZE /\ ChunkHere
    \/ pc = "arm" /\ arg_len = 0

(* Between the chunks of a request.                                        *)
LoopInv ==
  /\ pc = "loop" => ~given
  /\ pc # "loop" => /\ request \in Requests /\ request.kind # "PAGE_SIZE"
                    /\ request.wValue <= arg_addr /\ request.read = (pc = "read")
  /\ pc = "data" => arg_len > 0
  /\ stage = "data" => moved < xfer.len

(* A loop at work has put in place what it has come past.                  *)
PlacedInv ==
  pc \in {"arm", "data"} =>
    \/ Reach(request) \subseteq harmed
    \/ \A c \in Reach(request) \ harmed :
         request.kind # "EXT_RAM" \/ c[2] < arg_addr => Placed(c)
ReadPlacedInv == pc = "read" => \A c \in Cells \ harmed : Placed(c)

Inv == /\ TypeOK /\ CleanInv /\ GivenInv /\ LoopInv /\ PlacedInv /\ ReadPlacedInv
       /\ BytesInPlace

(***************************************************************************)
(* Addresses                                                               *)
(***************************************************************************)
(* The sizes are numbers, those that divide positive.                      *)
LEMMA Sizes ==
  /\ EP0BUFF_SIZE \in Nat /\ EP0BUFF_SIZE > 0
  /\ SmallEnd \in Nat /\ Top \in Nat /\ SmallEnd <= Top /\ Page \in Nat /\ Page > 0
BY SizeAssumption

(* Division with a remainder: the quotient and the rest are unique.        *)
LEMMA Division ==
  ASSUME NEW p \in Nat, p > 0, NEW a \in Nat
  PROVE  /\ a \div p \in Nat /\ a % p \in Nat /\ a % p < p /\ a % p <= a
         /\ a = p * (a \div p) + (a % p)
<1>1. a \div p \in Int /\ a % p \in Nat /\ a % p < p
  OBVIOUS
<1>2. a = p * (a \div p) + (a % p)
  OBVIOUS
<1>3. a \div p \in Nat
  OBVIOUS
<1>4. p * (a \div p) >= 0
  BY <1>3
<1> QED
  BY <1>1, <1>2, <1>3, <1>4

(* A quotient and a remainder are the only ones.                           *)
LEMMA Quotient ==
  ASSUME NEW p \in Nat, p > 0, NEW q \in Nat, NEW r \in Nat, r < p
  PROVE  (p * q + r) \div p = q /\ (p * q + r) % p = r
OBVIOUS

(* A block whose size divides the page's does not cross a page.            *)
LEMMA BlockInPage ==
  ASSUME NEW b \in Nat, b > 0, Page % b = 0, NEW a \in Nat
  PROVE  a % b <= a % Page
<1> USE Sizes
<1> DEFINE m == Page \div b
           q == a \div Page
           r == a % Page
           s == r \div b
           t == r % b
<1>1. m \in Nat /\ Page = b * m
  BY Division
<1>2. q \in Nat /\ r \in Nat /\ a = Page * q + r
  BY Division
<1>3. s \in Nat /\ t \in Nat /\ t < b /\ t <= r /\ r = b * s + t
  BY <1>2, Division
<1>4. m * q + s \in Nat
  BY <1>1, <1>2, <1>3
<1>5. a = b * (m * q + s) + t
  <2>1. Page * q = b * (m * q)
    BY <1>1, <1>2
  <2>2. b * (m * q + s) = b * (m * q) + b * s
    BY <1>1, <1>2, <1>3
  <2> HIDE DEF m, q, r, s, t
  <2> QED BY <1>1, <1>2, <1>3, <2>1, <2>2
<1> HIDE DEF m, q, s, t
<1>6. a % b = t
  BY <1>3, <1>4, <1>5, Quotient
<1> QED
  BY <1>3, <1>6

(* Counting on within a page from an address stays in the page; as far as  *)
(* the page reaches it is addition.                                        *)
LEMMA WithinPage ==
  ASSUME NEW x \in Nat, NEW d \in Nat
  PROVE  LET y == (x - (x % Page)) + (((x % Page) + d) % Page) IN
         y \in Nat /\ y \div Page = x \div Page /\ (d + (x % Page) < Page => y = x + d)
<1> USE Sizes
<1> DEFINE q == x \div Page
           r == x % Page
           s == (r + d) % Page
<1>1. q \in Nat /\ r \in Nat /\ x = Page * q + r
  BY Division
<1>2. s \in Nat /\ s < Page
  BY <1>1, Division
<1>3. (x - r) + s = Page * q + s
  BY <1>1, <1>2
<1>4. Page * q + s \in Nat /\ (Page * q + s) \div Page = q
  <2> HIDE DEF q, s
  <2> QED BY <1>1, <1>2, Quotient
<1>5. ASSUME d + r < Page PROVE s = r + d
  <2>1. r + d = Page * 0 + (r + d)
    BY <1>1
  <2> HIDE DEF r
  <2> QED BY <1>1, <1>5, <2>1, Quotient
<1> HIDE DEF q, s
<1>6. (x - r) + s \in Nat /\ ((x - r) + s) \div Page = q
  BY <1>3, <1>4
<1>7. d + r < Page => (x - r) + s = x + d
  BY <1>1, <1>5
<1> QED
  BY <1>6, <1>7 DEF q, s

(* What a request of a host's says, and which addresses it is about.       *)
LEMMA RequestType ==
  ASSUME NEW r \in Requests
  PROVE  /\ r.kind \in Kinds /\ r.read \in BOOLEAN /\ r.wValue \in Nat /\ r.len \in Nat
         /\ r.kind # "PAGE_SIZE" => r.wValue + r.len <= Top + 1
         /\ Chip(r) = "small" => r.wValue + r.len <= SmallEnd
         /\ Chip(r) \in {"small", "large", "xram"} /\ (Chip(r) = "xram" <=> r.kind = "EXT_RAM")
BY RequestAssumption DEF Chip, Small

(* The pages of the small chip: an address in the page of one of its       *)
(* addresses is its own too.                                               *)
LEMMA SmallWhole ==
  ASSUME NEW x \in Nat
  PROVE  /\ x < SmallEnd + 1 => x % (SmallEnd + 1) = x
         /\ \A y \in Nat : y < SmallEnd + 1 /\ x \div Page = y \div Page => x < SmallEnd + 1
<1> USE Sizes
<1>1. ASSUME x < SmallEnd + 1 PROVE x % (SmallEnd + 1) = x
  <2>1. x = (SmallEnd + 1) * 0 + x
    OBVIOUS
  <2> QED BY <1>1, <2>1, Quotient
<1>2. ASSUME NEW y \in Nat, y < SmallEnd + 1, x \div Page = y \div Page
      PROVE  x < SmallEnd + 1
  <2> DEFINE m == (SmallEnd + 1) \div Page
             q == y \div Page
  <2>1. m \in Nat /\ SmallEnd + 1 = Page * m
    <3>1. (SmallEnd + 1) % Page = 0
      BY SizeAssumption
    <3> QED BY <3>1, Division
  <2>2. q \in Nat /\ Page * q <= y
    BY Division
  <2>3. x < Page * q + Page
    BY <1>2, Division
  <2> HIDE DEF m, q
  <2>4. q < m
    BY <1>2, <2>1, <2>2
  <2>5. Page * (q + 1) <= Page * m
    BY <2>1, <2>2, <2>4
  <2>6. Page * (q + 1) = Page * q + Page
    BY <2>2
  <2>7. Page * q \in Nat /\ Page * m \in Nat
    BY <2>1, <2>2
  <2> QED BY <2>1, <2>3, <2>5, <2>6, <2>7
<1> QED
  BY <1>1, <1>2

(* An address of a request is one of its chip, as it is.                   *)
LEMMA Address ==
  ASSUME NEW r \in Requests, r.kind # "PAGE_SIZE",
         NEW a \in Nat, r.wValue <= a, a < r.wValue + r.len
  PROVE  a \in Addresses(r) /\ Cell(r, a) = <<Chip(r), a>> /\ Cell(r, a) \in Span(r)
<1>1. a \in 0..Top
  BY RequestType, Sizes
<1>2. Chip(r) = "small" => a % (SmallEnd + 1) = a
  BY RequestType, Sizes, SmallWhole
<1> QED
  BY <1>1, <1>2 DEF Addresses, Cell, Span

(* The cells of a range within its memory are cells.                       *)
LEMMA SpanCells ==
  ASSUME NEW r \in Requests, r.kind # "PAGE_SIZE"
  PROVE  /\ Span(r) \subseteq Reach(r) /\ Reach(r) \subseteq Cells
         /\ \A c \in Span(r) : c = <<Chip(r), c[2]>> /\ c[2] \in Nat
                               /\ r.wValue <= c[2] /\ c[2] < r.wValue + r.len
<1>1. \A c \in Span(r) : /\ c = <<Chip(r), c[2]>> /\ c[2] \in 0..Top /\ c[2] \in Addresses(r)
                         /\ r.wValue <= c[2] /\ c[2] < r.wValue + r.len
  BY DEF Span, Addresses
<1>2. Span(r) \subseteq Cells
  <2> SUFFICES ASSUME NEW c \in Span(r) PROVE c \in Cells
    OBVIOUS
  <2>1. Chip(r) = "small" => c[2] \in 0..SmallEnd
    BY <1>1, RequestType, Sizes
  <2> QED BY <1>1, <2>1, RequestType DEF Cells
<1>3. Span(r) \subseteq Reach(r)
  BY <1>1, <1>2 DEF Reach
<1> QED
  BY <1>1, <1>2, <1>3, Sizes DEF Reach

(* The request in work and what is left of it.                             *)
LEMMA Working ==
  ASSUME TypeOK, LoopInv, pc # "loop"
  PROVE  /\ request \in Requests /\ request.kind # "PAGE_SIZE"
         /\ arg_addr \in Nat /\ arg_len \in Nat /\ request.wValue \in Nat /\ request.len \in Nat
         /\ request.wValue <= arg_addr /\ arg_addr + arg_len = request.wValue + request.len
         /\ Len1 \in Nat /\ Len1 <= arg_len /\ Len1 <= EP0BUFF_SIZE
<1>1. request \in Requests /\ request.kind # "PAGE_SIZE" /\ request # None
  BY DEF LoopInv, None
<1> QED
  BY <1>1, RequestType, Sizes DEF TypeOK, LoopInv, Len1

(* Where eeprom_write puts byte i of a piece: at its address if the page   *)
(* is taken for one that fits, otherwise in a page of the request.         *)
LEMMA TargetReach ==
  ASSUME TypeOK, LoopInv, pc = "data", request.kind # "EXT_RAM", NEW i \in 0..(Len1 - 1)
  PROVE  /\ Target(i) \in Nat
         /\ PageFits(request) => Target(i) = arg_addr + i
         /\ Cell(request, Target(i)) \in Cells => Cell(request, Target(i)) \in Reach(request)
<1> USE Sizes
<1> DEFINE b == PageBytes(ee_page_size)
           a == arg_addr + i
           begin == a - (a % b)
           piece == IF begin < arg_addr THEN arg_addr ELSE begin
           d == a - piece
<1>1. request \in Requests /\ request.kind # "PAGE_SIZE" /\ arg_addr \in Nat /\ arg_len \in Nat
      /\ i \in Nat /\ i < arg_len /\ request.wValue <= arg_addr
      /\ arg_addr + arg_len = request.wValue + request.len
      /\ request.wValue \in Nat /\ request.len \in Nat
  BY Working DEF Len1
<1>2. b \in Nat /\ b > 0
  <2>1. ee_page_size \in 0..255
    BY DEF TypeOK
  <2> QED BY <2>1, SizeAssumption
<1>3. a \in Nat /\ piece \in Nat /\ arg_addr <= piece /\ piece <= a /\ d \in Nat /\ d <= a % b
      /\ a % b \in Nat
  BY <1>1, <1>2, Division
<1>4. a \in Addresses(request) /\ piece \in Addresses(request)
  <2>1. a < request.wValue + request.len /\ piece < request.wValue + request.len
        /\ request.wValue <= a /\ request.wValue <= piece
    BY <1>1, <1>3, RequestType
  <2> HIDE DEF a, piece
  <2> QED BY <1>1, <1>3, <2>1, Address
<1>5. Target(i) = (piece - (piece % Page)) + (((piece % Page) + d) % Page)
  BY DEF Target
<1> HIDE DEF piece, d, a, b
<1>6. Target(i) \in Nat /\ Target(i) \div Page = piece \div Page
      /\ (d + (piece % Page) < Page => Target(i) = piece + d)
  BY <1>3, <1>5, WithinPage
<1>7. PageFits(request) => Target(i) = a
  <2> SUFFICES ASSUME PageFits(request) PROVE Target(i) = a
    OBVIOUS
  <2>1. a % b <= a % Page
    BY <1>1, <1>2, <1>3, BlockInPage DEF PageFits, b
  <2>2. a = Page * (a \div Page) + (a % Page) /\ a \div Page \in Nat /\ a % Page \in Nat
        /\ a % Page < Page
    BY <1>3, Division
  <2>3. piece = Page * (a \div Page) + ((a % Page) - d) /\ (a % Page) - d \in Nat
        /\ (a % Page) - d < Page
    BY <1>3, <2>1, <2>2 DEF d
  <2>4. piece % Page = (a % Page) - d
    BY <2>2, <2>3, Quotient
  <2> QED BY <1>3, <1>6, <2>2, <2>4 DEF d
<1>8. ASSUME Cell(request, Target(i)) \in Cells PROVE Cell(request, Target(i)) \in Reach(request)
  <2>1. CASE PageFits(request)
    <3>1. a < request.wValue + request.len /\ request.wValue <= a
      BY <1>1 DEF a
    <3>2. Cell(request, a) \in Span(request)
      BY <1>1, <1>3, <3>1, Address
    <3>3. Target(i) = a
      BY <1>7, <2>1
    <3> QED BY <2>1, <3>2, <3>3 DEF Reach
  <2>2. CASE ~PageFits(request)
    <3>1. Chip(request) = "small" => Target(i) % (SmallEnd + 1) = Target(i)
      <4> SUFFICES ASSUME Chip(request) = "small" PROVE Target(i) < SmallEnd + 1
        BY <1>6, Quotient, SmallWhole
      <4>1. piece < SmallEnd + 1
        BY <1>1, <1>3, <1>4, RequestType DEF Addresses
      <4> QED BY <1>3, <1>6, <4>1, SmallWhole
    <3>2. Cell(request, Target(i)) = <<Chip(request), Target(i)>>
      BY <3>1 DEF Cell
    <3> QED BY <1>4, <1>6, <1>8, <2>2, <3>2 DEF Reach
  <2> QED BY <2>1, <2>2
<1> QED
  BY <1>6, <1>7, <1>8 DEF a

(***************************************************************************)
(* What a chunk does to the memory                                         *)
(***************************************************************************)
(* Nothing outside the reach of the request.                               *)
LEMMA PutReach ==
  ASSUME NEW at, Put(at),
         \A i \in DOMAIN at :
          Cell(request, at[i]) \in Cells => Cell(request, at[i]) \in Reach(request)
  PROVE  \A c \in Cells \ Reach(request) : mem'[c] = mem[c]
<1> SUFFICES ASSUME NEW c \in Cells \ Reach(request) PROVE mem'[c] = mem[c]
  OBVIOUS
<1>1. {i \in DOMAIN at : Cell(request, at[i]) = c} = {}
  OBVIOUS
<1> QED
  BY <1>1 DEF Put

(* With bytes at consecutive addresses, these and no others, in order.     *)
LEMMA PutExact ==
  ASSUME NEW n \in Nat, NEW at, DOMAIN at = 0..(n - 1), Put(at), arg_addr \in Nat,
         \A i \in 0..(n - 1) : Cell(request, at[i]) = <<Chip(request), arg_addr + i>>,
         NEW c \in Cells, c = <<Chip(request), c[2]>>, c[2] \in Nat
  PROVE  mem'[c] = IF arg_addr <= c[2] /\ c[2] < arg_addr + n THEN InBuf(c[2] - arg_addr)
                                                              ELSE mem[c]
<1> DEFINE hits == {i \in DOMAIN at : Cell(request, at[i]) = c}
<1>1. \A i \in 0..(n - 1) : Cell(request, at[i]) = c <=> arg_addr + i = c[2]
  OBVIOUS
<1>2. mem'[c] = IF hits = {} THEN mem[c] ELSE InBuf(Max(hits))
  BY DEF Put
<1>3. CASE arg_addr <= c[2] /\ c[2] < arg_addr + n
  <2>1. hits = {c[2] - arg_addr}
    BY <1>1, <1>3
  <2>2. Max({c[2] - arg_addr}) = c[2] - arg_addr
    BY <1>3 DEF Max
  <2> QED BY <1>2, <1>3, <2>1, <2>2
<1>4. CASE ~(arg_addr <= c[2] /\ c[2] < arg_addr + n)
  <2>1. hits = {}
    BY <1>1, <1>4
  <2> QED BY <1>2, <1>4, <2>1
<1> QED
  BY <1>3, <1>4

(* The bytes n of a chunk for an EEPROM, all of them or some.              *)
LEMMA EepromPut ==
  ASSUME TypeOK, LoopInv, pc = "data", request.kind # "EXT_RAM",
         NEW n \in 0..Len1, Put(Targets(n))
  PROVE  /\ \A c \in Cells \ Reach(request) : mem'[c] = mem[c]
         /\ PageFits(request) =>
              \A c \in Span(request) :
                mem'[c] = IF arg_addr <= c[2] /\ c[2] < arg_addr + n THEN InBuf(c[2] - arg_addr)
                                                                     ELSE mem[c]
<1>1. n \in Nat /\ DOMAIN Targets(n) = 0..(n - 1)
      /\ \A i \in 0..(n - 1) : i \in 0..(Len1 - 1) /\ Targets(n)[i] = Target(i)
  BY Working DEF Targets
<1>2. \A c \in Cells \ Reach(request) : mem'[c] = mem[c]
  BY <1>1, TargetReach, PutReach
<1>3. ASSUME PageFits(request), NEW c \in Span(request)
      PROVE  mem'[c] = IF arg_addr <= c[2] /\ c[2] < arg_addr + n THEN InBuf(c[2] - arg_addr)
                                                                  ELSE mem[c]
  <2>1. \A i \in 0..(n - 1) : Cell(request, Targets(n)[i]) = <<Chip(request), arg_addr + i>>
    <3> SUFFICES ASSUME NEW i \in 0..(n - 1)
                 PROVE  Cell(request, Targets(n)[i]) = <<Chip(request), arg_addr + i>>
      OBVIOUS
    <3>1. Targets(n)[i] = arg_addr + i
      BY <1>1, <1>3, TargetReach
    <3>2. arg_addr + i \in Nat /\ request.wValue <= arg_addr + i
          /\ arg_addr + i < request.wValue + request.len
      BY <1>1, Working
    <3> QED BY <3>1, <3>2, Address, Working
  <2>2. c \in Cells /\ c = <<Chip(request), c[2]>> /\ c[2] \in Nat
    BY <1>3, SpanCells, Working
  <2> QED BY <1>1, <2>1, <2>2, PutExact, Working
<1> QED
  BY <1>2, <1>3

(* The copy to the external RAM.                                           *)
LEMMA RamPut ==
  ASSUME TypeOK, LoopInv, pc = "data", request.kind = "EXT_RAM", TakeRam
  PROVE  /\ \A c \in Cells \ Reach(request) : mem'[c] = mem[c]
         /\ \A c \in Span(request) :
              mem'[c] = IF arg_addr <= c[2] THEN InBuf(c[2] - arg_addr) ELSE mem[c]
<1> DEFINE at == [i \in 0..(arg_len - 1) |-> arg_addr + i]
<1>1. DOMAIN at = 0..(arg_len - 1) /\ Put(at)
  BY DEF TakeRam
<1>2. \A i \in 0..(arg_len - 1) : /\ Cell(request, at[i]) = <<Chip(request), arg_addr + i>>
                                  /\ Cell(request, at[i]) \in Reach(request)
  <2> SUFFICES ASSUME NEW i \in 0..(arg_len - 1)
               PROVE  /\ Cell(request, arg_addr + i) = <<Chip(request), arg_addr + i>>
                      /\ Cell(request, arg_addr + i) \in Span(request)
    BY SpanCells, Working
  <2>1. arg_addr + i \in Nat /\ request.wValue <= arg_addr + i
        /\ arg_addr + i < request.wValue + request.len
    BY Working
  <2> QED BY <2>1, Address, Working
<1> HIDE DEF at
<1>3. \A c \in Cells \ Reach(request) : mem'[c] = mem[c]
  BY <1>1, <1>2, PutReach
<1>4. ASSUME NEW c \in Span(request)
      PROVE  mem'[c] = IF arg_addr <= c[2] THEN InBuf(c[2] - arg_addr) ELSE mem[c]
  <2>1. c \in Cells /\ c = <<Chip(request), c[2]>> /\ c[2] \in Nat /\ c[2] < arg_addr + arg_len
    BY SpanCells, Working
  <2> QED BY <1>1, <1>2, <2>1, PutExact, Working
<1> QED
  BY <1>3, <1>4

(***************************************************************************)
(* The invariant                                                           *)
(***************************************************************************)
LEMMA InitInv == Init => Inv
<1> SUFFICES ASSUME Init PROVE Inv
  OBVIOUS
<1>1. TypeOK
  <2>1. ee_page_size \in 0..255 /\ ep0.bcl \in 0..EP0BUFF_SIZE
    BY SizeAssumption, Sizes DEF Init
  <2>2. ep0 \in [busy : BOOLEAN, hsnak : BOOLEAN, stall : BOOLEAN, bcl : 0..EP0BUFF_SIZE]
    BY Sizes DEF Init
  <2> QED BY <2>1, <2>2 DEF Init, TypeOK
<1>2. \A c \in Cells : Placed(c)
  BY DEF Init, Placed
<1> QED
  BY <1>1, <1>2 DEF Init, Inv, CleanInv, GivenInv, LoopInv, PlacedInv, ReadPlacedInv, BytesInPlace,
                     Placed

Ep0 == [busy : BOOLEAN, hsnak : BOOLEAN, stall : BOOLEAN, bcl : 0..EP0BUFF_SIZE]

(* With the host still there the buffer holds the bytes of the chunk.      *)
LEMMA GivenBytes ==
  ASSUME Inv, pc = "data", ~ep0.busy, given, NEW c \in Span(request),
         arg_addr <= c[2], c[2] < arg_addr + Len1
  PROVE  InBuf(c[2] - arg_addr) = <<"new", c[2]>>
<1>1. c[2] \in Nat /\ arg_addr \in Nat /\ Len1 \in Nat /\ Len1 <= EP0BUFF_SIZE /\ Len1 <= arg_len
  BY Working, SpanCells DEF Inv
<1>2. ChunkHere
  BY DEF Inv, GivenInv, LoopInv
<1>3. c[2] - arg_addr \in 0..(Len1 - 1) /\ c[2] - arg_addr < EP0BUFF_SIZE
      /\ arg_addr + (c[2] - arg_addr) = c[2]
  BY <1>1, Sizes
<1> QED
  BY <1>2, <1>3 DEF ChunkHere, InBuf

(* A chunk taken keeps to the reach of the request, and with the host      *)
(* there and a page that fits brings in its own bytes.  (Behind them the   *)
(* copy to the external RAM brings in more, which later chunks replace.)   *)
LEMMA ChunkEffect ==
  ASSUME Inv, TakeChunk
  PROVE  /\ \A c \in Cells \ Reach(request) : mem'[c] = mem[c]
         /\ given /\ PageFits(request) =>
              \A c \in Span(request) :
                IF arg_addr <= c[2] /\ c[2] < arg_addr + Len1
                  THEN mem'[c] = <<"new", c[2]>>
                  ELSE request.kind # "EXT_RAM" \/ c[2] < arg_addr => mem'[c] = mem[c]
<1> USE DEF TakeChunk
<1>1. pc = "data" /\ TypeOK /\ LoopInv /\ ~ep0.busy
  BY DEF Inv
<1>2. arg_addr \in Nat /\ Len1 \in Nat
  BY <1>1, Working
<1>3. CASE request.kind = "EXT_RAM"
  <2>1. TakeRam
    BY <1>3
  <2>2. \A c \in Span(request) :
          mem'[c] = IF arg_addr <= c[2] THEN InBuf(c[2] - arg_addr) ELSE mem[c]
    BY <1>1, <1>3, <2>1, RamPut
  <2>3. \A c \in Span(request) : c[2] \in Nat
    BY <1>1, SpanCells, Working
  <2> QED BY <1>1, <1>2, <1>3, <2>1, <2>2, <2>3, RamPut, GivenBytes
<1>4. CASE request.kind # "EXT_RAM"
  <2>1. Put(Targets(Len1)) /\ Len1 \in 0..Len1
    BY <1>2, <1>4 DEF TakeEeprom
  <2> QED BY <1>1, <1>2, <1>4, <2>1, EepromPut, GivenBytes
<1> QED
  BY <1>3, <1>4

(* One step per stretch of the loop.                                       *)
LEMMA HandlerInv == Inv /\ Handler => Inv'
<1> SUFFICES ASSUME Inv, Handler PROVE Inv'
  OBVIOUS
<1> USE Sizes DEF work, host
<1>1. ep0 \in Ep0
  BY DEF Inv, TypeOK, Ep0
<1>2. CASE PageSize
  <2> USE <1>2 DEF PageSize
  <2>1. ep0' \in Ep0
    BY <1>1 DEF Ep0
  <2>2. ee_page_size' \in 0..255
    <3>1. xfer \in Requests \cup {None}
      BY DEF Inv, TypeOK
    <3>2. xfer.wValue \in Nat
      BY <3>1, RequestType DEF None
    <3> QED BY <3>2
  <2>3. TypeOK'
    BY <2>1, <2>2 DEF Inv, TypeOK, Ep0
  <2>4. CleanInv' /\ GivenInv' /\ LoopInv'
    BY DEF Inv, CleanInv, GivenInv, LoopInv
  <2>5. PlacedInv' /\ ReadPlacedInv' /\ BytesInPlace'
    BY DEF Inv, PlacedInv, ReadPlacedInv, BytesInPlace, Placed
  <2> QED BY <2>3, <2>4, <2>5 DEF Inv
<1>3. CASE Parse
  <2> USE <1>3 DEF Parse
  <2>1. xfer \in Requests /\ xfer.kind # "PAGE_SIZE" /\ xfer.read \in BOOLEAN
        /\ xfer.wValue \in Nat /\ xfer.len \in Nat
    <3>1. xfer \in Requests \cup {None} /\ xfer # None
      BY DEF Inv, TypeOK, None
    <3> QED BY <3>1, RequestType
  <2>2. given' \in BOOLEAN /\ pc' \in {"read", "arm"}
    OBVIOUS
  <2>3. TypeOK'
    BY <2>1, <2>2 DEF Inv, TypeOK
  <2>4. CleanInv'
    BY DEF CleanInv
  <2>5. GivenInv'
    <3> SUFFICES ASSUME clean, stage = "data", ~xfer.read
                 PROVE  pc' = "arm" /\ ~ep0'.busy /\ arg_len' > 0 /\ Expected(0)'
      BY DEF GivenInv
    <3>1. ~ep0.busy /\ moved = 0 /\ xfer.len > 0
      BY <2>1 DEF Inv, CleanInv, LoopInv, TypeOK
    <3> QED BY <2>1, <3>1 DEF Expected
  <2>6. LoopInv'
    BY <2>1, <2>2 DEF Inv, LoopInv
  <2>7. \A c \in Cells \ harmed : Placed(c)
    BY DEF Inv, BytesInPlace, Placed
  <2>8. PlacedInv' /\ ReadPlacedInv' /\ BytesInPlace'
    <3>1. (\A c \in Cells \ harmed : Placed(c))'
      BY <2>7 DEF Placed
    <3>2. Reach(request)' \subseteq Cells
      BY <2>1, SpanCells DEF Reach, PageFits
    <3> QED BY <3>1, <3>2 DEF PlacedInv, ReadPlacedInv, BytesInPlace, Placed
  <2> QED BY <2>3, <2>4, <2>5, <2>6, <2>8 DEF Inv
<1>4. CASE ReadChunk
  <2> USE <1>4 DEF ReadChunk, SETUP_EP0_BUF
  <2>1. pc # "loop" /\ request.read
    BY DEF Inv, LoopInv
  <2>2. Len1 \in 0..EP0BUFF_SIZE /\ arg_len' \in Nat /\ arg_addr' \in Nat
        /\ arg_addr' + arg_len' = request.wValue + request.len /\ arg_addr <= arg_addr'
    BY <2>1, Working DEF Inv
  <2>3. ep0' \in Ep0
    BY <1>1, <2>2 DEF Ep0
  <2>4. TypeOK'
    BY <2>2, <2>3 DEF Inv, TypeOK, Ep0
  <2>5. CleanInv'
    BY DEF Inv, CleanInv, TypeOK
  <2>6. GivenInv'
    BY <2>1 DEF GivenInv
  <2>7. LoopInv'
    <3>1. request.wValue <= arg_addr'
      BY <2>1, <2>2, Working DEF Inv
    <3> QED BY <3>1 DEF Inv, LoopInv
  <2>8. PlacedInv' /\ ReadPlacedInv' /\ BytesInPlace'
    BY DEF Inv, PlacedInv, ReadPlacedInv, BytesInPlace, Placed, Reach, PageFits
  <2> QED BY <2>4, <2>5, <2>6, <2>8, <2>7 DEF Inv
<1>5. CASE ArmChunk
  <2> USE <1>5 DEF ArmChunk, SETUP_EP0_BUF
  <2>1. ep0' \in Ep0
    <3>1. 0 \in 0..EP0BUFF_SIZE /\ TRUE \in BOOLEAN /\ FALSE \in BOOLEAN
      OBVIOUS
    <3> QED BY <1>1, <3>1 DEF Ep0
  <2>2. ep0'.busy
    BY <1>1 DEF Ep0
  <2>3. TypeOK'
    BY <2>1 DEF Inv, TypeOK, Ep0
  <2>4. CleanInv'
    BY DEF Inv, CleanInv, TypeOK
  <2>5. GivenInv' /\ LoopInv'
    BY <2>2 DEF Inv, GivenInv, LoopInv, Expected, TypeOK
  <2>6. PlacedInv' /\ ReadPlacedInv' /\ BytesInPlace'
    BY DEF Inv, PlacedInv, ReadPlacedInv, BytesInPlace, Placed, Reach, PageFits
  <2> QED BY <2>3, <2>4, <2>5, <2>6 DEF Inv
<1>6. CASE TakeChunk
  <2> USE <1>6 DEF TakeChunk
  <2>1. /\ request \in Requests /\ request.kind # "PAGE_SIZE" /\ ~request.read
        /\ arg_addr \in Nat /\ arg_len \in Nat /\ arg_len > 0
        /\ Len1 \in Nat /\ Len1 <= arg_len /\ Len1 <= EP0BUFF_SIZE
        /\ request.wValue \in Nat /\ request.wValue <= arg_addr
        /\ arg_addr + arg_len = request.wValue + request.len
    BY Working DEF Inv, LoopInv
  <2>2. DOMAIN mem' = Cells
    BY DEF TakeRam, TakeEeprom, Put
  <2>3. Reach(request) \subseteq Cells
    BY <2>1, SpanCells
  <2>4. TypeOK'
    BY <2>1, <2>2, <2>3 DEF Inv, TypeOK
  <2>5. CleanInv'
    BY <2>1 DEF Inv, CleanInv, Len1
  <2>6. GivenInv'
    BY <2>1 DEF Inv, GivenInv, Expected, Len1
  <2>7. LoopInv'
    BY <2>1 DEF Inv, LoopInv
  <2>8. \A c \in Cells \ Reach(request) : mem'[c] = mem[c]
    BY ChunkEffect DEF Inv
  <2>9. BytesInPlace'
    BY <2>8 DEF Inv, BytesInPlace, Reach, PageFits
  <2>10. PlacedInv'
    <3>1. CASE given /\ PageFits(request)
      <4>1. Reach(request) = Span(request) /\ harmed' = harmed
        BY <3>1 DEF Reach
      <4>2. ASSUME NEW c \in Span(request) \ harmed, ~(Reach(request) \subseteq harmed),
                   request.kind # "EXT_RAM" \/ c[2] < arg_addr'
            PROVE  mem'[c][2] = c[2]
        <5>1. CASE arg_addr <= c[2] /\ c[2] < arg_addr + Len1
          BY <3>1, <5>1, ChunkEffect
        <5>2. CASE ~(arg_addr <= c[2] /\ c[2] < arg_addr + Len1)
          <6>1. request.kind # "EXT_RAM" \/ c[2] < arg_addr
            BY <2>1, <4>2, <5>2, SpanCells
          <6>2. mem'[c] = mem[c]
            BY <3>1, <4>2, <5>2, <6>1, ChunkEffect
          <6> QED BY <4>1, <4>2, <6>1, <6>2 DEF Inv, PlacedInv, Placed
        <5> QED BY <5>1, <5>2
      <4> QED BY <4>1, <4>2 DEF PlacedInv, Placed, Reach, PageFits
    <3>2. CASE ~(given /\ PageFits(request))
      BY <3>2 DEF PlacedInv, Reach, PageFits
    <3> QED BY <3>1, <3>2
  <2>11. ReadPlacedInv'
    BY DEF ReadPlacedInv
  <2> QED BY <2>4, <2>5, <2>6, <2>7, <2>9, <2>10, <2>11 DEF Inv
<1>7. CASE EepromFails
  <2> USE <1>7 DEF EepromFails, Return
  <2>1. pc # "loop" /\ request.kind # "EXT_RAM"
    OBVIOUS
  <2>2. ep0' \in Ep0
    BY <1>1 DEF Ep0
  <2>3. Reach(request) \subseteq Cells
    BY <2>1, SpanCells, Working DEF Inv
  <2>4. DOMAIN mem' = Cells /\ harmed' \subseteq Cells
    BY <2>3 DEF Put, Inv, TypeOK
  <2>5. TypeOK'
    BY <2>2, <2>4 DEF Inv, TypeOK, Ep0
  <2>6. CleanInv' /\ GivenInv' /\ LoopInv'
    BY <1>1 DEF Inv, CleanInv, GivenInv, LoopInv, Ep0
  <2>7. \A c \in Cells \ harmed' : mem'[c][2] = c[2]
    <3>1. CASE pc = "read"
      BY <3>1 DEF Inv, ReadPlacedInv, Placed
    <3>2. CASE pc = "data"
      <4>1. PICK n \in 0..Len1 : Put(Targets(n))
        BY <3>2
      <4>2. \A c \in Cells \ Reach(request) : mem'[c] = mem[c]
        BY <2>1, <3>2, <4>1, EepromPut DEF Inv
      <4>3. CASE given /\ PageFits(request)
        <5>1. Reach(request) = Span(request) /\ harmed' = harmed
          BY <3>2, <4>3 DEF Reach
        <5>2. ASSUME NEW c \in Span(request) \ harmed PROVE mem'[c][2] = c[2]
          <6>1. mem'[c] = IF arg_addr <= c[2] /\ c[2] < arg_addr + n THEN InBuf(c[2] - arg_addr)
                                                                     ELSE mem[c]
            BY <2>1, <3>2, <4>1, <4>3, EepromPut DEF Inv
          <6>2. CASE arg_addr <= c[2] /\ c[2] < arg_addr + n
            <7>1. c[2] < arg_addr + Len1
              BY <2>1, <6>2, Working, SpanCells DEF Inv
            <7> QED BY <3>2, <4>3, <6>1, <6>2, <7>1, GivenBytes
          <6>3. CASE ~(arg_addr <= c[2] /\ c[2] < arg_addr + n)
            BY <2>1, <3>2, <5>1, <6>1, <6>3 DEF Inv, PlacedInv, Placed
          <6> QED BY <6>2, <6>3
        <5> QED BY <4>2, <5>1, <5>2, <3>2 DEF Inv, BytesInPlace
      <4>4. CASE ~(given /\ PageFits(request))
        BY <3>2, <4>2, <4>4 DEF Inv, BytesInPlace
      <4> QED BY <4>3, <4>4
    <3> QED BY <3>1, <3>2
  <2>8. PlacedInv' /\ ReadPlacedInv' /\ BytesInPlace'
    BY <2>7 DEF PlacedInv, ReadPlacedInv, BytesInPlace
  <2> QED BY <2>5, <2>6, <2>8 DEF Inv
<1>8. CASE LoopEnd
  <2> USE <1>8 DEF LoopEnd, Return
  <2>1. TypeOK'
    BY DEF Inv, TypeOK
  <2>2. CleanInv' /\ GivenInv' /\ LoopInv'
    BY DEF Inv, CleanInv, GivenInv, LoopInv, None
  <2>3. \A c \in Cells \ harmed : Placed(c)
    <3> SUFFICES ASSUME NEW c \in Cells \ harmed, pc = "arm" PROVE Placed(c)
      BY DEF Inv, ReadPlacedInv
    <3>1. CASE c \notin Reach(request)
      BY <3>1 DEF Inv, BytesInPlace, Placed
    <3>2. CASE c \in Reach(request)
      <4>1. request.kind # "EXT_RAM" \/ c[2] < arg_addr
        <5>1. request.kind = "EXT_RAM" => c \in Span(request)
          BY <3>2 DEF Reach, PageFits
        <5> QED BY <5>1, SpanCells, Working DEF Inv
      <4> QED BY <3>2, <4>1 DEF Inv, PlacedInv
    <3> QED BY <3>1, <3>2
  <2>4. PlacedInv' /\ ReadPlacedInv' /\ BytesInPlace'
    BY <2>3 DEF PlacedInv, ReadPlacedInv, BytesInPlace, Placed
  <2> QED BY <2>1, <2>2, <2>4 DEF Inv
<1> QED
  BY <1>2, <1>3, <1>4, <1>5, <1>6, <1>7, <1>8 DEF Handler

(* What stays true while memory, request and page size are left alone.     *)
LEMMA SamePlaces ==
  ASSUME Inv, UNCHANGED <<pc, ee_page_size, request, arg_addr, mem, harmed>>
  PROVE  PlacedInv' /\ ReadPlacedInv' /\ BytesInPlace'
BY DEF Inv, PlacedInv, ReadPlacedInv, BytesInPlace, Placed, Reach, PageFits

(* One step per thing a host does.                                         *)
LEMMA HostInv == Inv /\ (HostSetup \/ Transfer \/ HostAbort) => Inv'
<1> SUFFICES ASSUME Inv, HostSetup \/ Transfer \/ HostAbort PROVE Inv'
  OBVIOUS
<1> USE Sizes DEF work, host
<1>1. ep0 \in Ep0 /\ xfer \in Requests \cup {None}
  BY DEF Inv, TypeOK, Ep0
<1>2. UNCHANGED <<pc, ee_page_size, request, arg_addr, arg_len, mem, harmed>>
  BY DEF HostSetup, Transfer, HostAbort, HostData, HostStatus, HostStalled
<1>3. PlacedInv' /\ ReadPlacedInv' /\ BytesInPlace'
  BY <1>2, SamePlaces
<1>4. CASE HostSetup
  <2> USE <1>4 DEF HostSetup, Idle
  <2>1. PICK q \in Requests : xfer' = q /\ stage' = IF q.len = 0 THEN "status" ELSE "data"
    OBVIOUS
  <2>2. q.len \in Nat
    BY RequestType
  <2>3. ep0' \in Ep0
    <3>1. FALSE \in BOOLEAN /\ TRUE \in BOOLEAN /\ pending_setup \in BOOLEAN
      BY DEF Inv, TypeOK
    <3> QED BY <1>1, <3>1 DEF Ep0
  <2>4. ~ep0'.busy /\ ep0'.hsnak
    BY <1>1 DEF Ep0
  <2>5. clean' \in BOOLEAN
    OBVIOUS
  <2>6. TypeOK'
    BY <1>2, <2>1, <2>3, <2>5 DEF Inv, TypeOK, Ep0
  <2>7. CleanInv'
    BY <2>1, <2>4 DEF CleanInv
  <2>8. GivenInv'
    BY <2>4 DEF Inv, GivenInv, Expected, ChunkHere, Len1
  <2>9. LoopInv'
    BY <2>1, <2>2 DEF Inv, LoopInv
  <2> QED BY <1>3, <2>6, <2>7, <2>8, <2>9 DEF Inv
<1>5. CASE HostData
  <2> USE <1>5 DEF HostData
  <2> DEFINE n == IF xfer.read THEN ep0.bcl
                  ELSE IF Left < EP0BUFF_SIZE THEN Left ELSE EP0BUFF_SIZE
  <2>1. moved \in Nat /\ moved < xfer.len /\ xfer.len \in Nat /\ xfer.wValue \in Nat
    <3>1. moved \in Nat /\ moved < xfer.len
      BY DEF Inv, LoopInv, TypeOK
    <3> QED BY <1>1, <3>1, RequestType DEF None
  <2>2. n \in Nat
    <3>1. ep0.bcl \in Nat
      BY <1>1 DEF Ep0
    <3>2. Left \in Nat
      BY <2>1 DEF Left
    <3> QED BY <3>1, <3>2
  <2>3. moved' = moved + n
        /\ stage' = (IF moved' > xfer.len THEN "aborted"
                     ELSE IF moved' = xfer.len \/ n < EP0BUFF_SIZE THEN "status" ELSE "data")
    OBVIOUS
  <2>4. ep0' \in Ep0 /\ ~ep0'.busy
    <3>1. FALSE \in BOOLEAN
      OBVIOUS
    <3> QED BY <1>1, <3>1 DEF Ep0
  <2>5. DOMAIN buf' = 1..EP0BUFF_SIZE
    BY DEF Inv, TypeOK
  <2>6. TypeOK'
    <3>1. moved' \in Nat /\ stage' \in {"status", "data", "aborted"}
      BY <2>1, <2>2, <2>3
    <3> QED BY <1>2, <2>4, <2>5, <3>1 DEF Inv, TypeOK, Ep0
  <2>7. CleanInv'
    BY DEF Inv, CleanInv
  <2>8. LoopInv'
    <3>1. stage' = "data" => moved' < xfer.len
      <4> HIDE DEF n, HostData
      <4>1. moved' \in Nat
        BY <2>1, <2>2, <2>3
      <4> QED BY <2>1, <2>3, <4>1
    <3> QED BY <3>1 DEF Inv, LoopInv
  <2>9. GivenInv'
    <3>1. ASSUME pc = "data", given, ~request.read PROVE GivenInv'
      <4>1. /\ xfer = request /\ request.wValue + moved = arg_addr
            /\ arg_len \in Nat /\ arg_len > 0 /\ arg_addr \in Nat
            /\ arg_addr + arg_len = request.wValue + request.len
        BY <3>1, Working DEF Inv, GivenInv, Expected
      <4>2. Left = arg_len /\ n = Len1 /\ ~xfer.read
        BY <2>1, <3>1, <4>1 DEF Left, Len1
      <4>3. ChunkHere'
        <5>1. Len1' = Len1 /\ Len1 \in Nat /\ Len1 <= EP0BUFF_SIZE
          BY <1>2, <4>1 DEF Len1
        <5>2. buf' = [i \in 1..EP0BUFF_SIZE |->
                        IF i <= Len1 THEN <<"new", xfer.wValue + moved + i - 1>> ELSE Junk]
          BY <4>2
        <5>3. ASSUME NEW i \in 0..(Len1 - 1) PROVE buf'[i + 1] = <<"new", arg_addr + i>>
          <6>1. i + 1 \in 1..EP0BUFF_SIZE /\ i + 1 <= Len1
            BY <5>1
          <6>2. xfer.wValue + moved = arg_addr
            BY <4>1
          <6>3. (arg_addr + (i + 1)) - 1 = arg_addr + i
            BY <4>1, <5>1
          <6> QED BY <5>2, <6>1, <6>2, <6>3
        <5> QED BY <1>2, <5>1, <5>3 DEF ChunkHere
      <4>4. arg_len > EP0BUFF_SIZE => Expected(EP0BUFF_SIZE)'
        <5> SUFFICES ASSUME arg_len > EP0BUFF_SIZE
                     PROVE  stage' = "data" /\ request.wValue + moved' = arg_addr + EP0BUFF_SIZE
          BY <1>2, <4>1 DEF Expected
        <5>1. n = EP0BUFF_SIZE
          BY <4>1, <4>2 DEF Len1
        <5> HIDE DEF n
        <5> QED BY <2>1, <2>3, <4>1, <5>1
      <4> QED BY <1>2, <2>4, <3>1, <4>1, <4>3, <4>4 DEF GivenInv
    <3>2. CASE pc # "data"
      BY <1>2, <2>4, <3>2 DEF Inv, GivenInv, LoopInv
    <3> QED BY <1>2, <3>1, <3>2 DEF GivenInv
  <2> QED BY <1>3, <2>6, <2>7, <2>8, <2>9 DEF Inv
<1>6. CASE HostStatus
  <2> USE <1>6 DEF HostStatus
  <2>1. TypeOK'
    BY DEF Inv, TypeOK
  <2>2. CleanInv'
    BY DEF Inv, CleanInv
  <2>3. GivenInv'
    BY DEF Inv, GivenInv, Expected, ChunkHere, Len1
  <2>4. LoopInv'
    BY DEF Inv, LoopInv
  <2> QED BY <1>3, <2>1, <2>2, <2>3, <2>4 DEF Inv
<1>7. CASE HostStalled \/ HostAbort
  <2> USE <1>7 DEF HostStalled, HostAbort
  <2>1. moved' \in Nat /\ stage' \in {"stalled", "aborted"}
    OBVIOUS
  <2>2. TypeOK'
    <3>1. given' \in BOOLEAN
      <4>1. given' = (given /\ stage = "status")
        OBVIOUS
      <4> QED BY <4>1
    <3> QED BY <1>2, <2>1, <3>1 DEF Inv, TypeOK
  <2>3. CleanInv'
    BY DEF Inv, CleanInv
  <2>4. GivenInv'
    BY DEF Inv, GivenInv, Expected, ChunkHere, Len1
  <2>5. LoopInv'
    BY DEF Inv, LoopInv
  <2> QED BY <1>3, <2>2, <2>3, <2>4, <2>5 DEF Inv
<1> QED
  BY <1>4, <1>5, <1>6, <1>7 DEF Transfer

(* Every step keeps the invariant.                                         *)
LEMMA NextInv == Inv /\ [Next]_vars => Inv'
<1>1. Inv /\ UNCHANGED vars => Inv'
  <2> SUFFICES ASSUME Inv, UNCHANGED vars PROVE Inv'
    OBVIOUS
  <2> USE DEF vars, work, host
  <2>1. PlacedInv' /\ ReadPlacedInv' /\ BytesInPlace'
    BY SamePlaces
  <2>2. TypeOK' /\ CleanInv' /\ LoopInv'
    BY DEF Inv, TypeOK, CleanInv, LoopInv
  <2>3. GivenInv'
    BY DEF Inv, GivenInv, Expected, ChunkHere, Len1
  <2> QED BY <2>1, <2>2, <2>3 DEF Inv
<1> QED
  BY <1>1, HandlerInv, HostInv DEF Next

(* Every state that is reached satisfies it.                               *)
LEMMA SpecInv == Spec => []Inv
BY InitInv, NextInv, PTL DEF Spec

(* Loops that meet other hosts than those they began for leave every       *)
(* variable well formed, arg_addr and arg_len at the request's end         *)
(* together (242-306).                                                     *)
THEOREM TypesHold == Spec => []TypeOK
<1>1. Inv => TypeOK
  BY DEF Inv
<1> QED
  BY <1>1, SpecInv, PTL

(* Every byte stays where it was meant to be, outside the reach of writes  *)
(* that were given up or relied on a page that does not fit: for buffers,  *)
(* chips, pages and requests of any size (242-306).                        *)
THEOREM BytesAlwaysInPlace == Spec => []BytesInPlace
<1>1. Inv => BytesInPlace
  BY DEF Inv
<1> QED
  BY <1>1, SpecInv, PTL

(***************************************************************************)
(* Complete writes and exact reads                                         *)
(***************************************************************************)
(* A write that ends well has replaced its whole range, a read has got the *)
(* bytes of the memory: from the parsing of a clean transfer to its host's *)
(* giving up the loop works for it and for nobody else.                    *)
Written(c) == mem[c] = <<"new", c[2]>>

(* A clean transfer whose request has been picked up, the host still there *)
(* or served.                                                              *)
PickedUp == clean /\ ~pending_setup /\ stage \in {"data", "status", "done"}

(* A transfer with data does not come to its status stage by itself, and   *)
(* the page size brings no buffer.                                         *)
StageInv ==
  /\ clean /\ pending_setup /\ stage = "status" => xfer.len = 0
  /\ clean /\ xfer.kind = "PAGE_SIZE" =>
       /\ ~ep0.busy /\ (pending_setup \/ pc = "loop")
       /\ xfer.len > 0 => stage \notin {"status", "done"}

(* The loop of a write has replaced what it has come past; it ends at the  *)
(* end of the range or with a stall.                                       *)
WriteInv ==
  PickedUp /\ ~xfer.read /\ xfer.len > 0 /\ xfer.kind # "PAGE_SIZE" =>
    \/ pc = "loop" /\ (ep0.stall \/ \A c \in Span(xfer) \ harmed : Written(c))
    \/ /\ pc \in {"arm", "data"} /\ request = xfer /\ given
       /\ \A c \in Span(xfer) \ harmed : c[2] < arg_addr => Written(c)

(* The loop of a read is one armed buffer ahead of the host: what the host *)
(* has got, and what the buffer holds for it, are the bytes of the memory; *)
(* only the last packet is a short one.                                    *)
Byte(i) == mem[<<Chip(xfer), xfer.wValue + i - 1>>]
ReadInv ==
  PickedUp /\ xfer.read =>
    /\ pc \in {"loop", "read"} /\ moved <= xfer.len
    /\ got = [i \in 1..moved |-> Byte(i)]
    /\ stage \in {"status", "done"} => moved = xfer.len
    /\ ep0.busy => /\ moved + ep0.bcl <= xfer.len
                   /\ ep0.bcl < EP0BUFF_SIZE => moved + ep0.bcl = xfer.len
                   /\ \A i \in 1..ep0.bcl : buf[i] = Byte(moved + i)
    /\ pc = "read" => /\ request = xfer
                      /\ arg_addr = xfer.wValue + moved + (IF ep0.busy THEN ep0.bcl ELSE 0)

TransferInv == Inv /\ StageInv /\ WriteInv /\ ReadInv

(***************************************************************************)
(* The steps                                                               *)
(***************************************************************************)
(* The invariant holds before the first transfer.                          *)
LEMMA TransferInit == Init => TransferInv
<1> SUFFICES ASSUME Init PROVE TransferInv
  OBVIOUS
<1>1. ~ep0.busy /\ ~pending_setup /\ stage = "none" /\ pc = "loop" /\ xfer.len = 0
  BY DEF Init, None
<1> QED
  BY <1>1, InitInv DEF TransferInv, StageInv, WriteInv, ReadInv, PickedUp

(* What the type invariant says of a transfer.                             *)
LEMMA TransferType ==
  ASSUME TypeOK
  PROVE  xfer.len \in Nat /\ xfer.wValue \in Nat /\ (xfer.kind # "PAGE_SIZE" => xfer \in Requests)
<1>1. xfer \in Requests \cup {None}
  BY DEF TypeOK
<1> QED
  BY <1>1, RequestType DEF None

(* Every step keeps what is known of the stages.                           *)
LEMMA StageStep == TransferInv /\ Next => StageInv'
<1> SUFFICES ASSUME TransferInv, Next PROVE StageInv'
  OBVIOUS
<1> USE DEF TransferInv, StageInv, work, host
<1>1. CleanInv /\ ep0 \in Ep0
  BY DEF Inv, TypeOK, Ep0
<1>2. CASE PageSize \/ Parse
  BY <1>1, <1>2 DEF PageSize, Parse, CleanInv, Ep0
<1>3. CASE ReadChunk \/ ArmChunk
  BY <1>1, <1>3 DEF ReadChunk, ArmChunk, CleanInv
<1>4. CASE TakeChunk
  BY <1>4 DEF TakeChunk
<1>5. CASE EepromFails
  BY <1>1, <1>5 DEF EepromFails, Return, Ep0
<1>6. CASE LoopEnd
  BY <1>6 DEF LoopEnd, Return
<1>7. CASE HostSetup
  <2> USE <1>7 DEF HostSetup
  <2>1. PICK q \in Requests : xfer' = q /\ stage' = IF q.len = 0 THEN "status" ELSE "data"
    OBVIOUS
  <2>2. q.len \in Nat
    BY RequestType
  <2>3. ~ep0'.busy /\ pending_setup'
    BY <1>1 DEF Ep0
  <2> QED BY <2>1, <2>2, <2>3
<1>8. CASE HostData
  BY <1>1, <1>8 DEF HostData, CleanInv
<1>9. CASE HostStatus \/ HostStalled \/ HostAbort
  BY <1>9 DEF HostStatus, HostStalled, HostAbort
<1> QED
  BY <1>2, <1>3, <1>4, <1>5, <1>6, <1>7, <1>8, <1>9 DEF Next, Handler, Transfer

(* Outside its range a request says nothing, within it is before its end.  *)
LEMMA WriteStep == TransferInv /\ Next => WriteInv'
<1> SUFFICES ASSUME TransferInv, Next,
                    PickedUp', ~xfer'.read, xfer'.len > 0, xfer'.kind # "PAGE_SIZE"
             PROVE  \/ pc' = "loop" /\ (ep0'.stall \/ \A c \in Span(xfer') \ harmed' : Written(c)')
                    \/ /\ pc' \in {"arm", "data"} /\ request' = xfer' /\ given'
                       /\ \A c \in Span(xfer') \ harmed' : c[2] < arg_addr' => Written(c)'
  BY DEF WriteInv, Span, Addresses, Chip, Small
<1> USE DEF Written, work, host
<1>1. TypeOK /\ CleanInv /\ LoopInv /\ StageInv /\ WriteInv /\ ep0 \in Ep0
  BY DEF TransferInv, Inv, TypeOK, Ep0
<1>2. CASE Parse
  <2> USE <1>2 DEF Parse
  <2>1. stage = "data"
    BY <1>1 DEF PickedUp, CleanInv, StageInv
  <2>2. xfer \in Requests /\ xfer.wValue \in Nat
    BY <1>1, TransferType
  <2>3. \A c \in Span(xfer) : ~(c[2] < xfer.wValue)
    BY <2>2, SpanCells
  <2> QED BY <2>1, <2>3 DEF PickedUp
<1>3. CASE ReadChunk \/ ArmChunk
  BY <1>1, <1>3 DEF ReadChunk, ArmChunk, PickedUp, WriteInv
<1>4. CASE TakeChunk
  <2> USE <1>4 DEF TakeChunk
  <2>1. /\ request = xfer /\ given
        /\ \A c \in Span(xfer) \ harmed : c[2] < arg_addr => Written(c)
    BY <1>1 DEF PickedUp, WriteInv
  <2>2. arg_addr \in Nat /\ Len1 \in Nat /\ request \in Requests /\ request.kind # "PAGE_SIZE"
    BY <1>1, Working
  <2>3. ASSUME NEW c \in Span(xfer) \ harmed', c[2] < arg_addr' PROVE mem'[c] = <<"new", c[2]>>
    <3>1. PageFits(request) /\ harmed' = harmed
      BY <2>1, <2>2, <2>3, SpanCells
    <3>2. CASE arg_addr <= c[2]
      BY <2>1, <2>3, <3>1, <3>2, ChunkEffect DEF TransferInv
    <3>3. CASE c[2] < arg_addr
      <4>1. mem'[c] = mem[c]
        <5>1. ~(arg_addr <= c[2])
          BY <2>1, <2>2, <3>3, SpanCells
        <5> QED BY <2>1, <3>1, <3>3, <5>1, ChunkEffect DEF TransferInv
      <4> QED BY <2>1, <2>3, <3>1, <3>3, <4>1
    <3> QED BY <2>1, <2>2, <3>2, <3>3, SpanCells
  <2> QED BY <2>1, <2>3
<1>5. CASE EepromFails
  <2>1. ep0'.stall /\ pc' = "loop"
    BY <1>1, <1>5 DEF EepromFails, Return, Ep0
  <2> QED BY <2>1
<1>6. CASE LoopEnd
  <2> USE <1>6 DEF LoopEnd, Return
  <2>1. /\ request = xfer /\ \A c \in Span(xfer) \ harmed : c[2] < arg_addr => Written(c)
    BY <1>1 DEF PickedUp, WriteInv
  <2>2. \A c \in Span(xfer) : c[2] < arg_addr
    BY <1>1, <2>1, Working, SpanCells
  <2> QED BY <2>1, <2>2
<1>7. CASE HostData
  <2>1. ep0'.stall = ep0.stall
    BY <1>1, <1>7 DEF HostData, Ep0
  <2> QED BY <1>1, <1>7, <2>1 DEF HostData, PickedUp, WriteInv
<1>8. CASE PageSize \/ HostSetup \/ HostStatus \/ HostStalled \/ HostAbort
  BY <1>1, <1>8 DEF PageSize, HostSetup, HostStatus, HostStalled, HostAbort, PickedUp, WriteInv
<1> QED
  BY <1>2, <1>3, <1>4, <1>5, <1>6, <1>7, <1>8 DEF Next, Handler, Transfer

(* A function on 1..n is a sequence of length n.                           *)
LEMMA FunctionSeq ==
  ASSUME NEW S, NEW n \in Nat, NEW f \in [1..n -> S]
  PROVE  f \in Seq(S) /\ Len(f) = n
<1>1. f \in Seq(S)
  BY SeqDef
<1>2. 1..Len(f) = 1..n /\ Len(f) \in Nat
  BY <1>1, LenProperties
<1> QED
  BY <1>1, <1>2

(* The packet that brings the buffer's first n bytes.                      *)
LEMMA PacketGot ==
  ASSUME NEW m \in Nat, NEW n \in Nat, NEW S, NEW whole \in [1..(m + n) -> S], NEW b,
         \A i \in 1..n : b[i] = whole[m + i]
  PROVE  [i \in 1..m |-> whole[i]] \o SubSeq(b, 1, n) = whole
<1> DEFINE head == [i \in 1..m |-> whole[i]]
           tail == SubSeq(b, 1, n)
<1>1. head \in Seq(S) /\ Len(head) = m
  <2>1. head \in [1..m -> S]
    OBVIOUS
  <2> HIDE DEF head
  <2> QED BY <2>1, FunctionSeq
<1>2. whole \in Seq(S) /\ Len(whole) = m + n
  BY FunctionSeq
<1>3. tail \in Seq(S) /\ Len(tail) = n /\ \A i \in 1..n : tail[i] = b[i]
  <2>1. \A i \in 1..n : b[i] \in S
    BY m + n \in Nat
  <2>2. 1 \in Int /\ n \in Int /\ (1 <= n => n - 1 + 1 = n) /\ (~(1 <= n) => n = 0)
        /\ n - 1 + 1 = n /\ \A i \in 1..n : 1 + i - 1 = i
    OBVIOUS
  <2> QED BY <2>1, <2>2, SubSeqProperties
<1>4. \A i \in 1..m : head[i] = whole[i]
  OBVIOUS
<1> HIDE DEF head, tail
<1>5. /\ head \o tail \in Seq(S) /\ Len(head \o tail) = m + n
      /\ \A i \in 1..(m + n) : (head \o tail)[i] = IF i <= m THEN head[i] ELSE tail[i - m]
  BY <1>1, <1>3, ConcatProperties
<1>6. ASSUME NEW i \in 1..(m + n) PROVE (head \o tail)[i] = whole[i]
  <2>1. CASE i <= m
    BY <1>4, <1>5, <2>1
  <2>2. CASE ~(i <= m)
    <3>1. i - m \in 1..n /\ m + (i - m) = i
      BY <2>2
    <3> QED BY <1>3, <1>5, <2>2, <3>1
  <2> QED BY <2>1, <2>2
<1> QED
  BY <1>2, <1>5, <1>6, SeqEqual DEF head, tail

(* What the host sees of a read it has just begun.                         *)
LEMMA ReadBegins ==
  ASSUME TransferInv, clean, pending_setup, stage \in {"data", "status", "done"}
  PROVE  /\ ~ep0.busy /\ moved = 0 /\ got = [i \in 1..moved |-> Byte(i)]
         /\ xfer.len \in Nat /\ xfer.wValue \in Nat
         /\ stage \in {"status", "done"} => moved = xfer.len
<1>1. ~ep0.busy /\ moved = 0 /\ got = <<>> /\ stage # "done" /\ (stage = "status" => xfer.len = 0)
  BY DEF TransferInv, Inv, CleanInv, StageInv
<1>2. <<>> = [i \in 1..0 |-> Byte(i)]
  OBVIOUS
<1> QED
  BY <1>1, <1>2, TransferType DEF TransferInv, Inv

(* Every step keeps what is known of a read.                               *)
LEMMA ReadStep == TransferInv /\ Next => ReadInv'
<1> SUFFICES ASSUME TransferInv, Next, PickedUp', xfer'.read PROVE ReadInv'
  BY DEF ReadInv
<1> USE DEF work, host
<1>1. TypeOK /\ CleanInv /\ LoopInv /\ StageInv /\ ReadInv /\ ep0 \in Ep0
  BY DEF TransferInv, Inv, TypeOK, Ep0
<1>2. CASE PageSize
  <2> USE <1>2 DEF PageSize
  <2>1. ep0'.busy = ep0.busy
    BY <1>1 DEF Ep0
  <2> QED BY <2>1, ReadBegins DEF PickedUp, ReadInv, Byte, Chip, Small
<1>3. CASE Parse
  <2> USE <1>3 DEF Parse
  <2>1. xfer.wValue = xfer.wValue + 0 + 0
    BY <1>1, TransferType
  <2> QED BY <2>1, ReadBegins DEF PickedUp, ReadInv, Byte, Chip, Small
<1>4. CASE ReadChunk
  <2> USE <1>4 DEF ReadChunk
  <2>1. /\ request = xfer /\ arg_addr = xfer.wValue + moved + 0
    BY <1>1 DEF PickedUp, ReadInv
  <2>2. /\ request \in Requests /\ request.kind # "PAGE_SIZE"
        /\ arg_addr \in Nat /\ arg_len \in Nat /\ xfer.wValue \in Nat /\ xfer.len \in Nat
        /\ arg_addr + arg_len = xfer.wValue + xfer.len /\ moved \in Nat
        /\ Len1 \in Nat /\ Len1 <= arg_len /\ Len1 <= EP0BUFF_SIZE
    BY <1>1, <2>1, Working DEF TypeOK
  <2>3. moved + Len1 <= xfer.len /\ (Len1 < EP0BUFF_SIZE => moved + Len1 = xfer.len)
    <3>1. Len1 < EP0BUFF_SIZE => Len1 = arg_len
      BY <2>2, Sizes DEF Len1
    <3>2. moved + arg_len = xfer.len
      <4>1. (xfer.wValue + moved) + arg_len = xfer.wValue + xfer.len
        BY <2>1, <2>2
      <4>2. /\ xfer.wValue \in Nat /\ moved \in Nat /\ arg_len \in Nat /\ xfer.len \in Nat
        BY <2>2
      <4> HIDE <1>4
      <4> QED BY <4>1, <4>2
    <3>3. Len1 \in Nat /\ Len1 <= arg_len /\ arg_len \in Nat /\ moved \in Nat
      BY <2>2
    <3> HIDE <1>4
    <3> QED BY <3>1, <3>2, <3>3
  <2>4. ep0'.busy /\ ep0'.bcl = Len1
    BY <1>1 DEF Ep0, SETUP_EP0_BUF
  <2>5. ASSUME NEW i \in 1..Len1 PROVE buf'[i] = Byte(moved + i)
    <3>1. i \in 1..EP0BUFF_SIZE /\ i <= Len1
      BY <2>2, Sizes
    <3>2. buf'[i] = mem[Cell(request, arg_addr + i - 1)]
      BY <3>1
    <3>3. /\ arg_addr + i - 1 \in Nat /\ request.wValue <= arg_addr + i - 1
          /\ arg_addr + i - 1 < request.wValue + request.len
          /\ arg_addr + i - 1 = xfer.wValue + (moved + i) - 1
      <4> HIDE DEF ReadChunk
      <4>1. i \in Nat /\ i >= 1 /\ i <= arg_len
        BY <2>2, <3>1
      <4>2. request.wValue + request.len = arg_addr + arg_len /\ request.wValue = xfer.wValue
        BY <2>1, <2>2
      <4> QED BY <2>1, <2>2, <4>1, <4>2
    <3>4. Cell(request, arg_addr + i - 1) = <<Chip(request), arg_addr + i - 1>>
      BY <2>2, <3>3, Address
    <3> QED BY <2>1, <3>2, <3>3, <3>4 DEF Byte
  <2>6. \A i \in 1..ep0'.bcl : buf'[i] = Byte(moved + i)'
    BY <2>4, <2>5 DEF Byte, Chip, Small
  <2>7. arg_addr' = xfer.wValue + moved + ep0'.bcl
    BY <2>1, <2>2, <2>4
  <2>8. moved <= xfer.len /\ got' = [i \in 1..moved |-> Byte(i)']
        /\ (stage \in {"status", "done"} => moved = xfer.len)
    BY <1>1 DEF PickedUp, ReadInv, Byte, Chip, Small
  <2> QED BY <2>1, <2>3, <2>4, <2>6, <2>7, <2>8 DEF ReadInv
<1>5. CASE ArmChunk \/ TakeChunk
  BY <1>1, <1>5 DEF ArmChunk, TakeChunk, PickedUp, ReadInv
<1>6. CASE EepromFails \/ LoopEnd
  <2> USE <1>6 DEF EepromFails, LoopEnd, Return
  <2>1. pc = "read" /\ mem' = mem /\ pc' = "loop"
    BY <1>1 DEF PickedUp, ReadInv
  <2>2. ep0'.busy = ep0.busy /\ ep0'.bcl = ep0.bcl
    BY <1>1 DEF Ep0
  <2> QED BY <1>1, <2>1, <2>2 DEF PickedUp, ReadInv, Byte, Chip, Small
<1>7. CASE HostData
  <2> USE <1>7 DEF HostData
  <2> DEFINE n == ep0.bcl
  <2>1. PickedUp /\ xfer.read /\ ep0.busy
    BY DEF PickedUp
  <2>2. /\ pc \in {"loop", "read"} /\ moved <= xfer.len /\ got = [i \in 1..moved |-> Byte(i)]
        /\ moved + n <= xfer.len /\ (n < EP0BUFF_SIZE => moved + n = xfer.len)
        /\ \A i \in 1..n : buf[i] = Byte(moved + i)
        /\ pc = "read" => request = xfer /\ arg_addr = xfer.wValue + moved + n
    BY <1>1, <2>1 DEF ReadInv
  <2>3. moved \in Nat /\ n \in Nat /\ xfer.len \in Nat /\ xfer.wValue \in Nat
    <3>1. n \in Nat
      BY <1>1, Sizes DEF Ep0
    <3> QED BY <1>1, <3>1, TransferType DEF TypeOK
  <2>4. /\ moved' = moved + n /\ got' = got \o SubSeq(buf, 1, n)
        /\ stage' = IF moved' > xfer.len THEN "aborted"
                    ELSE IF moved' = xfer.len \/ n < EP0BUFF_SIZE THEN "status" ELSE "data"
    BY <2>1
  <2>5. got' = [i \in 1..(moved + n) |-> Byte(i)]
    <3> DEFINE whole == [i \in 1..(moved + n) |-> Byte(i)]
               S == {Byte(i) : i \in 1..(moved + n)}
    <3>1. whole \in [1..(moved + n) -> S]
      OBVIOUS
    <3>2. \A i \in 1..n : buf[i] = whole[moved + i]
      BY <2>2, <2>3
    <3>3. got = [i \in 1..moved |-> whole[i]]
      BY <2>2, <2>3
    <3> HIDE DEF whole, S, n, HostData
    <3>4. [i \in 1..moved |-> whole[i]] \o SubSeq(buf, 1, n) = whole
      BY <2>3, <3>1, <3>2, PacketGot
    <3> QED BY <2>4, <3>3, <3>4 DEF whole
  <2>6. moved' <= xfer.len /\ (stage' \in {"status", "done"} => moved' = xfer.len)
    <3> HIDE DEF n, HostData
    <3> QED BY <2>2, <2>3, <2>4
  <2>7. ~ep0'.busy
    BY <1>1 DEF Ep0
  <2>8. pc = "read" => arg_addr = xfer.wValue + moved' + 0
    <3> HIDE DEF n, HostData
    <3> QED BY <2>2, <2>3, <2>4
  <2>9. got' = [i \in 1..moved' |-> Byte(i)']
    BY <2>4, <2>5 DEF Byte, Chip, Small
  <2> QED BY <2>2, <2>6, <2>7, <2>8, <2>9 DEF ReadInv
<1>8. CASE HostStatus
  BY <1>1, <1>8 DEF HostStatus, PickedUp, ReadInv, Byte, Chip, Small
<1>9. CASE HostSetup \/ HostStalled \/ HostAbort
  BY <1>9 DEF HostSetup, HostStalled, HostAbort, PickedUp
<1> QED
  BY <1>2, <1>3, <1>4, <1>5, <1>6, <1>7, <1>8, <1>9 DEF Next, Handler, Transfer

(* Every step keeps the invariant.                                         *)
LEMMA TransferStep == TransferInv /\ [Next]_vars => TransferInv'
<1>1. TransferInv /\ UNCHANGED vars => StageInv' /\ WriteInv' /\ ReadInv'
  BY DEF vars, work, host, TransferInv, StageInv, WriteInv, ReadInv, PickedUp, Byte, Written,
         Span, Addresses, Chip, Small
<1>2. TransferInv /\ [Next]_vars => Inv'
  BY NextInv DEF TransferInv
<1> QED
  BY <1>1, <1>2, StageStep, WriteStep, ReadStep DEF TransferInv

(* Every state that is reached satisfies it.                               *)
LEMMA SpecTransfer == Spec => []TransferInv
BY TransferInit, TransferStep, PTL DEF Spec

(* A clean write that ends well has replaced every byte of its range, the  *)
(* junk that the copy to the external RAM brings in included (261-306).    *)
THEOREM WriteAlwaysComplete == Spec => []WriteIsComplete
<1>1. TransferInv => WriteIsComplete
  <2> SUFFICES ASSUME TransferInv, stage = "done", clean, ~xfer.read, ~pending_setup, pc = "loop",
                      ~ep0.stall, NEW c \in Span(xfer) \ harmed
               PROVE  mem[c] = <<"new", c[2]>>
    BY DEF WriteIsComplete
  <2>1. xfer.len > 0
    <3>1. c[2] \in Addresses(xfer)
      BY DEF Span
    <3> QED BY <3>1, TransferType DEF Addresses, TransferInv, Inv
  <2>2. xfer.kind # "PAGE_SIZE"
    BY <2>1 DEF TransferInv, StageInv
  <2> QED BY <2>1, <2>2 DEF TransferInv, WriteInv, PickedUp, Written
<1> QED
  BY <1>1, SpecTransfer, PTL

(* A clean read that ends well has got the bytes of the memory, all of     *)
(* them and in order (242-260).                                            *)
THEOREM ReadAlwaysExact == Spec => []ReadIsExact
<1>1. TransferInv => ReadIsExact
  <2> SUFFICES ASSUME TransferInv, stage = "done", clean, xfer.read
               PROVE  got = [i \in 1..xfer.len |-> Byte(i)]
    BY DEF ReadIsExact, Byte
  <2>1. ~pending_setup
    BY DEF TransferInv, Inv, CleanInv
  <2> QED BY <2>1 DEF TransferInv, ReadInv, PickedUp
<1> QED
  BY <1>1, SpecTransfer, PTL
=============================================================================
