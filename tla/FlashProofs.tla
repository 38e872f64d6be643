----------------------------- MODULE FlashProofs -----------------------------
(***************************************************************************)
(* The flash driver, for every geometry of the chip, every contents, every *)
(* set of calls and any number of power cuts: no call meets a busy chip,   *)
(* and each does to the array what FlashArray says.  The example program,  *)
(* for all data that lie within one page and any number of power cuts and  *)
(* resets: it never changes a cell it was not asked to, and reads what the *)
(* cells hold.                                                             *)
(***************************************************************************)
EXTENDS FlashMain, TLAPS

(***************************************************************************)
(* The chip works only while the driver polls it.  That the driver does    *)
(* poll whenever it has started work rests on the command byte being the   *)
(* one of the running call, on the chip select being high when init_spi    *)
(* runs, so that init_spi starts nothing, and on a working chip never      *)
(* being asleep: the status of a sleeping one reads as anything.           *)
(***************************************************************************)
IInv ==
  /\ WaitsForChip
  /\ Working => ~down
  /\ step = "init" => cs = 1
  /\ step # "init" /\ step # "idle" => call.op \in DOMAIN Opcode
  /\ step \in {"send", "receive", "deselect"} => received.code = Opcode[call.op]

\* The chip starts work on the codes of page_program and of the erases only.
LEMMA CodesThatStart ==
  ASSUME NEW op \in DOMAIN Opcode, Opcode[op] \in {2, 32, 82, 96}
  PROVE  op \in {"page_program", "sector_erase", "block_erase", "chip_erase"}
BY DEF Opcode

\* A chip that does not work starts to only on one of those codes.
LEMMA DeselectedStarts ==
  ASSUME Deselected, ~Working, Working'
  PROVE  received.code \in {2, 32, 82, 96} /\ ~down'
BY DEF Deselected, Obey, Ignores, Working, Idle

LEMMA InitIInv == Init => IInv
BY DEF Init, ChipInit, DriverInit, IInv, WaitsForChip, Working, Idle

LEMMA NextIInv == IInv /\ [Next]_vars => IInv'
<1> SUFFICES ASSUME IInv, [Next]_vars PROVE IInv'
  OBVIOUS
<1>1. CASE Start
  BY <1>1 DEF IInv, Start, init_spi, Goto, chipVars, WaitsForChip, Working
<1>2. CASE NewCall
  <2>1. PICK c \in Requests : Calls(c)
    BY <1>2 DEF NewCall
  <2>2. c.op \in DOMAIN Opcode
    BY CallsAssumption
  <2> QED
    BY <2>1, <2>2 DEF IInv, Calls, Goto, chipVars, WaitsForChip, Working
<1>3. CASE Continue
  <2>1. CASE Select
    BY <2>1 DEF IInv, Select, Goto, WaitsForChip, Working
  <2>2. CASE SendCommand
    <3>1. received'.code = Opcode[call.op]
      BY <2>2 DEF SendCommand, NoCommand
    <3>2. /\ step = "command" /\ step' \in {"receive", "send", "deselect"}
          /\ UNCHANGED <<target, cs, call>>
      BY <2>2 DEF SendCommand, Goto
    <3> QED
      BY <3>1, <3>2 DEF IInv, WaitsForChip, Working
  <2>3. CASE SendData
    <3>1. received'.code = received.code
      BY <2>3 DEF SendData, IInv
    <3>2. step = "send" /\ step' = "deselect" /\ UNCHANGED <<target, cs, call>>
      BY <2>3 DEF SendData, Goto
    <3> QED
      BY <3>1, <3>2 DEF IInv, WaitsForChip, Working
  <2>4. CASE ReceiveData
    BY <2>4 DEF IInv, ReceiveData, Goto, chipVars, WaitsForChip, Working
  <2>5. CASE Deselect
    <3>1. step = "deselect" /\ ~Working /\ UNCHANGED call /\ step' \in {"poll", "return"}
      BY <2>5 DEF Deselect, Goto, IInv, WaitsForChip
    <3>2. Working' => step' = "poll"
      <4> SUFFICES ASSUME Working' PROVE step' = "poll"
        OBVIOUS
      <4>1. received.code \in {2, 32, 82, 96}
        BY <2>5, <3>1, DeselectedStarts DEF Deselect
      <4>2. call.op \in {"page_program", "sector_erase", "block_erase", "chip_erase"}
        BY <3>1, <4>1, CodesThatStart DEF IInv
      <4> QED
        BY <2>5, <4>2 DEF Deselect, Goto, Programs, Erases
    <3>3. Working' => ~down'
      BY <2>5, <3>1, DeselectedStarts DEF Deselect
    <3> QED
      BY <3>1, <3>2, <3>3 DEF IInv, WaitsForChip
  <2>6. CASE Poll
    BY <2>6 DEF IInv, Poll, chipVars, WaitsForChip, Working
  <2>7. CASE Return
    BY <2>7 DEF IInv, Return, Goto, chipVars, WaitsForChip, Working
  <2> QED
    BY <1>3, <2>1, <2>2, <2>3, <2>4, <2>5, <2>6, <2>7 DEF Continue, Transfer
<1>4. CASE Chip
  BY <1>4 DEF IInv, Chip, ChipWorks, Complete, driverVars, WaitsForChip, Working
<1>5. CASE Cut
  BY <1>5 DEF IInv, Cut, PowerCut, ChipPowerCut, WaitsForChip, Working
<1>6. CASE UNCHANGED vars
  BY <1>6 DEF IInv, vars, chipVars, driverVars, WaitsForChip, Working
<1> QED
  BY <1>1, <1>2, <1>3, <1>4, <1>5, <1>6 DEF Next

(***************************************************************************)
(* While the chip is busy the driver asks it for nothing but its status.   *)
(***************************************************************************)
THEOREM NeverDisturbed == Safety => []WaitsForChip
<1>1. IInv => WaitsForChip
  BY DEF IInv
<1> QED
  BY InitIInv, NextIInv, <1>1, PTL DEF Safety

\* The statements a call has still to go through, and the work of the chip.
Ahead ==
  [init |-> 2, idle |-> 0, select |-> 12, command |-> 10, send |-> 8, receive |-> 8,
   deselect |-> 6, poll |-> 4, return |-> 2][step] + (IF Working THEN 1 ELSE 0)

Nearer == Ahead \in Nat /\ Ahead' \in 0 .. (Ahead - 1)

(***************************************************************************)
(* The safety half of CallsReturn: every step of a call but a power cut,   *)
(* the end of the chip's work included, brings its return nearer.  So the  *)
(* chip works at most once in a call, and nothing keeps a call from        *)
(* returning but polling, of a chip at work or of one that sleeps.         *)
(***************************************************************************)
THEOREM CallsGoForward == Safety => [][step # "idle" /\ ~Cut => Nearer]_vars
<1>1. ASSUME IInv, Next, step # "idle", ~Cut
      PROVE  Nearer \/ UNCHANGED vars
  <2>1. CASE Start
    <3>1. step = "init" /\ step' = "idle" /\ ~Working /\ ~Working'
      BY <1>1, <2>1 DEF Start, init_spi, Goto, IInv, WaitsForChip, chipVars, Working
    <3> QED
      BY <3>1 DEF Nearer, Ahead
  <2>2. CASE Select \/ SendCommand \/ SendData \/ ReceiveData \/ Return
    <3>1. /\ \/ step = "select" /\ step' = "command"
             \/ step = "command" /\ step' \in {"receive", "send", "deselect"}
             \/ step \in {"send", "receive"} /\ step' = "deselect"
             \/ step = "return" /\ step' = "idle"
          /\ UNCHANGED target
      BY <2>2 DEF Select, SendCommand, SendData, ReceiveData, Return, Goto, chipVars
    <3>2. ~Working /\ ~Working'
      BY <1>1, <3>1 DEF IInv, WaitsForChip, Working
    <3> QED
      BY <3>1, <3>2 DEF Nearer, Ahead
  <2>3. CASE Deselect
    <3>1. step = "deselect" /\ step' \in {"poll", "return"} /\ ~Working
      BY <1>1, <2>3 DEF Deselect, Goto, IInv, WaitsForChip
    <3> QED
      BY <3>1 DEF Nearer, Ahead
  <2>4. CASE Poll /\ UNCHANGED cuts
    <3>1. /\ step = "poll" /\ step' \in {"poll", "return"}
          /\ UNCHANGED <<chipVars, call, answer, cuts>>
      BY <2>4 DEF Poll
    <3>2. CASE step' = "poll"
      BY <3>1, <3>2 DEF vars, driverVars
    <3>3. CASE step' = "return"
      BY <3>1, <3>3 DEF Nearer, Ahead
    <3> QED
      BY <3>1, <3>2, <3>3
  <2>5. CASE Chip
    <3>1. step = "poll" /\ step' = "poll" /\ Working /\ ~Working'
      BY <1>1, <2>5 DEF Chip, ChipWorks, Complete, driverVars, IInv, WaitsForChip, Working
    <3> QED
      BY <3>1 DEF Nearer, Ahead
  <2>6. ~NewCall
    BY <1>1 DEF NewCall, Calls, Goto
  <2> QED
    BY <1>1, <2>1, <2>2, <2>3, <2>4, <2>5, <2>6 DEF Next, Continue, Transfer
<1>2. IInv => [Next => (step # "idle" /\ ~Cut => Nearer)]_vars
  BY <1>1
<1> QED
  BY InitIInv, NextIInv, <1>2, PTL DEF Safety


-----------------------------------------------------------------------------
(***************************************************************************)
(* The refinement.  What the chip has been sent is the running call, as    *)
(* far as it goes, and what it works on is what FlashArray says the call   *)
(* results in.                                                             *)
(***************************************************************************)
Steps == {"init", "idle", "select", "command", "send", "receive", "deselect", "poll", "return"}

Command(c, data) == [code |-> Opcode[c.op], address |-> Sent(c), data |-> data]

SentSoFar ==
  /\ step \in {"send", "receive"} => received = Command(call, <<>>)
  /\ step = "deselect" => received = Command(call, IF Programs(call) THEN call.data ELSE <<>>)

CallFits ==
  /\ step \in Steps
  /\ IF step \in {"init", "idle"} THEN call = Nothing ELSE call \in Requests
  /\ step = "send" => Programs(call)
  /\ step = "receive" => call.op = "read_data"
  /\ step = "poll" => Programs(call) \/ Erases(call)

WorkIsTheCall ==
  Working => /\ wel
             /\ Programs(call) => call.data # <<>>
             /\ target = Array!Result(mem, call)

RefInv ==
  /\ IInv
  /\ mem \in Arrays /\ wel \in BOOLEAN /\ down \in BOOLEAN
  /\ CallFits
  /\ SentSoFar
  /\ WorkIsTheCall


LEMMA DivFacts ==
  ASSUME NEW a \in Nat, NEW u \in Nat \ {0}
  PROVE  a \div u \in Nat /\ a % u \in Nat /\ a % u < u /\ a = u * (a \div u) + (a % u)
  OBVIOUS

LEMMA TimesMono ==
  ASSUME NEW u \in Nat, NEW a \in Nat, NEW b \in Nat, a <= b
  PROVE  u * a <= u * b /\ u * a \in Nat /\ u * b \in Nat
  OBVIOUS

LEMMA DivUnique ==
  ASSUME NEW n \in Nat, NEW u \in Nat \ {0}, NEW q \in Nat, u * q <= n, n < u * q + u
  PROVE  n \div u = q
  <1> DEFINE d == n \div u
  <1>1. d \in Nat /\ u * d <= n /\ n < u * d + u
    BY DivFacts
  <1> HIDE DEF d
  <1>2. ASSUME d < q PROVE FALSE
    <2>1. u * (d + 1) <= u * q
      BY <1>1, <1>2, TimesMono
    <2>2. u * (d + 1) = u * d + u
      BY <1>1
    <2> QED BY <1>1, <2>1, <2>2, TimesMono
  <1>3. ASSUME q < d PROVE FALSE
    <2>1. u * (q + 1) <= u * d
      BY <1>1, <1>3, TimesMono
    <2>2. u * (q + 1) = u * q + u
      OBVIOUS
    <2> QED BY <1>1, <2>1, <2>2, TimesMono
  <1> QED BY <1>1, <1>2, <1>3 DEF d

LEMMA PageStart ==
  ASSUME NEW a \in Nat, NEW p \in Nat \ {0}, NEW u \in Nat \ {0}, u % p = 0
  PROVE  (a - (a % p)) \div u = a \div u
  <1> DEFINE q == a \div u
             k == u \div p
             f == a \div p
             b == a - (a % p)
  <1>1. q \in Nat /\ u * q <= a /\ a < u * q + u
    BY DivFacts
  <1>2. k \in Nat /\ u = p * k
    BY DivFacts
  <1>3. f \in Nat /\ b = p * f /\ b <= a /\ a < p * f + p /\ b \in Nat
    BY DivFacts
  <1> HIDE DEF q, k, f, b
  <1>4. k * q \in Nat /\ u * q = p * (k * q)
    BY <1>1, <1>2
  <1>5. k * q <= f
    <2> SUFFICES ASSUME f + 1 <= k * q PROVE FALSE
      BY <1>3, <1>4
    <2>1. p * (f + 1) <= p * (k * q)
      BY <1>3, <1>4, TimesMono
    <2>2. p * (f + 1) = p * f + p
      BY <1>3
    <2>3. p * f \in Nat /\ p * (k * q) \in Nat
      BY <1>3, <1>4
    <2> QED BY <1>1, <1>3, <1>4, <2>1, <2>2, <2>3
  <1>6. u * q <= b
    BY <1>3, <1>4, <1>5, TimesMono
  <1>7. b < u * q + u
    BY <1>1, <1>3
  <1>8. b \div u = q
    BY <1>1, <1>3, <1>6, <1>7, DivUnique
  <1> QED BY <1>8 DEF b, q

LEMMA ModUnique ==
  ASSUME NEW n \in Nat, NEW u \in Nat \ {0}, NEW q \in Nat, u * q <= n, n < u * q + u
  PROVE  n % u = n - (u * q)
<1>1. n = u * (n \div u) + (n % u)
  BY DivFacts
<1>2. n \div u = q
  BY DivUnique
<1> QED
  BY <1>1, <1>2

\* The bits above those of u do not matter modulo a part of u.
LEMMA ModOfMod ==
  ASSUME NEW a \in Nat, NEW u \in Nat \ {0}, NEW s \in Nat \ {0}, u % s = 0
  PROVE  (a % u) % s = a % s /\ a % u \in Nat
<1> DEFINE q == a \div u
           r == a % u
           k == u \div s
           f == r \div s
           e == r % s
<1>1. q \in Nat /\ r \in Nat /\ a = u * q + r
  BY DivFacts
<1>2. k \in Nat /\ u = s * k
  BY DivFacts
<1>3. f \in Nat /\ e \in Nat /\ e < s /\ r = s * f + e
  BY <1>1, DivFacts
<1> HIDE DEF q, r, k, f, e
<1>4. k * q \in Nat /\ u * q = s * (k * q)
  BY <1>1, <1>2
<1>5. k * q + f \in Nat /\ s * (k * q + f) = s * (k * q) + s * f /\ s * (k * q + f) \in Nat
  BY <1>3, <1>4
<1>6. a = s * (k * q + f) + e
  BY <1>1, <1>3, <1>4, <1>5
<1> DEFINE d == k * q + f
<1>7. a % s = a - (s * d)
  <2>1. d \in Nat /\ s * d \in Nat /\ s * d <= a /\ a < s * d + s
    BY <1>3, <1>5, <1>6
  <2> HIDE DEF d
  <2> QED
    BY <2>1, ModUnique
<1>8. a % s = e
  BY <1>3, <1>5, <1>6, <1>7
<1> QED
  BY <1>1, <1>8 DEF r, e

\* The start of a page stays one when it is decoded.
LEMMA PageDecoded ==
  ASSUME NEW a \in Nat
  PROVE  Decoded(Page(a)) = Page(Decoded(a)) /\ Decoded(a) \in Nat /\ Page(a) \in Nat
<1> DEFINE q == a \div Size
           r == a % Size
           p == Page(r)
<1>0. Size \in Nat \ {0} /\ PageSize \in Nat \ {0} /\ Size % PageSize = 0
  BY ChipAssumption, DriverAssumption
<1>1. q \in Nat /\ r \in Nat /\ r < Size /\ a = Size * q + r /\ Size * q \in Nat
  BY <1>0, DivFacts
<1>2. r % PageSize = a % PageSize
  BY <1>0, ModOfMod
<1>3. /\ r % PageSize \in Nat /\ r % PageSize <= r
      /\ a % PageSize \in Nat /\ a % PageSize <= a
  <2>1. \A n \in Nat : n % PageSize \in Nat /\ n % PageSize <= n
    <3> TAKE n \in Nat
    <3>1. /\ n % PageSize \in Nat /\ n \div PageSize \in Nat
          /\ n = PageSize * (n \div PageSize) + (n % PageSize)
      BY <1>0, DivFacts
    <3>2. PageSize * (n \div PageSize) \in Nat
      BY <1>0, <3>1
    <3> QED
      BY <3>1, <3>2
  <2> QED
    BY <1>1, <2>1
<1>4. Page(a) = a - (a % PageSize) /\ p = r - (r % PageSize)
  BY DEF Page
<1> HIDE DEF q, r, p
<1>5. Page(a) = Size * q + p /\ p \in Nat /\ p < Size
  BY <1>0, <1>1, <1>2, <1>3, <1>4
<1>6. Page(a) \in Nat /\ Size * q <= Page(a) /\ Page(a) < Size * q + Size
  BY <1>0, <1>1, <1>5
<1> DEFINE b == Page(a)
<1>7. b % Size = b - (Size * q)
  <2> HIDE DEF b
  <2>1. b \in Nat /\ Size * q <= b /\ b < Size * q + Size
    BY <1>6 DEF b
  <2>2. Size \in Nat \ {0} /\ q \in Nat
    BY <1>0, <1>1
  <2> QED
    BY <2>1, <2>2, ModUnique
<1>8. Page(a) % Size = p
  BY <1>1, <1>5, <1>6, <1>7
<1> QED
  BY <1>1, <1>6, <1>8 DEF Decoded, p, r

\* The chip makes of the address it is sent what FlashArray says of it.
LEMMA SentDecoded ==
  ASSUME NEW c, c.address \in Nat
  PROVE  /\ c.op \in {"page_program", "read_data"} => Decoded(Sent(c)) = Array!At(c)
         /\ c.op \in {"sector_erase", "block_erase"} => Decoded(Sent(c)) = Page(Array!At(c))
         /\ Array!At(c) \in Nat
<1>1. /\ (c.address % AddressSize) % Size = c.address % Size
      /\ c.address % AddressSize \in Nat
  BY ModOfMod, ChipAssumption, DriverAssumption
<1>2. Decoded(Page(c.address % AddressSize)) = Page(c.address % Size) /\ c.address % Size \in Nat
  BY <1>1, PageDecoded DEF Decoded
<1> QED
  BY <1>1, <1>2 DEF Sent, Decoded, Array!At

\* What a call to change the array makes the chip work on, by its code.
Work(m, c, a, data) ==
  CASE c = 2 -> [x \in Addresses |->
                   m[x] \ UNION {Bits \ data[k] : k \in {j \in 1 .. Len(data) : PageByte(a, j) = x}}]
    [] c = 32 -> [x \in Addresses |-> IF x \div SectorSize = a \div SectorSize THEN Bits ELSE m[x]]
    [] c = 82 -> [x \in Addresses |-> IF x \div BlockSize = a \div BlockSize THEN Bits ELSE m[x]]
    [] c = 96 -> [x \in Addresses |-> IF x \div Size = 0 \div Size THEN Bits ELSE m[x]]

\* The calls that change the array, and those that do not.
LEMMA KindsOfCalls ==
  ASSUME NEW c, c.op \in DOMAIN Opcode
  PROVE  /\ Programs(c) \/ Erases(c) <=> Opcode[c.op] \in {2, 32, 82, 96}
         /\ Programs(c) <=> Opcode[c.op] = 2
         /\ c.op = "sector_erase" <=> Opcode[c.op] = 32
         /\ c.op = "block_erase" <=> Opcode[c.op] = 82
         /\ c.op = "chip_erase" <=> Opcode[c.op] = 96
         /\ c.op = "read_data" <=> Opcode[c.op] = 3
         /\ c.op = "power_down" <=> Opcode[c.op] = 185
         /\ c.op = "power_up" <=> Opcode[c.op] = 171
         /\ c.op = "write_enable" <=> Opcode[c.op] = 6
         /\ c.op \in {"write_disable", "write_status_register"} <=> Opcode[c.op] = 4
         /\ c.op \in {"read_status_register", "read_electronic_signature"} <=> Opcode[c.op] \in {5, 144}
         /\ Opcode[c.op] \in {2, 3, 4, 5, 6, 32, 82, 96, 144, 171, 185}
BY DEF Opcode, Programs, Erases

LEMMA ResultIsArray ==
  ASSUME NEW m \in Arrays, NEW c
  PROVE  Array!Result(m, c) \in Arrays /\ Array!Result(m, c) # Idle
<1>1. 0 \in Addresses
  BY ChipAssumption DEF Addresses
<1>2. \A x \in Addresses : m[x] \subseteq Bits
  BY DEF Arrays
<1>3. CASE Array!Programs(c)
  <2>1. Array!Programmed(m, c.address, c.data) \in Arrays
    BY <1>2 DEF Array!Programmed, Arrays, Array!Addresses, Addresses
  <2> QED
    BY <1>1, <1>3, <2>1 DEF Array!Result, Arrays, Idle
<1>4. CASE ~Array!Programs(c)
  <2> DEFINE r == [x \in Addresses |-> IF x \in Array!Erased(c) THEN Bits ELSE m[x]]
  <2>1. r \in Arrays
    BY <1>2 DEF Arrays
  <2>2. Array!Result(m, c) = r
    BY <1>4 DEF Array!Result, Array!Addresses, Addresses
  <2> HIDE DEF r
  <2> QED
    BY <1>1, <2>1, <2>2 DEF Arrays, Idle
<1> QED
  BY <1>3, <1>4

\* The chip, sent the call, works on what FlashArray says of it.
LEMMA WorkIsResult ==
  ASSUME NEW m \in Arrays, NEW c \in Requests, NEW data,
         Programs(c) \/ Erases(c), Programs(c) => data = c.data
  PROVE  Work(m, Opcode[c.op], Decoded(Sent(c)), data) = Array!Result(m, c)
<1>0. c.op \in DOMAIN Opcode
  BY CallsAssumption
<1>1. CASE Programs(c)
  <2>1. Opcode[c.op] = 2
    BY <1>0, <1>1, KindsOfCalls
  <2>2. Decoded(Sent(c)) = Array!At(c)
    BY <1>1, SentDecoded, CallsAssumption DEF Programs
  <2>3. Array!Result(m, c) = Array!Programmed(m, Array!At(c), c.data)
    BY <1>1 DEF Programs, Array!Programs, Array!Result
  <2> QED
    BY <1>1, <2>1, <2>2, <2>3
    DEF Work, Array!Programmed, Addresses, Array!Addresses, PageByte, Array!PageByte
<1>2. CASE c.op = "sector_erase"
  <2>1. Opcode[c.op] = 32
    BY <1>0, <1>2, KindsOfCalls
  <2>2. Decoded(Sent(c)) = Page(Array!At(c)) /\ Array!At(c) \in Nat
    BY <1>2, SentDecoded, CallsAssumption
  <2>3. Decoded(Sent(c)) \div SectorSize = Array!At(c) \div SectorSize
    BY <2>2, PageStart, ChipAssumption DEF Page
  <2>4. Array!Result(m, c) = [x \in Addresses |-> IF x \in Array!Erased(c) THEN Bits ELSE m[x]]
    BY <1>2 DEF Array!Result, Array!Programs, Addresses, Array!Addresses
  <2>5. Array!Erased(c) = {x \in Addresses : x \div SectorSize = Array!At(c) \div SectorSize}
    BY <1>2 DEF Array!Erased, Array!Around, Addresses, Array!Addresses
  <2> QED
    BY <2>1, <2>3, <2>4, <2>5 DEF Work
<1>3. CASE c.op = "block_erase"
  <2>1. Opcode[c.op] = 82
    BY <1>0, <1>3, KindsOfCalls
  <2>2. Decoded(Sent(c)) = Page(Array!At(c)) /\ Array!At(c) \in Nat
    BY <1>3, SentDecoded, CallsAssumption
  <2>3. Decoded(Sent(c)) \div BlockSize = Array!At(c) \div BlockSize
    BY <2>2, PageStart, ChipAssumption DEF Page
  <2>4. Array!Result(m, c) = [x \in Addresses |-> IF x \in Array!Erased(c) THEN Bits ELSE m[x]]
    BY <1>3 DEF Array!Result, Array!Programs, Addresses, Array!Addresses
  <2>5. Array!Erased(c) = {x \in Addresses : x \div BlockSize = Array!At(c) \div BlockSize}
    BY <1>3 DEF Array!Erased, Array!Around, Addresses, Array!Addresses
  <2> QED
    BY <2>1, <2>3, <2>4, <2>5 DEF Work
<1>4. CASE c.op = "chip_erase"
  <2>1. Opcode[c.op] = 96
    BY <1>0, <1>4, KindsOfCalls
  <2>2. \A x \in Addresses : x \div Size = 0
    BY DivUnique, ChipAssumption DEF Addresses
  <2>3. 0 \div Size = 0
    BY DivUnique, ChipAssumption
  <2>4. Array!Result(m, c) = [x \in Addresses |-> IF x \in Array!Erased(c) THEN Bits ELSE m[x]]
    BY <1>4 DEF Array!Result, Array!Programs, Addresses, Array!Addresses
  <2>5. Array!Erased(c) = Addresses
    BY <1>4 DEF Array!Erased, Addresses, Array!Addresses
  <2> QED
    BY <2>1, <2>2, <2>3, <2>4, <2>5 DEF Work
<1> QED
  BY <1>1, <1>2, <1>3, <1>4 DEF Erases


\* What the chip makes of a call that changes the array when the chip select
\* rises: it starts work on the call's result, or lets the call be.
LEMMA DeselectedStartsWork ==
  ASSUME Deselected, ~Working, mem \in Arrays, call \in Requests, Programs(call) \/ Erases(call),
         received = Command(call, IF Programs(call) THEN call.data ELSE <<>>)
  PROVE  /\ UNCHANGED <<mem, wel, down>>
         /\ IF Array!Obeyed THEN Working' /\ target' = Array!Result(mem, call)
                            ELSE UNCHANGED target
<1> DEFINE code == Opcode[call.op]
           data == IF Programs(call) THEN call.data ELSE <<>>
<1>1. received.code = code /\ received.address = Sent(call) /\ received.data = data
  BY DEF Command
<1>2. call.op \in DOMAIN Opcode
  BY CallsAssumption
<1>3. code \in {2, 32, 82, 96} /\ (Programs(call) <=> code = 2)
  BY <1>2, KindsOfCalls
<1>4. Work(mem, code, Decoded(Sent(call)), data) = Array!Result(mem, call)
  BY WorkIsResult
<1>5. Array!Obeyed <=> wel /\ ~down /\ (code = 2 => data # <<>>)
  BY <1>3 DEF Array!Obeyed, Array!Programs, Programs
<1> HIDE DEF code, data
<1>6. Ignores(code, data) <=> ~(wel /\ ~down /\ (code = 2 => data # <<>>))
  BY <1>3 DEF Ignores
<1>7. UNCHANGED mem
  BY DEF Deselected
<1>8. CASE ~Array!Obeyed
  BY <1>1, <1>5, <1>6, <1>7, <1>8 DEF Deselected
<1>9. CASE Array!Obeyed
  <2>1. Obey(code, Decoded(Sent(call)), data)
    BY <1>1, <1>5, <1>6, <1>9 DEF Deselected
  <2>2. UNCHANGED <<wel, down>> /\ target' = Work(mem, code, Decoded(Sent(call)), data)
    <3>1. CASE code = 2
      BY <2>1, <3>1 DEF Obey, Work, Cleared
    <3>2. CASE code = 32
      BY <2>1, <3>2 DEF Obey, Work, Filled
    <3>3. CASE code = 82
      BY <2>1, <3>3 DEF Obey, Work, Filled
    <3>4. CASE code = 96
      BY <2>1, <3>4 DEF Obey, Work, Filled
    <3> QED
      BY <1>3, <3>1, <3>2, <3>3, <3>4
  <2>3. Array!Result(mem, call) # Idle
    BY ResultIsArray
  <2> QED
    BY <1>4, <1>7, <1>9, <2>2, <2>3 DEF Working
<1> QED
  BY <1>8, <1>9

\* And of every other call.
LEMMA DeselectedSwitches ==
  ASSUME Deselected, ~Working, call \in Requests, ~(Programs(call) \/ Erases(call)),
         received.code = Opcode[call.op], wel \in BOOLEAN, down \in BOOLEAN
  PROVE  /\ UNCHANGED <<mem, target>>
         /\ wel' \in BOOLEAN /\ down' \in BOOLEAN
         /\ call.op = "read_data" => UNCHANGED <<wel, down>>
         /\ call.op # "read_data" =>
              /\ UNCHANGED answer => Array!Switch \/ Array!Power \/ Array!Ask
<1> DEFINE code == Opcode[call.op]
<1>1. call.op \in DOMAIN Opcode
  BY CallsAssumption
<1>2. /\ code \in {3, 4, 5, 6, 144, 171, 185}
      /\ call.op = "read_data" <=> code = 3
      /\ call.op = "write_enable" <=> code = 6
      /\ call.op \in {"write_disable", "write_status_register"} <=> code = 4
      /\ call.op = "power_down" <=> code = 185
      /\ call.op = "power_up" <=> code = 171
      /\ call.op \in {"read_status_register", "read_electronic_signature"} <=> code \in {5, 144}
  BY <1>1, KindsOfCalls
<1> HIDE DEF code
<1>3. /\ UNCHANGED mem
      /\ IF Ignores(code, received.data)
         THEN UNCHANGED <<wel, target, down>>
         ELSE Obey(code, Decoded(received.address), received.data)
  BY DEF Deselected, code
<1>4. Ignores(code, received.data) <=> (down /\ code # 171) \/ code \in {3, 5, 144}
  BY <1>2 DEF Ignores
<1>5. CASE code \in {3, 5, 144}
  BY <1>2, <1>3, <1>4, <1>5 DEF Array!Ask
<1>6. CASE code \in {4, 6}
  <2>1. UNCHANGED <<target, down>> /\ wel' = IF down THEN wel ELSE code = 6
    <3>1. CASE down
      <4>1. code # 171
        BY <1>6
      <4>2. Ignores(code, received.data)
        BY <3>1, <4>1 DEF Ignores
      <4>3. UNCHANGED <<wel, target, down>>
        BY <1>3, <4>2
      <4> QED
        BY <3>1, <4>3, Zenon
    <3>2. CASE ~down /\ code = 6
      <4>1. wel' = TRUE /\ UNCHANGED <<target, down>>
        BY <1>3, <1>4, <3>2 DEF Obey
      <4> QED
        BY <3>2, <4>1
    <3>3. CASE ~down /\ code = 4
      <4>1. wel' = FALSE /\ UNCHANGED <<target, down>>
        BY <1>3, <1>4, <3>3 DEF Obey
      <4>2. (code = 6) = FALSE
        BY <3>3
      <4> QED
        BY <3>3, <4>1, <4>2
    <3> QED
      BY <1>6, <3>1, <3>2, <3>3
  <2>2. wel' = IF down THEN wel ELSE call.op = "write_enable"
    BY <1>2, <1>6, <2>1
  <2> QED
    BY <1>2, <1>3, <1>6, <2>1, <2>2, ZenonT(40) DEF Array!Switch
<1>7. CASE code \in {171, 185}
  <2>1. UNCHANGED <<target, wel>> /\ down' = (code = 185)
    <3>1. CASE code = 185 /\ down
      <4>1. UNCHANGED <<wel, target, down>>
        BY <1>3, <1>4, <3>1
      <4>2. down = TRUE /\ (code = 185) = TRUE
        BY <3>1
      <4> QED
        BY <4>1, <4>2
    <3>2. CASE code = 185 /\ ~down
      <4>1. down' = TRUE /\ UNCHANGED <<wel, target>>
        BY <1>3, <1>4, <3>2 DEF Obey
      <4> QED
        BY <3>2, <4>1
    <3>3. CASE code = 171
      <4>1. down' = FALSE /\ UNCHANGED <<wel, target>>
        BY <1>3, <1>4, <3>3 DEF Obey
      <4>2. (code = 185) = FALSE
        BY <3>3
      <4> QED
        BY <4>1, <4>2
    <3> QED
      BY <1>7, <3>1, <3>2, <3>3
  <2>2. down' = (call.op = "power_down")
    BY <1>2, <1>7, <2>1
  <2> QED
    BY <1>2, <1>3, <1>7, <2>1, <2>2 DEF Array!Power
<1> QED
  BY <1>2, <1>5, <1>6, <1>7


\* A call that waits for the chip.
LEMMA CallsThatWait ==
  ASSUME NEW c \in Requests
  PROVE  /\ c # Nothing /\ c.op \in DOMAIN Opcode
         /\ Programs(c) => c.op # "read_data" /\ ~Erases(c)
         /\ Erases(c) => c.op # "read_data"
BY CallsAssumption DEF Nothing, Opcode, Programs, Erases

LEMMA InitRefInv == Init => RefInv
<1> SUFFICES ASSUME Init PROVE RefInv
  OBVIOUS
<1>1. IInv
  BY InitIInv
<1>2. mem \in Arrays /\ wel \in BOOLEAN /\ down \in BOOLEAN
  BY ChipAssumption DEF Init, ChipInit
<1>3. step = "init" /\ call = Nothing /\ ~Working
  BY DEF Init, ChipInit, DriverInit, Working
<1> QED
  BY <1>1, <1>2, <1>3 DEF RefInv, CallFits, SentSoFar, WorkIsTheCall, Steps

LEMMA NextRefInv == RefInv /\ [Next]_vars => RefInv'
<1> SUFFICES ASSUME RefInv, [Next]_vars PROVE RefInv'
  OBVIOUS
<1>0. IInv'
  BY NextIInv DEF RefInv
<1>1. CASE Start
  <2>1. /\ step = "init" /\ step' = "idle" /\ UNCHANGED <<chipVars, call>>
    BY <1>1 DEF Start, init_spi, Goto, RefInv, IInv
  <2>2. ~Working /\ ~Working'
    BY <2>1 DEF RefInv, IInv, WaitsForChip, Working, chipVars
  <2> QED
    BY <1>0, <2>1, <2>2 DEF RefInv, CallFits, SentSoFar, WorkIsTheCall, Steps, chipVars
<1>2. CASE NewCall
  <2>1. PICK c \in Requests : Calls(c)
    BY <1>2 DEF NewCall
  <2>2. step = "idle" /\ step' = "select" /\ call' \in Requests /\ UNCHANGED chipVars
    BY <2>1 DEF Calls, Goto
  <2>3. ~Working /\ ~Working'
    BY <2>2 DEF RefInv, IInv, WaitsForChip, Working, chipVars
  <2> QED
    BY <1>0, <2>2, <2>3 DEF RefInv, CallFits, SentSoFar, WorkIsTheCall, Steps, chipVars
<1>3. CASE Continue
  <2>1. CASE Select
    <3>1. step = "select" /\ step' = "command" /\ UNCHANGED <<mem, wel, target, down, call>>
      BY <2>1 DEF Select, Goto
    <3>2. ~Working /\ ~Working'
      BY <3>1 DEF RefInv, IInv, WaitsForChip, Working
    <3> QED
      BY <1>0, <3>1, <3>2 DEF RefInv, CallFits, SentSoFar, WorkIsTheCall, Steps
  <2>2. CASE SendCommand
    <3>1. /\ step = "command" /\ call \in Requests
          /\ UNCHANGED <<mem, wel, target, down, call>>
          /\ step' = IF call.op = "read_data" THEN "receive"
                     ELSE IF Programs(call) THEN "send" ELSE "deselect"
      BY <2>2 DEF SendCommand, Goto, RefInv, CallFits
    <3>2. ~Working /\ ~Working'
      BY <3>1 DEF RefInv, IInv, WaitsForChip, Working
    <3>3. received' = Command(call, <<>>)
      BY <2>2 DEF SendCommand, Command, NoCommand
    <3>4. SentSoFar'
      BY <3>1, <3>3, CallsThatWait DEF SentSoFar, Command, Sent, Programs
    <3>5. CallFits'
      BY <3>1 DEF CallFits, Steps, Programs
    <3> QED
      BY <1>0, <3>1, <3>2, <3>4, <3>5 DEF RefInv, WorkIsTheCall
  <2>3. CASE SendData
    <3>1. /\ step = "send" /\ step' = "deselect" /\ Programs(call) /\ call \in Requests
          /\ UNCHANGED <<mem, wel, target, down, call>>
      BY <2>3 DEF SendData, Goto, RefInv, CallFits
    <3>2. ~Working /\ ~Working'
      BY <3>1 DEF RefInv, IInv, WaitsForChip, Working
    <3>3. received = Command(call, <<>>)
      BY <3>1 DEF RefInv, SentSoFar
    <3>4. received' = Command(call, call.data)
      BY <2>3, <3>3 DEF SendData, Command
    <3> QED
      BY <1>0, <3>1, <3>2, <3>4
      DEF RefInv, CallFits, SentSoFar, WorkIsTheCall, Steps, Command, Sent, Programs
  <2>4. CASE ReceiveData
    <3>1. /\ step = "receive" /\ step' = "deselect" /\ call.op = "read_data" /\ call \in Requests
          /\ UNCHANGED <<chipVars, call>>
      BY <2>4 DEF ReceiveData, Goto, RefInv, CallFits
    <3>2. ~Working /\ ~Working'
      BY <3>1 DEF RefInv, IInv, WaitsForChip, Working, chipVars
    <3>3. received = Command(call, <<>>) /\ ~Programs(call)
      BY <3>1 DEF RefInv, SentSoFar, Programs
    <3>4. received' = Command(call, <<>>)
      BY <3>1, <3>3 DEF chipVars
    <3> QED
      BY <1>0, <3>1, <3>2, <3>3, <3>4
      DEF RefInv, CallFits, SentSoFar, WorkIsTheCall, Steps, Command, Sent, Programs, chipVars
  <2>5. CASE Deselect
    <3>1. /\ step = "deselect" /\ call \in Requests /\ Deselected /\ UNCHANGED call
          /\ step' = IF Programs(call) \/ Erases(call) THEN "poll" ELSE "return"
      BY <2>5 DEF Deselect, Goto, RefInv, CallFits
    <3>2. ~Working
      BY <3>1 DEF RefInv, IInv, WaitsForChip
    <3>3. received = Command(call, IF Programs(call) THEN call.data ELSE <<>>)
      BY <3>1 DEF RefInv, SentSoFar
    <3>4. mem \in Arrays /\ wel \in BOOLEAN /\ down \in BOOLEAN
      BY DEF RefInv
    <3>5. CallFits'
      BY <3>1 DEF CallFits, Steps, Programs, Erases
    <3>6. SentSoFar'
      BY <3>1 DEF SentSoFar
    <3>7. CASE Programs(call) \/ Erases(call)
      <4>1. /\ UNCHANGED <<mem, wel, down>>
            /\ IF Array!Obeyed THEN Working' /\ target' = Array!Result(mem, call)
                               ELSE UNCHANGED target
        BY <3>1, <3>2, <3>3, <3>4, <3>7, DeselectedStartsWork
      <4>2. Array!Result(mem, call)' = Array!Result(mem, call)
        BY <3>1, <4>1
      <4>3. WorkIsTheCall'
        <5>1. CASE Array!Obeyed
          BY <3>1, <4>1, <4>2, <5>1 DEF WorkIsTheCall, Array!Obeyed, Array!Programs, Programs
        <5>2. CASE ~Array!Obeyed
          BY <3>2, <4>1, <5>2 DEF WorkIsTheCall, Working
        <5> QED
          BY <5>1, <5>2
      <4> QED
        BY <1>0, <3>4, <3>5, <3>6, <4>1, <4>3 DEF RefInv
    <3>8. CASE ~(Programs(call) \/ Erases(call))
      <4>1. received.code = Opcode[call.op]
        BY <3>3 DEF Command
      <4>2. UNCHANGED <<mem, target>> /\ wel' \in BOOLEAN /\ down' \in BOOLEAN
        BY <3>1, <3>2, <3>4, <3>8, <4>1, DeselectedSwitches
      <4>3. WorkIsTheCall'
        BY <3>2, <4>2 DEF WorkIsTheCall, Working
      <4> QED
        BY <1>0, <3>4, <3>5, <3>6, <4>2, <4>3 DEF RefInv
    <3> QED
      BY <3>7, <3>8
  <2>6. CASE Poll
    <3>1. /\ step = "poll" /\ step' \in {"poll", "return"} /\ UNCHANGED <<chipVars, call>>
      BY <2>6 DEF Poll
    <3>2. CallFits'
      BY <3>1 DEF RefInv, CallFits, Steps, Programs, Erases
    <3>3. SentSoFar'
      BY <3>1 DEF SentSoFar
    <3>4. WorkIsTheCall'
      BY <3>1 DEF RefInv, WorkIsTheCall, Working, chipVars, Programs
    <3> QED
      BY <1>0, <3>1, <3>2, <3>3, <3>4 DEF RefInv, chipVars
  <2>7. CASE Return
    <3>1. step = "return" /\ step' = "idle" /\ call' = Nothing /\ UNCHANGED chipVars
      BY <2>7 DEF Return, Goto
    <3>2. ~Working'
      BY <3>1 DEF RefInv, IInv, WaitsForChip, Working, chipVars
    <3> QED
      BY <1>0, <3>1, <3>2 DEF RefInv, CallFits, SentSoFar, WorkIsTheCall, Steps, chipVars
  <2> QED
    BY <1>3, <2>1, <2>2, <2>3, <2>4, <2>5, <2>6, <2>7 DEF Continue, Transfer
<1>4. CASE Chip
  <2>1. Working /\ mem' = target /\ ~Working' /\ wel' = FALSE /\ UNCHANGED <<down, driverVars>>
    BY <1>4 DEF Chip, ChipWorks, Complete, Working
  <2>2. mem' \in Arrays
    BY <2>1, ResultIsArray DEF RefInv, WorkIsTheCall
  <2>3. step = "poll" /\ UNCHANGED <<step, call>>
    BY <2>1 DEF RefInv, IInv, WaitsForChip, driverVars
  <2> QED
    BY <1>0, <2>1, <2>2, <2>3
    DEF RefInv, CallFits, SentSoFar, WorkIsTheCall, Steps, Programs, Erases
<1>5. CASE Cut
  <2>1. ChipPowerCut /\ step' = "init" /\ call' = Nothing
    BY <1>5 DEF Cut, PowerCut
  <2>2. ~Working' /\ wel' = FALSE /\ down' = FALSE
    BY <2>1 DEF ChipPowerCut, Working
  <2>3. mem' \in Arrays
    <3>1. CASE Working
      <4>1. target \in Arrays
        BY <3>1, ResultIsArray DEF RefInv, WorkIsTheCall
      <4> QED
        BY <2>1, <3>1, <4>1 DEF ChipPowerCut, OnTheWay, Arrays, RefInv
    <3>2. CASE ~Working
      BY <2>1, <3>2 DEF ChipPowerCut, RefInv
    <3> QED
      BY <3>1, <3>2
  <2> QED
    BY <1>0, <2>1, <2>2, <2>3 DEF RefInv, CallFits, SentSoFar, WorkIsTheCall, Steps
<1>6. CASE UNCHANGED vars
  <2>1. UNCHANGED <<mem, wel, target, down, received, step, call>>
    BY <1>6 DEF vars, chipVars, driverVars
  <2>2. CallFits' /\ SentSoFar'
    BY <2>1 DEF RefInv, CallFits, SentSoFar, Programs, Erases, Command, Sent
  <2>3. WorkIsTheCall'
    BY <2>1 DEF RefInv, WorkIsTheCall, Working, Programs
  <2> QED
    BY <1>0, <2>1, <2>2, <2>3 DEF RefInv
<1> QED
  BY <1>1, <1>2, <1>3, <1>4, <1>5, <1>6 DEF Next


\* A step that leaves the array, the switches and the call as they are, and
\* does not make the call take effect, is no step of FlashArray.
LEMMA StepStutters ==
  ASSUME UNCHANGED <<mem, wel, down, call, answer>>, UNCHANGED Performed
  PROVE  UNCHANGED Array!arrayVars
BY DEF Array!arrayVars

\* A cut leaves every cell of the running change on its way.
LEMMA CutIsInterruption ==
  ASSUME NEW m \in Arrays, NEW t \in Arrays, NEW p \in OnTheWay(m, t)
  PROVE  p \in Array!Interrupted(m, t)
<1> DEFINE changing == {x \in Addresses : m[x] # t[x]}
<1>1. PICK part \in [changing -> SUBSET Bits] :
        /\ \A x \in changing : (m[x] \cap t[x]) \subseteq part[x] /\ part[x] \subseteq (m[x] \cup t[x])
        /\ p = [x \in Addresses |-> IF x \in changing THEN part[x] ELSE m[x]]
  BY DEF OnTheWay
<1>2. p \in [Addresses -> SUBSET Bits]
  BY <1>1 DEF Arrays
<1>3. ASSUME NEW x \in Addresses
      PROVE  (m[x] \cap t[x]) \subseteq p[x] /\ p[x] \subseteq (m[x] \cup t[x])
  <2>1. CASE x \in changing
    BY <1>1, <2>1
  <2>2. CASE x \notin changing
    BY <1>1, <2>2
  <2> QED
    BY <2>1, <2>2
<1> QED
  BY <1>2, <1>3 DEF Array!Interrupted, Array!Addresses, Addresses

LEMMA InitArray == Init => Array!Init
<1> SUFFICES ASSUME Init PROVE Array!Init
  OBVIOUS
<1>1. mem \in [Array!Addresses -> SUBSET Bits]
  BY ChipAssumption DEF Init, ChipInit, Arrays, Addresses, Array!Addresses
<1>2. step = "init" /\ wel = FALSE /\ down = FALSE /\ call = Nothing /\ answer = <<>>
  BY DEF Init, ChipInit, DriverInit
<1>3. Performed = FALSE
  BY <1>2 DEF Performed
<1> QED
  BY <1>1, <1>2, <1>3 DEF Array!Init, Nothing, Array!Nothing

LEMMA NextArray == RefInv /\ RefInv' /\ [Next]_vars => [Array!Next]_(Array!arrayVars)
<1> SUFFICES ASSUME RefInv, RefInv', [Next]_vars
             PROVE  Array!Next \/ UNCHANGED Array!arrayVars
  OBVIOUS
<1>0. step \in Steps /\ (step = "poll" \/ ~Working)
  BY DEF RefInv, CallFits, IInv, WaitsForChip
<1>1. CASE Start
  <2>1. step = "init" /\ step' = "idle" /\ UNCHANGED <<chipVars, call, answer>>
    BY <1>1 DEF Start, init_spi, Goto, RefInv, IInv
  <2>2. Performed = FALSE /\ Performed' = FALSE
    BY <2>1 DEF Performed
  <2> QED
    BY <2>1, <2>2, StepStutters DEF chipVars
<1>2. CASE NewCall
  <2>1. PICK c \in Requests : Calls(c)
    BY <1>2 DEF NewCall
  <2>2. /\ step = "idle" /\ step' = "select" /\ call' = c /\ call = Nothing
        /\ UNCHANGED <<chipVars, answer>>
    BY <2>1 DEF Calls, Goto, RefInv, CallFits
  <2>3. c # Nothing
    BY CallsThatWait
  <2>4. Performed' = FALSE
    BY <2>2 DEF Performed
  <2>5. Array!Request
    BY <2>2, <2>3, <2>4 DEF Array!Request, Array!Nothing, Nothing, chipVars
  <2> QED
    BY <2>5 DEF Array!Next
<1>3. CASE Continue
  <2>1. CASE Select
    <3>1. step = "select" /\ step' = "command" /\ UNCHANGED <<mem, wel, down, call, answer>>
      BY <2>1 DEF Select, Goto
    <3>2. Performed = FALSE /\ Performed' = FALSE
      BY <3>1 DEF Performed
    <3> QED
      BY <3>1, <3>2, StepStutters
  <2>2. CASE SendCommand
    <3>1. /\ step = "command" /\ UNCHANGED <<mem, wel, down, call, answer>>
          /\ step' \in {"receive", "send", "deselect"}
          /\ step' = "deselect" => call.op # "read_data"
      BY <2>2 DEF SendCommand, Goto
    <3>2. Performed = FALSE /\ Performed' = FALSE
      BY <3>1 DEF Performed
    <3> QED
      BY <3>1, <3>2, StepStutters
  <2>3. CASE SendData
    <3>1. /\ step = "send" /\ step' = "deselect" /\ Programs(call)
          /\ UNCHANGED <<mem, wel, down, call, answer>>
      BY <2>3 DEF SendData, Goto, RefInv, CallFits
    <3>2. Performed = FALSE /\ Performed' = FALSE
      BY <3>1 DEF Performed, Programs
    <3> QED
      BY <3>1, <3>2, StepStutters
  <2>4. CASE ReceiveData
    <3>1. /\ step = "receive" /\ step' = "deselect" /\ call.op = "read_data"
          /\ UNCHANGED <<mem, wel, down, call>>
          /\ received = Command(call, <<>>)
      BY <2>4 DEF ReceiveData, Goto, RefInv, CallFits, SentSoFar, chipVars
    <3>2. Performed = FALSE /\ Performed' = TRUE
      BY <3>1 DEF Performed
    <3>3. Decoded(received.address) = Array!At(call)
      BY <3>1, SentDecoded, CallsAssumption DEF RefInv, CallFits, Command
    <3>4. ~down => answer' = [k \in 1 .. call.len |-> mem[(Array!At(call) + k - 1) % Size]]
      BY <1>0, <2>4, <3>1, <3>3 DEF ReceiveData
    <3>5. Array!Read
      BY <3>1, <3>4 DEF Array!Read
    <3>6. Array!Perform
      BY <3>1, <3>2, <3>5 DEF Array!Perform
    <3> QED
      BY <3>6 DEF Array!Next
  <2>5. CASE Deselect
    <3>1. /\ step = "deselect" /\ call \in Requests /\ Deselected /\ UNCHANGED <<call, answer>>
          /\ step' = IF Programs(call) \/ Erases(call) THEN "poll" ELSE "return"
          /\ ~Working
      BY <1>0, <2>5 DEF Deselect, Goto, RefInv, CallFits
    <3>2. received = Command(call, IF Programs(call) THEN call.data ELSE <<>>)
      BY <3>1 DEF RefInv, SentSoFar
    <3>3. mem \in Arrays /\ wel \in BOOLEAN /\ down \in BOOLEAN
      BY DEF RefInv
    <3>4. Performed = (call.op = "read_data") /\ Performed' = (~Working')
      BY <3>1 DEF Performed
    <3>5. CASE Programs(call) \/ Erases(call)
      <4>1. /\ UNCHANGED <<mem, wel, down>>
            /\ IF Array!Obeyed THEN Working' /\ target' = Array!Result(mem, call)
                               ELSE UNCHANGED target
        BY <3>1, <3>2, <3>3, <3>5, DeselectedStartsWork
      <4>2. call.op # "read_data"
        BY <3>1, <3>5, CallsThatWait
      <4>3. CASE Array!Obeyed
        <5>1. Performed = FALSE /\ Performed' = FALSE
          BY <3>4, <4>1, <4>2, <4>3
        <5> QED
          BY <3>1, <4>1, <5>1, StepStutters
      <4>4. CASE ~Array!Obeyed
        <5>1. ~Working'
          BY <3>1, <4>1, <4>4 DEF Working
        <5>2. ~Performed /\ Performed'
          BY <3>4, <4>2, <5>1
        <5>3. Array!Change
          BY <3>1, <3>5, <4>1, <4>4
          DEF Array!Change, Array!Programs, Array!Erases, Programs, Erases
        <5>4. Array!Perform
          BY <3>1, <5>2, <5>3 DEF Array!Perform
        <5> QED
          BY <5>4 DEF Array!Next
      <4> QED
        BY <4>3, <4>4
    <3>6. CASE ~(Programs(call) \/ Erases(call))
      <4>1. received.code = Opcode[call.op]
        BY <3>2 DEF Command
      <4>2. /\ UNCHANGED <<mem, target>>
            /\ call.op = "read_data" => UNCHANGED <<wel, down>>
            /\ call.op # "read_data" => Array!Switch \/ Array!Power \/ Array!Ask
        BY <3>1, <3>3, <3>6, <4>1, DeselectedSwitches
      <4>3. ~Working'
        BY <3>1, <4>2 DEF Working
      <4>4. CASE call.op = "read_data"
        <5>1. Performed = TRUE /\ Performed' = TRUE
          BY <3>4, <4>3, <4>4
        <5> QED
          BY <3>1, <4>2, <4>4, <5>1, StepStutters
      <4>5. CASE call.op # "read_data"
        <5>1. ~Performed /\ Performed'
          BY <3>4, <4>3, <4>5
        <5>2. Array!Perform
          BY <3>1, <4>2, <4>5, <5>1 DEF Array!Perform
        <5> QED
          BY <5>2 DEF Array!Next
      <4> QED
        BY <4>4, <4>5
    <3> QED
      BY <3>5, <3>6
  <2>6. CASE Poll
    <3>1. /\ step = "poll" /\ step' \in {"poll", "return"}
          /\ UNCHANGED <<mem, wel, down, target, call, answer>>
      BY <2>6 DEF Poll, chipVars
    <3>2. Performed = (~Working) /\ Performed' = (~Working')
      BY <3>1 DEF Performed
    <3>3. UNCHANGED Working
      BY <3>1 DEF Working
    <3> QED
      BY <3>1, <3>2, <3>3, StepStutters
  <2>7. CASE Return
    <3>1. /\ step = "return" /\ step' = "idle" /\ call' = Nothing
          /\ UNCHANGED <<mem, wel, down, answer>>
      BY <2>7 DEF Return, Goto, chipVars
    <3>2. Performed
      BY <1>0, <3>1 DEF Performed
    <3>3. Performed' = FALSE
      BY <3>1 DEF Performed
    <3>4. Array!Return
      BY <3>1, <3>2, <3>3 DEF Array!Return, Array!Nothing, Nothing
    <3> QED
      BY <3>4 DEF Array!Next
  <2> QED
    BY <1>3, <2>1, <2>2, <2>3, <2>4, <2>5, <2>6, <2>7 DEF Continue, Transfer
<1>4. CASE Chip
  <2>1. /\ Working /\ mem' = target /\ ~Working' /\ wel' = FALSE
        /\ UNCHANGED <<down, step, call, answer>>
    BY <1>4 DEF Chip, ChipWorks, Complete, Working, driverVars
  <2>2. /\ step = "poll" /\ ~down /\ wel /\ (Programs(call) => call.data # <<>>)
        /\ target = Array!Result(mem, call) /\ (Programs(call) \/ Erases(call))
    BY <1>0, <2>1 DEF RefInv, IInv, WorkIsTheCall, CallFits
  <2>3. ~Performed /\ Performed'
    BY <2>1, <2>2 DEF Performed
  <2>4. Array!Obeyed
    BY <2>2 DEF Array!Obeyed, Array!Programs, Programs
  <2>5. Array!Change
    BY <2>1, <2>2, <2>4
    DEF Array!Change, Array!Programs, Array!Erases, Programs, Erases
  <2>6. Array!Perform
    BY <2>1, <2>3, <2>5 DEF Array!Perform
  <2> QED
    BY <2>6 DEF Array!Next
<1>5. CASE Cut
  <2>1. ChipPowerCut /\ step' = "init" /\ call' = Nothing /\ answer' = <<>>
    BY <1>5 DEF Cut, PowerCut
  <2>2. wel' = FALSE /\ down' = FALSE
    BY <2>1 DEF ChipPowerCut
  <2>3. Performed' = FALSE
    BY <2>1 DEF Performed
  <2>4. CASE Working
    <3>1. /\ step = "poll" /\ wel /\ target = Array!Result(mem, call)
          /\ Programs(call) \/ Erases(call)
          /\ mem \in Arrays
      BY <1>0, <2>4 DEF RefInv, WorkIsTheCall, CallFits
    <3>2. ~Performed
      BY <2>4, <3>1 DEF Performed
    <3>3. mem' \in OnTheWay(mem, target)
      BY <2>1, <2>4 DEF ChipPowerCut
    <3>4. mem' \in Array!Interrupted(mem, Array!Result(mem, call))
      BY <3>1, <3>3, ResultIsArray, CutIsInterruption
    <3>5. Array!PowerCut
      BY <2>1, <2>2, <2>3, <3>1, <3>2, <3>4
      DEF Array!PowerCut, Array!Nothing, Nothing, Array!Programs, Array!Erases, Programs, Erases
    <3> QED
      BY <3>5 DEF Array!Next
  <2>5. CASE ~Working
    <3>1. UNCHANGED mem
      BY <2>1, <2>5 DEF ChipPowerCut
    <3>2. Array!PowerCut
      BY <2>1, <2>2, <2>3, <3>1 DEF Array!PowerCut, Array!Nothing, Nothing
    <3> QED
      BY <3>2 DEF Array!Next
  <2> QED
    BY <2>4, <2>5
<1>6. CASE UNCHANGED vars
  <2>1. UNCHANGED <<mem, wel, target, down, step, call, answer>>
    BY <1>6 DEF vars, chipVars, driverVars
  <2>2. UNCHANGED Performed
    BY <2>1 DEF Performed, Working
  <2> QED
    BY <2>1, <2>2, StepStutters
<1> QED
  BY <1>1, <1>2, <1>3, <1>4, <1>5, <1>6 DEF Next

(***************************************************************************)
(* The driver and the chip together are the array that FlashArray          *)
(* promises: every call takes effect once, at one moment, as its name      *)
(* says, and a power cut leaves at most the running change half done.      *)
(***************************************************************************)
THEOREM Refinement == Safety => ImplementsArray
<1>1. Init => Array!Init
  BY InitArray
<1>2. Safety => []RefInv
  BY InitRefInv, NextRefInv, PTL DEF Safety
<1>3. []RefInv /\ [][Next]_vars => [][Array!Next]_(Array!arrayVars)
  BY NextArray, PTL
<1> QED
  BY <1>1, <1>2, <1>3, PTL DEF Safety, ImplementsArray, Array!Safety

-----------------------------------------------------------------------------
(***************************************************************************)
(* The example program.                                                    *)
(***************************************************************************)
\* A state of the array on the way from the original to the wanted contents.
Between(m) ==
  \A x \in Addresses :
    IF x \in Asked THEN Wanted(x) \subseteq m[x] /\ m[x] \subseteq original[x]
                   ELSE m[x] = original[x]

\* The beginning of the data, as a reset leaves it.
Prefix(data) ==
  /\ Len(data) \in 0 .. Len(Data)
  /\ \A k \in 1 .. Len(data) : data[k] = Data[k]

\* What the chip has received is harmless or a part of the one program.
Harmless(r) ==
  \/ r.code \in {0, 3, 6}
  \/ r.code = 2 /\ r.address = Address /\ "data" \in DOMAIN r /\ Prefix(r.data)

(***************************************************************************)
(* The array and what the chip is turning it into lie between original and *)
(* wanted, since only the one page_program call is ever sent, in whole or  *)
(* cut short.                                                              *)
(***************************************************************************)
MainInv ==
  /\ Between(mem)
  /\ Working => Between(target)
  /\ Harmless(received)
  /\ call \in {Nothing, EnableCall, ProgramCall, ReadCall}
  /\ step \in {"select", "command", "send", "receive"} => call # Nothing
  /\ step = "send" => call = ProgramCall /\ received.code = 2 /\ received.address = Address

LEMMA DataLength == Len(Data) \in Nat /\ Address \in Int
BY MainAssumption DEF Addresses

\* Programming a part of the data clears no bit it should not.
LEMMA ClearedBetween ==
  ASSUME Between(mem), NEW data, Prefix(data)
  PROVE  Between(Cleared(Address, data))
<1> DEFINE cleared == Cleared(Address, data)
<1> SUFFICES ASSUME NEW x \in Addresses
             PROVE  IF x \in Asked
                    THEN Wanted(x) \subseteq cleared[x] /\ cleared[x] \subseteq original[x]
                    ELSE cleared[x] = original[x]
  BY DEF Between
<1> DEFINE hits == {j \in 1 .. Len(data) : PageByte(Address, j) = x}
           removed == UNION {Bits \ data[k] : k \in hits}
<1>1. cleared[x] = mem[x] \ removed
  BY DEF Cleared
<1>2. \A j \in hits : j \in 1 .. Len(Data) /\ x = Address + j - 1 /\ data[j] = Data[j]
  BY MainAssumption, DataLength DEF Prefix
<1>3. CASE x \in Asked
  <2>1. Wanted(x) \subseteq mem[x] /\ mem[x] \subseteq original[x]
    BY <1>3 DEF Between
  <2>2. \A j \in hits : x - Address + 1 = j
    BY <1>2, DataLength
  <2>3. Wanted(x) \cap removed = {}
    BY <1>2, <2>2 DEF Wanted
  <2> QED
    BY <1>1, <1>3, <2>1, <2>3
<1>4. CASE x \notin Asked
  <2>1. hits = {}
    BY <1>2, <1>4, DataLength DEF Asked
  <2>2. removed = {}
    BY <2>1
  <2>3. mem[x] = original[x]
    BY <1>4 DEF Between
  <2> QED
    BY <1>1, <1>4, <2>2, <2>3
<1> QED
  BY <1>3, <1>4

\* A change cut short between two such arrays ends in a third.
LEMMA OnTheWayBetween ==
  ASSUME Between(mem), Between(target), NEW m \in OnTheWay(mem, target)
  PROVE  Between(m)
<1> DEFINE changing == {x \in Addresses : mem[x] # target[x]}
<1>1. PICK part \in [changing -> SUBSET Bits] :
        /\ m = [x \in Addresses |-> IF x \in changing THEN part[x] ELSE mem[x]]
        /\ \A x \in changing : /\ (mem[x] \cap target[x]) \subseteq part[x]
                               /\ part[x] \subseteq (mem[x] \cup target[x])
  BY DEF OnTheWay
<1> SUFFICES ASSUME NEW x \in Addresses
             PROVE  IF x \in Asked
                    THEN Wanted(x) \subseteq m[x] /\ m[x] \subseteq original[x]
                    ELSE m[x] = original[x]
  BY DEF Between
<1>2. /\ x \in Asked => /\ Wanted(x) \subseteq mem[x] /\ mem[x] \subseteq original[x]
                        /\ Wanted(x) \subseteq target[x] /\ target[x] \subseteq original[x]
      /\ x \notin Asked => mem[x] = original[x] /\ target[x] = original[x]
  BY DEF Between
<1>3. CASE x \in changing
  <2>1. /\ m[x] = part[x]
        /\ (mem[x] \cap target[x]) \subseteq part[x]
        /\ part[x] \subseteq (mem[x] \cup target[x])
    BY <1>1, <1>3
  <2>2. x \in Asked
    BY <1>2, <1>3
  <2> QED
    BY <1>2, <2>1, <2>2
<1>4. CASE x \notin changing
  <2>1. m[x] = mem[x]
    BY <1>1, <1>4
  <2> QED
    BY <1>2, <2>1
<1> QED
  BY <1>3, <1>4

\* An address of the array goes to the chip and through it as it is.
LEMMA AddressSent == Address % AddressSize = Address /\ Decoded(Address) = Address
<1>1. /\ Address \in Nat /\ Address < Size /\ Size \in Nat \ {0}
      /\ AddressSize \in Nat \ {0} /\ AddressSize % Size = 0
  BY MainAssumption, ChipAssumption, DriverAssumption DEF Addresses
<1>2. PICK k \in Nat : AddressSize = Size * k
  <2>1. /\ AddressSize \div Size \in Nat
        /\ AddressSize = Size * (AddressSize \div Size) + (AddressSize % Size)
    BY <1>1, DivFacts
  <2>2. AddressSize = Size * (AddressSize \div Size)
    BY <1>1, <2>1
  <2> QED
    BY <2>1, <2>2
<1>3. Size * 1 <= Size * k
  <2>1. k # 0
    BY <1>1, <1>2
  <2> QED
    BY <1>1, <2>1, TimesMono
<1>4. Size <= AddressSize
  BY <1>1, <1>2, <1>3
<1>5. Address % Size = Address - (Size * 0)
  BY <1>1, ModUnique
<1>6. Address % AddressSize = Address - (AddressSize * 0)
  BY <1>1, <1>4, ModUnique
<1> QED
  BY <1>1, <1>5, <1>6 DEF Decoded

\* A rising chip select never starts anything but the program.
LEMMA DeselectedBetween ==
  ASSUME MainInv, Deselected
  PROVE  /\ mem' = mem
         /\ Working' => target' = target \/ \E d : Prefix(d) /\ target' = Cleared(Address, d)
         /\ Harmless(received')
<1>1. mem' = mem /\ received'.code = 0
  BY DEF Deselected, NoCommand
<1>2. CASE Ignores(received.code, received.data)
  BY <1>1, <1>2 DEF Deselected, Harmless, Working
<1>3. CASE ~Ignores(received.code, received.data)
  <2>1. Obey(received.code, Decoded(received.address), received.data)
    BY <1>3 DEF Deselected
  <2>2. CASE received.code \in {0, 3, 6}
    BY <1>1, <2>1, <2>2 DEF Obey, Harmless
  <2>3. CASE received.code = 2 /\ received.address = Address /\ Prefix(received.data)
    BY <1>1, <2>1, <2>3, AddressSent DEF Obey, Harmless
  <2> QED
    BY <2>2, <2>3 DEF MainInv, Harmless
<1> QED
  BY <1>2, <1>3

\* A step of the chip select keeps the invariant's part on the chip.
LEMMA DeselectedKeeps ==
  ASSUME MainInv, Deselected, UNCHANGED original
  PROVE  Between(mem)' /\ (Working' => Between(target)') /\ Harmless(received)'
<1>1. mem' = mem /\ Harmless(received')
  BY DeselectedBetween
<1>2. Between(mem)'
  BY <1>1 DEF MainInv, Between, Wanted
<1>3. ASSUME Working' PROVE Between(target)'
  <2>1. CASE target' = target
    BY <1>3, <2>1 DEF MainInv, Between, Wanted, Working
  <2>2. CASE \E d : Prefix(d) /\ target' = Cleared(Address, d)
    <3>1. PICK d : Prefix(d) /\ target' = Cleared(Address, d)
      BY <2>2
    <3>2. Between(Cleared(Address, d))
      BY <3>1, ClearedBetween DEF MainInv
    <3> QED
      BY <3>1, <3>2 DEF Between, Wanted
  <2> QED
    BY <1>3, <2>1, <2>2, DeselectedBetween
<1> QED
  BY <1>1, <1>2, <1>3 DEF Harmless

LEMMA InitMainInv == MainInit => MainInv
<1> SUFFICES ASSUME MainInit PROVE MainInv
  OBVIOUS
<1>1. Between(mem)
  BY DEF MainInit, Init, Between, Wanted
<1>2. ~Working /\ Harmless(received) /\ call = Nothing /\ step = "init"
  BY DEF MainInit, Init, ChipInit, DriverInit, Working, Idle, Harmless, NoCommand
<1> QED
  BY <1>1, <1>2 DEF MainInv

\* The parts of the invariant that a step leaving the chip alone keeps.
LEMMA ChipUntouched ==
  ASSUME MainInv, UNCHANGED <<mem, target, original>>
  PROVE  Between(mem)' /\ (Working' => Between(target)')
BY DEF MainInv, Between, Wanted, Working

LEMMA TransferIInv ==
  ASSUME MainInv, Transfer, UNCHANGED original
  PROVE  MainInv'
<1>1. CASE Select
  <2>1. UNCHANGED <<mem, target, received, call>> /\ step = "select" /\ step' = "command"
    BY <1>1 DEF Select, Goto
  <2> QED
    BY <2>1, ChipUntouched DEF MainInv, Harmless
<1>2. CASE SendCommand
  <2>1. UNCHANGED <<mem, target, call>> /\ step = "command" /\ call # Nothing
    BY <1>2 DEF SendCommand, Goto, MainInv
  <2>2. received' = [code |-> Opcode[call.op], address |-> Sent(call), data |-> <<>>]
    BY <1>2 DEF SendCommand, NoCommand
  <2>3. CASE call = EnableCall
    <3>1. received'.code = 6 /\ step' = "deselect"
      BY <1>2, <2>2, <2>3 DEF SendCommand, Goto, EnableCall, Opcode, Programs
    <3> QED
      BY <2>1, <3>1, ChipUntouched DEF MainInv, Harmless
  <2>4. CASE call = ReadCall
    <3>1. received'.code = 3 /\ step' = "receive"
      BY <1>2, <2>2, <2>4 DEF SendCommand, Goto, ReadCall, Opcode, Programs
    <3> QED
      BY <2>1, <3>1, ChipUntouched DEF MainInv, Harmless
  <2>5. CASE call = ProgramCall
    <3>1. /\ received'.code = 2 /\ received'.address = Address /\ received'.data = <<>>
          /\ "data" \in DOMAIN received'
      BY <2>2, <2>5, AddressSent DEF ProgramCall, Opcode, Sent
    <3>2. Prefix(received'.data)
      BY <3>1, DataLength DEF Prefix
    <3>3. step' = "send"
      BY <1>2, <2>5 DEF SendCommand, Goto, ProgramCall, Programs
    <3> QED
      BY <2>1, <2>5, <3>1, <3>2, <3>3, ChipUntouched DEF MainInv, Harmless
  <2> QED
    BY <2>1, <2>3, <2>4, <2>5 DEF MainInv
<1>3. CASE SendData
  <2>1. /\ UNCHANGED <<mem, target, call>> /\ step' = "deselect"
        /\ received' = [received EXCEPT !.data = Data]
        /\ received.code = 2 /\ received.address = Address
    BY <1>3 DEF SendData, Goto, MainInv, ProgramCall
  <2>2. Prefix(Data)
    BY DataLength DEF Prefix
  <2>3. Harmless(received')
    <3>1. "data" \in DOMAIN received
      BY <2>1 DEF MainInv, Harmless
    <3>2. /\ received'.code = 2 /\ received'.address = Address
          /\ received'.data = Data /\ "data" \in DOMAIN received'
      BY <2>1, <3>1
    <3> QED
      BY <2>2, <3>2 DEF Harmless
  <2> QED
    BY <2>1, <2>3, ChipUntouched DEF MainInv, Harmless
<1>4. CASE ReceiveData
  BY <1>4, ChipUntouched DEF ReceiveData, Goto, chipVars, MainInv, Harmless
<1>5. CASE Deselect
  <2>1. Deselected /\ UNCHANGED call /\ step' \in {"poll", "return"}
    BY <1>5 DEF Deselect, Goto
  <2> QED
    BY <2>1, DeselectedKeeps DEF MainInv
<1>6. CASE Poll
  <2>1. UNCHANGED <<mem, target, received, call>> /\ step' \in {"poll", "return"}
    BY <1>6 DEF Poll, chipVars
  <2> QED
    BY <2>1, ChipUntouched DEF MainInv, Harmless
<1> QED
  BY <1>1, <1>2, <1>3, <1>4, <1>5, <1>6 DEF Transfer

\* A reset loses the call; of the data the chip may have seen the beginning.
LEMMA ResetIInv ==
  ASSUME MainInv, Reset, UNCHANGED original
  PROVE  MainInv'
<1>1. step' = "init" /\ call' = Nothing
  BY DEF Reset
<1>2. CASE UNCHANGED chipVars
  BY <1>1, <1>2, ChipUntouched DEF chipVars, MainInv, Harmless
<1>3. CASE /\ step = "send"
           /\ \E n \in 1 .. Len(call.data) - 1 :
                received' = [received EXCEPT !.data = SubSeq(call.data, 1, n)]
           /\ UNCHANGED <<mem, wel, target, down, cs>>
  <2>1. call.data = Data /\ received.code = 2 /\ received.address = Address
    BY <1>3 DEF MainInv, ProgramCall
  <2>2. PICK n \in 1 .. Len(Data) - 1 :
          received' = [received EXCEPT !.data = SubSeq(Data, 1, n)]
    BY <1>3, <2>1
  <2>3. Prefix(SubSeq(Data, 1, n))
    <3>1. Data \in Seq(SUBSET Bits) /\ n \in Nat /\ n <= Len(Data)
      BY MainAssumption, DataLength
    <3>2. Len(SubSeq(Data, 1, n)) = n /\ \A k \in 1 .. n : SubSeq(Data, 1, n)[k] = Data[k]
      BY <3>1
    <3> QED
      BY <3>1, <3>2, DataLength DEF Prefix
  <2>4. Harmless(received')
    <3> DEFINE part == SubSeq(Data, 1, n)
    <3> HIDE DEF part
    <3>1. received' = [received EXCEPT !.data = part] /\ Prefix(part)
      BY <2>2, <2>3 DEF part
    <3>2. "data" \in DOMAIN received
      BY <2>1 DEF MainInv, Harmless
    <3>3. /\ received'.code = received.code /\ received'.address = received.address
          /\ received'.data = part /\ "data" \in DOMAIN received'
      BY <3>1, <3>2
    <3> QED
      BY <2>1, <3>1, <3>3 DEF Harmless
  <2> QED
    BY <1>1, <1>3, <2>4, ChipUntouched DEF MainInv, Harmless
<1> QED
  BY <1>2, <1>3 DEF Reset

LEMMA NextMainInv == MainInv /\ [MainNext]_allVars => MainInv'
<1> SUFFICES ASSUME MainInv, [MainNext]_allVars PROVE MainInv'
  OBVIOUS
<1>1. CASE InitSpi
  <2>1. step' = "idle" /\ UNCHANGED <<call, original>>
    BY <1>1 DEF InitSpi, Start, init_spi, Goto, mainVars
  <2>2. CASE Deselected
    BY <2>1, <2>2, DeselectedKeeps DEF MainInv
  <2>3. CASE UNCHANGED chipVars
    BY <2>1, <2>3, ChipUntouched DEF MainInv, chipVars, Harmless
  <2> QED
    BY <1>1, <2>2, <2>3 DEF InitSpi, Start, init_spi
<1>2. CASE Main
  <2>1. /\ step' = "select" /\ call' \in {EnableCall, ProgramCall, ReadCall}
        /\ UNCHANGED <<mem, target, received, original>>
    BY <1>2 DEF Main, Calls, Goto, chipVars, EnableCall, ProgramCall, ReadCall
  <2>2. call' # Nothing
    BY <2>1 DEF EnableCall, ProgramCall, ReadCall, Nothing
  <2> QED
    BY <2>1, <2>2, ChipUntouched DEF MainInv, Harmless
<1>3. CASE MainContinues
  <2>1. UNCHANGED original
    BY <1>3 DEF MainContinues, Continue, mainVars
  <2>2. CASE Transfer
    BY <2>1, <2>2, TransferIInv
  <2>3. CASE Return
    BY <2>1, <2>3, ChipUntouched DEF Return, Goto, chipVars, MainInv, Harmless
  <2> QED
    BY <1>3, <2>2, <2>3 DEF MainContinues, Continue
<1>4. CASE MainChip
  <2>1. /\ mem' = target /\ ~Working' /\ Working
        /\ UNCHANGED <<received, step, call, original>>
    BY <1>4 DEF MainChip, Chip, ChipWorks, Complete, driverVars, mainVars, Working
  <2>2. Between(mem)'
    BY <2>1 DEF MainInv, Between, Wanted
  <2> QED
    BY <2>1, <2>2 DEF MainInv, Harmless
<1>5. CASE MainCut
  <2>1. /\ mem' \in (IF Working THEN OnTheWay(mem, target) ELSE {mem})
        /\ ~Working' /\ received' = NoCommand
        /\ step' = "init" /\ call' = Nothing /\ UNCHANGED original
    BY <1>5 DEF MainCut, Cut, PowerCut, ChipPowerCut, Working
  <2>2. Between(mem')
    <3>1. CASE Working
      BY <2>1, <3>1, OnTheWayBetween DEF MainInv
    <3>2. CASE ~Working
      BY <2>1, <3>2 DEF MainInv
    <3> QED
      BY <3>1, <3>2
  <2>3. Between(mem)'
    BY <2>1, <2>2 DEF Between, Wanted
  <2>4. Harmless(received')
    BY <2>1 DEF Harmless, NoCommand
  <2> QED
    BY <2>1, <2>3, <2>4 DEF MainInv, Harmless
<1>6. CASE Press
  BY <1>6, ResetIInv DEF Press
<1>7. CASE UNCHANGED allVars
  BY <1>7, ChipUntouched DEF allVars, vars, chipVars, driverVars, mainVars, MainInv, Harmless
<1> QED
  BY <1>1, <1>2, <1>3, <1>4, <1>5, <1>6, <1>7 DEF MainNext

(***************************************************************************)
(* Whatever power cuts and resets hit the example program, half-sent       *)
(* transfers included, it clears no bit it was not asked to clear.         *)
(***************************************************************************)
THEOREM NothingElseTouched == MainSafety => []OnlyAsked
<1>1. MainInv => OnlyAsked
  BY DEF MainInv, Between, OnlyAsked
<1> QED
  BY InitMainInv, NextMainInv, <1>1, PTL DEF MainSafety


-----------------------------------------------------------------------------
(***************************************************************************)
(* Reading back.  Without resets the calls of main follow one another      *)
(* undisturbed: writing is enabled when the program starts, and the wanted *)
(* contents are there, or in the making, from then on.                     *)
(***************************************************************************)
Done(m) == \A x \in Asked : m[x] = Wanted(x)

Waiting ==
  /\ step \in {"init", "idle"} /\ ~Working
  /\ step = "init" => cs = 1 /\ pc = "enable"
  /\ pc \in {"enable", "program", "read"}
  /\ pc = "program" => wel
  /\ pc = "read" => Done(mem)

Enabling ==
  /\ pc = "program" /\ ~Working
  /\ step \in {"select", "command", "deselect", "return"}
  /\ step = "deselect" => received.code = 6
  /\ step = "return" => wel

Programming ==
  /\ pc = "read"
  /\ step \in {"select", "command", "send", "deselect", "poll", "return"}
  /\ step \in {"select", "command", "send", "deselect"} => wel /\ ~Working
  /\ step = "deselect" =>
       received.code = 2 /\ received.address = Address /\ received.data = Data
  /\ step = "poll" => IF Working THEN Done(target) ELSE Done(mem)
  /\ step = "return" => ~Working /\ Done(mem)

Reading ==
  /\ pc = "read" /\ ~Working /\ Done(mem)
  /\ step \in {"select", "command", "receive", "deselect", "return"}
  /\ step \in {"receive", "deselect"} => received.code = 3 /\ received.address = Address
  /\ step = "deselect" => answer = [k \in 1 .. Len(Data) |-> Wanted(Address + k - 1)]

Undisturbed ==
  /\ ~down
  /\ call = Nothing => Waiting
  /\ call = EnableCall => Enabling
  /\ call = ProgramCall => Programming
  /\ call = ReadCall => Reading

ReadInv ==
  /\ MainInv
  /\ original \in Arrays /\ resets \in Nat
  /\ resets = 0 => Undisturbed


LEMMA CallsDiffer ==
  /\ Nothing # EnableCall /\ Nothing # ProgramCall /\ Nothing # ReadCall
  /\ EnableCall # ProgramCall /\ EnableCall # ReadCall /\ ProgramCall # ReadCall
<1>1. /\ Nothing.op = "none" /\ EnableCall.op = "write_enable"
      /\ ProgramCall.op = "page_program" /\ ReadCall.op = "read_data"
  BY DEF Nothing, EnableCall, ProgramCall, ReadCall
<1> QED
  BY <1>1

LEMMA WhatTheyAre ==
  /\ ~Programs(Nothing) /\ ~Programs(EnableCall) /\ Programs(ProgramCall) /\ ~Programs(ReadCall)
  /\ ~Erases(Nothing) /\ ~Erases(EnableCall) /\ ~Erases(ProgramCall) /\ ~Erases(ReadCall)
  /\ Opcode[EnableCall.op] = 6 /\ Opcode[ProgramCall.op] = 2 /\ Opcode[ReadCall.op] = 3
  /\ Sent(ProgramCall) = Address /\ Sent(ReadCall) = Address
  /\ ProgramCall.data = Data /\ ReadCall.len = Len(Data)
  /\ EnableCall.op # "read_data" /\ ProgramCall.op # "read_data" /\ ReadCall.op = "read_data"
BY AddressSent DEF Programs, Erases, Opcode, Sent, Nothing, EnableCall, ProgramCall, ReadCall

\* Programming all of the data makes the contents the wanted ones.
LEMMA ClearedDone ==
  ASSUME Between(mem), original \in Arrays
  PROVE  Done(Cleared(Address, Data))
<1> SUFFICES ASSUME NEW x \in Asked PROVE Cleared(Address, Data)[x] = Wanted(x)
  BY DEF Done
<1> DEFINE k == x - Address + 1
           hits == {j \in 1 .. Len(Data) : PageByte(Address, j) = x}
<1>1. k \in 1 .. Len(Data) /\ x \in Addresses /\ x = Address + k - 1
  BY MainAssumption, DataLength, ChipAssumption DEF Asked, Addresses
<1>2. hits = {k}
  <2>1. k \in hits
    BY <1>1, MainAssumption
  <2>2. \A j \in hits : j = k
    BY <1>1, MainAssumption, DataLength
  <2> QED
    BY <2>1, <2>2
<1>3. Cleared(Address, Data)[x] = mem[x] \ UNION {Bits \ Data[j] : j \in hits}
  BY <1>1 DEF Cleared
<1> HIDE DEF k, hits
<1>4. UNION {Bits \ Data[j] : j \in hits} = Bits \ Data[k]
  BY <1>2
<1>5. Wanted(x) \subseteq mem[x] /\ mem[x] \subseteq original[x] /\ original[x] \subseteq Bits
  BY <1>1 DEF Between, Arrays
<1>6. Wanted(x) = original[x] \cap Data[k]
  BY DEF Wanted, k
<1> QED
  BY <1>3, <1>4, <1>5, <1>6

\* The data end before the array does.
LEMMA DataInside ==
  ASSUME NEW k \in 1 .. Len(Data)
  PROVE  (Address + k - 1) % Size = Address + k - 1
<1>1. Address + k - 1 \in Nat /\ Address + k - 1 < Size /\ Size \in Nat \ {0}
  BY MainAssumption, DataLength, ChipAssumption DEF Addresses
<1> QED
  BY <1>1

\* What is read once the contents are the wanted ones.
LEMMA ReadOfDone ==
  ASSUME Done(mem)
  PROVE  [k \in 1 .. Len(Data) |-> mem[(Address + k - 1) % Size]]
           = [k \in 1 .. Len(Data) |-> Wanted(Address + k - 1)]
<1> SUFFICES ASSUME NEW k \in 1 .. Len(Data)
             PROVE  mem[(Address + k - 1) % Size] = Wanted(Address + k - 1)
  OBVIOUS
<1>1. Address + k - 1 \in Asked
  BY DataLength DEF Asked
<1> QED
  BY <1>1, DataInside DEF Done

LEMMA DoneKept ==
  ASSUME UNCHANGED <<mem, original>>
  PROVE  Done(mem)' <=> Done(mem)
BY DEF Done, Wanted

LEMMA DoneUnderWay ==
  ASSUME UNCHANGED <<target, original>>
  PROVE  Done(target)' <=> Done(target)
BY DEF Done, Wanted

\* A rising chip select, for each of the three calls.
LEMMA DeselectedEnables ==
  ASSUME Deselected, ~Working, ~down, received.code = 6
  PROVE  wel' = TRUE /\ ~Working' /\ ~down'
<1>1. ~Ignores(received.code, received.data)
  BY DEF Ignores
<1>2. Obey(6, Decoded(received.address), received.data)
  BY <1>1 DEF Deselected
<1> QED
  BY <1>2 DEF Obey, Working

LEMMA DeselectedPrograms ==
  ASSUME Deselected, ~Working, ~down, wel, MainInv, original \in Arrays, UNCHANGED original,
         received.code = 2, received.address = Address, received.data = Data
  PROVE  ~down' /\ IF Working' THEN Done(target)' ELSE Done(mem)'
<1>0. UNCHANGED mem
  BY DEF Deselected
<1>1. CASE Data = <<>>
  <2>1. Ignores(received.code, received.data)
    BY <1>1 DEF Ignores
  <2>2. UNCHANGED <<target, down>>
    BY <2>1 DEF Deselected
  <2>3. Done(mem)'
    BY <1>1, DataLength DEF Done, Asked
  <2> QED
    BY <2>2, <2>3 DEF Working
<1>2. CASE Data # <<>>
  <2>1. ~Ignores(received.code, received.data)
    BY <1>2 DEF Ignores
  <2>2. Obey(2, Address, Data)
    BY <2>1, AddressSent DEF Deselected
  <2>3. target' = Cleared(Address, Data) /\ UNCHANGED down
    BY <2>2 DEF Obey
  <2>4. Done(Cleared(Address, Data))
    BY ClearedDone DEF MainInv
  <2>5. Done(target)'
    BY <2>3, <2>4 DEF Done, Wanted
  <2>6. Working'
    <3>1. 0 \in Addresses
      BY ChipAssumption DEF Addresses
    <3> QED
      BY <2>3, <3>1 DEF Working, Idle, Cleared
  <2> QED
    BY <2>3, <2>5, <2>6
<1> QED
  BY <1>1, <1>2

LEMMA DeselectedReads ==
  ASSUME Deselected, ~Working, ~down, received.code = 3
  PROVE  ~Working' /\ ~down' /\ UNCHANGED mem
<1>1. Ignores(received.code, received.data)
  BY DEF Ignores
<1> QED
  BY <1>1 DEF Deselected, Working


\* The four cases that the running call distinguishes.
LEMMA UndisturbedBy ==
  /\ call' = Nothing /\ Waiting' /\ ~down' => Undisturbed'
  /\ call' = EnableCall /\ Enabling' /\ ~down' => Undisturbed'
  /\ call' = ProgramCall /\ Programming' /\ ~down' => Undisturbed'
  /\ call' = ReadCall /\ Reading' /\ ~down' => Undisturbed'
<1> EnableCall' = EnableCall /\ ProgramCall' = ProgramCall /\ ReadCall' = ReadCall
  BY DEF EnableCall, ProgramCall, ReadCall
<1> QED
  BY CallsDiffer DEF Undisturbed

LEMMA InitReadInv == MainInit => ReadInv
<1> SUFFICES ASSUME MainInit PROVE ReadInv
  OBVIOUS
<1>1. MainInv /\ original \in Arrays /\ resets = 0
  BY InitMainInv, ChipAssumption DEF MainInit, Init, ChipInit
<1>2. call = Nothing /\ Waiting /\ ~down
  BY DEF MainInit, Init, ChipInit, DriverInit, Waiting, Working
<1> QED
  BY <1>1, <1>2, CallsDiffer DEF ReadInv, Undisturbed

LEMMA TransferReads ==
  ASSUME MainInv, original \in Arrays, Undisturbed, Transfer, UNCHANGED <<pc, original>>
  PROVE  Undisturbed'
<1>0. call \in {Nothing, EnableCall, ProgramCall, ReadCall} /\ ~down
  BY DEF MainInv, Undisturbed
<1>1. CASE Select
  <2>1. /\ step = "select" /\ step' = "command"
        /\ UNCHANGED <<mem, target, wel, down, call, pc, original>>
    BY <1>1 DEF Select, Goto
  <2>2. call # Nothing
    BY <2>1 DEF MainInv
  <2>3. CASE call = EnableCall
    <3>1. Enabling'
      BY <2>1, <2>3 DEF Undisturbed, Enabling, Working
    <3> QED
      BY <1>0, <2>1, <2>3, <3>1, UndisturbedBy
  <2>4. CASE call = ProgramCall
    <3>1. Programming'
      BY <2>1, <2>4 DEF Undisturbed, Programming, Working
    <3> QED
      BY <1>0, <2>1, <2>4, <3>1, UndisturbedBy
  <2>5. CASE call = ReadCall
    <3>1. Reading'
      BY <2>1, <2>5, DoneKept DEF Undisturbed, Reading, Working
    <3> QED
      BY <1>0, <2>1, <2>5, <3>1, UndisturbedBy
  <2> QED
    BY <1>0, <2>2, <2>3, <2>4, <2>5
<1>2. CASE SendCommand
  <2>1. /\ step = "command"
        /\ step' = IF call.op = "read_data" THEN "receive"
                   ELSE IF Programs(call) THEN "send" ELSE "deselect"
        /\ received' = [code |-> Opcode[call.op], address |-> Sent(call), data |-> <<>>]
        /\ UNCHANGED <<mem, target, wel, down, call, pc, original>>
    BY <1>2 DEF SendCommand, Goto, NoCommand
  <2>2. call # Nothing
    BY <2>1 DEF MainInv
  <2>3. CASE call = EnableCall
    <3>1. step' = "deselect" /\ received'.code = 6
      BY <2>1, <2>3, WhatTheyAre
    <3>2. Enabling'
      BY <2>1, <2>3, <3>1 DEF Undisturbed, Enabling, Working
    <3> QED
      BY <1>0, <2>1, <2>3, <3>2, UndisturbedBy
  <2>4. CASE call = ProgramCall
    <3>1. step' = "send"
      BY <2>1, <2>4, WhatTheyAre
    <3>2. Programming'
      BY <2>1, <2>4, <3>1 DEF Undisturbed, Programming, Working
    <3> QED
      BY <1>0, <2>1, <2>4, <3>2, UndisturbedBy
  <2>5. CASE call = ReadCall
    <3>1. step' = "receive" /\ received'.code = 3 /\ received'.address = Address
      BY <2>1, <2>5, WhatTheyAre
    <3>2. Reading'
      BY <2>1, <2>5, <3>1, DoneKept DEF Undisturbed, Reading, Working
    <3> QED
      BY <1>0, <2>1, <2>5, <3>2, UndisturbedBy
  <2> QED
    BY <1>0, <2>2, <2>3, <2>4, <2>5
<1>3. CASE SendData
  <2>1. /\ step = "send" /\ step' = "deselect" /\ call = ProgramCall
        /\ received.code = 2 /\ received.address = Address
        /\ received' = [received EXCEPT !.data = Data]
        /\ UNCHANGED <<mem, target, wel, down, call, pc, original>>
    BY <1>3, WhatTheyAre DEF SendData, Goto, MainInv
  <2>2. "data" \in DOMAIN received
    BY <2>1 DEF MainInv, Harmless
  <2>3. received'.code = 2 /\ received'.address = Address /\ received'.data = Data
    BY <2>1, <2>2
  <2>4. Programming'
    BY <2>1, <2>3 DEF Undisturbed, Programming, Working
  <2> QED
    BY <1>0, <2>1, <2>4, UndisturbedBy
<1>4. CASE ReceiveData
  <2>1. /\ step = "receive" /\ step' = "deselect" /\ call = ReadCall
        /\ UNCHANGED <<mem, target, wel, down, received, call, pc, original>>
    BY <1>0, <1>4 DEF ReceiveData, Goto, chipVars, Undisturbed, Waiting, Enabling, Programming
  <2>2. /\ pc = "read" /\ ~Working /\ Done(mem)
        /\ received.code = 3 /\ received.address = Address
    BY <2>1 DEF Undisturbed, Reading
  <2>3. answer' = [k \in 1 .. Len(Data) |-> mem[(Address + k - 1) % Size]]
    BY <1>0, <1>4, <2>1, <2>2, WhatTheyAre, AddressSent DEF ReceiveData
  <2>4. answer' = [k \in 1 .. Len(Data) |-> Wanted(Address + k - 1)]
    BY <2>2, <2>3, ReadOfDone
  <2>5. (answer = [k \in 1 .. Len(Data) |-> Wanted(Address + k - 1)])'
    BY <2>1, <2>4 DEF Wanted
  <2>6. Reading'
    BY <2>1, <2>2, <2>5, DoneKept DEF Reading, Working
  <2> QED
    BY <1>0, <2>1, <2>6, UndisturbedBy
<1>5. CASE Deselect
  <2>1. /\ step = "deselect" /\ Deselected /\ UNCHANGED <<call, answer, pc, original>>
        /\ step' = IF Programs(call) \/ Erases(call) THEN "poll" ELSE "return"
    BY <1>5 DEF Deselect, Goto
  <2>2. call # Nothing
    BY <2>1 DEF Undisturbed, Waiting
  <2>3. CASE call = EnableCall
    <3>1. pc = "program" /\ ~Working /\ received.code = 6 /\ step' = "return"
      BY <2>1, <2>3, WhatTheyAre DEF Undisturbed, Enabling
    <3>2. wel' = TRUE /\ ~Working' /\ ~down'
      BY <1>0, <2>1, <3>1, DeselectedEnables
    <3>3. Enabling'
      BY <2>1, <3>1, <3>2 DEF Enabling
    <3> QED
      BY <2>1, <2>3, <3>2, <3>3, UndisturbedBy
  <2>4. CASE call = ProgramCall
    <3>1. /\ pc = "read" /\ ~Working /\ wel /\ received.code = 2 /\ step' = "poll"
          /\ received.address = Address /\ received.data = Data
      BY <2>1, <2>4, WhatTheyAre DEF Undisturbed, Programming
    <3>2. ~down' /\ IF Working' THEN Done(target)' ELSE Done(mem)'
      BY <1>0, <2>1, <3>1, DeselectedPrograms
    <3>3. Programming'
      BY <2>1, <3>1, <3>2 DEF Programming
    <3> QED
      BY <2>1, <2>4, <3>2, <3>3, UndisturbedBy
  <2>5. CASE call = ReadCall
    <3>1. pc = "read" /\ ~Working /\ Done(mem) /\ received.code = 3 /\ step' = "return"
      BY <2>1, <2>5, WhatTheyAre DEF Undisturbed, Reading
    <3>2. ~Working' /\ ~down' /\ UNCHANGED mem
      BY <1>0, <2>1, <3>1, DeselectedReads
    <3>3. Done(mem)'
      BY <2>1, <3>1, <3>2, DoneKept
    <3>4. Reading'
      BY <2>1, <3>1, <3>2, <3>3 DEF Reading
    <3> QED
      BY <2>1, <2>5, <3>2, <3>4, UndisturbedBy
  <2> QED
    BY <1>0, <2>2, <2>3, <2>4, <2>5
<1>6. CASE Poll
  <2>1. /\ step = "poll" /\ step' = IF Working THEN "poll" ELSE "return"
        /\ UNCHANGED <<mem, target, wel, down, call, pc, original>>
    BY <1>0, <1>6 DEF Poll, chipVars
  <2>2. call = ProgramCall
    BY <1>0, <2>1 DEF Undisturbed, Waiting, Enabling, Reading
  <2>3. pc = "read" /\ IF Working THEN Done(target) ELSE Done(mem)
    BY <2>1, <2>2 DEF Undisturbed, Programming
  <2>4. IF Working' THEN Done(target)' ELSE Done(mem)'
    BY <2>1, <2>3, DoneKept, DoneUnderWay DEF Working
  <2>5. Programming'
    BY <2>1, <2>3, <2>4 DEF Programming, Working
  <2> QED
    BY <1>0, <2>1, <2>2, <2>5, UndisturbedBy
<1> QED
  BY <1>1, <1>2, <1>3, <1>4, <1>5, <1>6 DEF Transfer

LEMMA NextReadInv == ReadInv /\ [MainNext]_allVars => ReadInv'
<1> SUFFICES ASSUME ReadInv, [MainNext]_allVars PROVE ReadInv'
  OBVIOUS
<1>0. MainInv /\ MainInv' /\ original \in Arrays /\ resets \in Nat
  BY NextMainInv DEF ReadInv
<1>1. CASE InitSpi
  <2>1. /\ step = "init" /\ step' = "idle" /\ UNCHANGED <<call, pc, resets, original>>
        /\ cs # 0 => UNCHANGED chipVars
    BY <1>1 DEF InitSpi, Start, init_spi, Goto, mainVars
  <2> SUFFICES ASSUME resets = 0 PROVE Undisturbed'
    BY <1>0, <2>1 DEF ReadInv
  <2>2. call = Nothing /\ ~down /\ Waiting
    BY <1>0, <2>1 DEF ReadInv, MainInv, Undisturbed, Enabling, Programming, Reading
  <2>3. UNCHANGED <<mem, target, wel, down>>
    BY <2>1, <2>2 DEF Waiting, chipVars
  <2>4. Waiting'
    BY <2>1, <2>2, <2>3, DoneKept DEF Waiting, Working
  <2> QED
    BY <2>1, <2>2, <2>3, <2>4, UndisturbedBy
<1>2. CASE Main
  <2>1. /\ step = "idle" /\ step' = "select"
        /\ UNCHANGED <<mem, target, wel, down, resets, original>>
        /\ \/ pc = "enable" /\ pc' = "program" /\ call' = EnableCall
           \/ pc = "program" /\ pc' = "read" /\ call' = ProgramCall
           \/ pc = "read" /\ pc' = "read" /\ call' = ReadCall
    BY <1>2 DEF Main, Calls, Goto, chipVars, EnableCall, ProgramCall, ReadCall
  <2> SUFFICES ASSUME resets = 0 PROVE Undisturbed'
    BY <1>0, <2>1 DEF ReadInv
  <2>2. call = Nothing /\ ~down /\ Waiting
    BY <1>0, <2>1 DEF ReadInv, MainInv, Undisturbed, Enabling, Programming, Reading
  <2>3. CASE pc = "enable" /\ pc' = "program" /\ call' = EnableCall
    <3>1. Enabling'
      BY <2>1, <2>2, <2>3 DEF Waiting, Enabling, Working
    <3> QED
      BY <2>1, <2>2, <2>3, <3>1, UndisturbedBy
  <2>4. CASE pc = "program" /\ pc' = "read" /\ call' = ProgramCall
    <3>1. Programming'
      BY <2>1, <2>2, <2>4 DEF Waiting, Programming, Working
    <3> QED
      BY <2>1, <2>2, <2>4, <3>1, UndisturbedBy
  <2>5. CASE pc = "read" /\ pc' = "read" /\ call' = ReadCall
    <3>1. Reading'
      BY <2>1, <2>2, <2>5, DoneKept DEF Waiting, Reading, Working
    <3> QED
      BY <2>1, <2>2, <2>5, <3>1, UndisturbedBy
  <2> QED
    BY <2>1, <2>3, <2>4, <2>5
<1>3. CASE MainContinues
  <2>1. UNCHANGED <<pc, resets, original>>
    BY <1>3 DEF MainContinues, Continue, mainVars
  <2> SUFFICES ASSUME resets = 0 PROVE Undisturbed'
    BY <1>0, <2>1 DEF ReadInv
  <2>2. Undisturbed
    BY DEF ReadInv
  <2>3. CASE Transfer
    BY <1>0, <2>1, <2>2, <2>3, TransferReads
  <2>4. CASE Return
    <3>1. /\ step = "return" /\ step' = "idle" /\ call' = Nothing
          /\ UNCHANGED <<mem, target, wel, down>>
      BY <2>4 DEF Return, Goto, chipVars
    <3>2. ~Working /\ pc \in {"program", "read"} /\ (pc = "program" => wel) /\ (pc = "read" => Done(mem))
      BY <1>0, <2>2, <3>1 DEF MainInv, Undisturbed, Waiting, Enabling, Programming, Reading
    <3>3. Waiting'
      BY <2>1, <3>1, <3>2, DoneKept DEF Waiting, Working
    <3> QED
      BY <2>2, <3>1, <3>3, UndisturbedBy DEF Undisturbed
  <2> QED
    BY <1>3, <2>3, <2>4 DEF MainContinues, Continue
<1>4. CASE MainChip
  <2>1. /\ Working /\ mem' = target /\ ~Working'
        /\ UNCHANGED <<down, step, call, pc, resets, original>>
    BY <1>4 DEF MainChip, Chip, ChipWorks, Complete, Working, driverVars, mainVars
  <2> SUFFICES ASSUME resets = 0 PROVE Undisturbed'
    BY <1>0, <2>1 DEF ReadInv
  <2>2. call = ProgramCall /\ Programming /\ ~down
    BY <1>0, <2>1 DEF ReadInv, MainInv, Undisturbed, Waiting, Enabling, Reading
  <2>3. step = "poll" /\ pc = "read" /\ Done(target)
    BY <2>1, <2>2 DEF Programming
  <2>4. Done(mem)'
    BY <2>1, <2>3 DEF Done, Wanted
  <2>5. Programming'
    BY <2>1, <2>3, <2>4 DEF Programming
  <2> QED
    BY <2>1, <2>2, <2>5, UndisturbedBy
<1>5. CASE MainCut
  <2>1. /\ step' = "init" /\ call' = Nothing /\ pc' = "enable" /\ cs' = 1
        /\ ~Working' /\ ~down' /\ UNCHANGED <<resets, original>>
    BY <1>5 DEF MainCut, Cut, PowerCut, ChipPowerCut, Working
  <2>2. Waiting'
    BY <2>1 DEF Waiting
  <2>3. Undisturbed'
    BY <2>1, <2>2, UndisturbedBy
  <2> QED
    BY <1>0, <2>1, <2>3 DEF ReadInv
<1>6. CASE Press
  <2>1. resets' = resets + 1 /\ UNCHANGED original
    BY <1>6 DEF Press
  <2>2. resets' \in Nat /\ resets' # 0
    BY <1>0, <2>1
  <2> QED
    BY <1>0, <2>1, <2>2 DEF ReadInv
<1>7. CASE UNCHANGED allVars
  <2>1. UNCHANGED <<mem, wel, target, down, cs, received, step, call, answer, pc, resets, original>>
    BY <1>7 DEF allVars, vars, chipVars, driverVars, mainVars
  <2>2. Done(mem)' = Done(mem) /\ Done(target)' = Done(target) /\ Working' = Working
    BY <2>1 DEF Done, Wanted, Working
  <2>3. /\ Waiting' = Waiting /\ Enabling' = Enabling
        /\ Programming' = Programming /\ Reading' = Reading
    BY <2>1, <2>2 DEF Waiting, Enabling, Programming, Reading, Wanted
  <2>4. Undisturbed' = Undisturbed
    BY <2>1, <2>3 DEF Undisturbed, EnableCall, ProgramCall, ReadCall
  <2> QED
    BY <1>0, <2>1, <2>4 DEF ReadInv
<1> QED
  BY <1>1, <1>2, <1>3, <1>4, <1>5, <1>6, <1>7 DEF MainNext

\* A read in progress, of a chip that is not at work.
Fetching ==
  /\ ~Working
  /\ step \in {"select", "command", "receive", "deselect", "return"}
  /\ step \in {"receive", "deselect"} => received.code = 3 /\ received.address = Address
  /\ step = "deselect" => answer = [k \in 1 .. Len(Data) |-> mem[Address + k - 1]]

(***************************************************************************)
(* After resets too the chip is at rest when main comes to its reads:      *)
(* whatever a reset has started, page_program waits for.                   *)
(***************************************************************************)
CellsInv ==
  /\ MainInv /\ ~down
  /\ step = "init" => pc = "enable"
  /\ step \in {"init", "idle"} => call = Nothing
  /\ call = Nothing => step \in {"init", "idle"} /\ (pc = "read" => ~Working)
  /\ call = EnableCall => pc = "program"
  /\ call = ProgramCall => (step = "return" => ~Working)
  /\ call = ReadCall => Fetching

\* The parts that are about the running call.
CallCells ==
  /\ call = Nothing => step \in {"init", "idle"} /\ (pc = "read" => ~Working)
  /\ call = EnableCall => pc = "program"
  /\ call = ProgramCall => (step = "return" => ~Working)
  /\ call = ReadCall => Fetching

LEMMA CellsBy ==
  /\ call' = Nothing /\ step' \in {"init", "idle"} /\ (pc' = "read" => ~Working') => CallCells'
  /\ call' = EnableCall /\ pc' = "program" => CallCells'
  /\ call' = ProgramCall /\ (step' = "return" => ~Working') => CallCells'
  /\ call' = ReadCall /\ Fetching' => CallCells'
<1> EnableCall' = EnableCall /\ ProgramCall' = ProgramCall /\ ReadCall' = ReadCall
  BY DEF EnableCall, ProgramCall, ReadCall
<1> QED
  BY CallsDiffer DEF CallCells

\* Nothing main sends puts the chip to sleep.
LEMMA StaysAwake ==
  ASSUME MainInv, Deselected, ~down
  PROVE  ~down'
<1>1. received.code \in {0, 2, 3, 6}
  BY DEF MainInv, Harmless
<1> QED
  BY <1>1 DEF Deselected, Obey

LEMMA TransferCells ==
  ASSUME CellsInv, Transfer, UNCHANGED pc
  PROVE  CallCells' /\ ~down' /\ step' \notin {"init", "idle"}
<1>0. MainInv /\ ~down /\ call \in {Nothing, EnableCall, ProgramCall, ReadCall}
  BY DEF CellsInv, MainInv
<1>1. step' \notin {"init", "idle"} /\ call' = call /\ step \notin {"init", "idle"}
  BY DEF Transfer, Select, SendCommand, SendData, ReceiveData, Deselect, Poll, Goto
<1>2. call # Nothing
  BY <1>1 DEF CellsInv
<1>3. ~down'
  BY <1>0, StaysAwake DEF Transfer, Select, SendCommand, SendData, ReceiveData, Deselect, Poll, chipVars
<1>4. CASE call = EnableCall
  BY <1>1, <1>3, <1>4, CellsBy DEF CellsInv
<1>5. CASE call = ProgramCall
  <2>1. step' = "return" => Poll
    BY <1>5, WhatTheyAre DEF Transfer, Select, SendCommand, SendData, ReceiveData, Deselect, Goto
  <2>2. Poll /\ step' = "return" => ~Working'
    BY <1>0 DEF Poll, chipVars, Working
  <2> QED
    BY <1>1, <1>3, <1>5, <2>1, <2>2, CellsBy
<1>6. CASE call = ReadCall
  <2>0. Fetching
    BY <1>6 DEF CellsInv
  <2>1. CASE Select
    <3>1. Fetching'
      BY <2>0, <2>1 DEF Select, Goto, Fetching, Working
    <3> QED
      BY <1>1, <1>3, <1>6, <3>1, CellsBy
  <2>2. CASE SendCommand
    <3>1. step' = "receive" /\ UNCHANGED <<target, mem>>
      BY <1>6, <2>2, WhatTheyAre DEF SendCommand, Goto
    <3>2. received'.code = 3 /\ received'.address = Address
      BY <1>6, <2>2, WhatTheyAre DEF SendCommand, NoCommand
    <3>3. Fetching'
      BY <2>0, <3>1, <3>2 DEF Fetching, Working
    <3> QED
      BY <1>1, <1>3, <1>6, <3>3, CellsBy
  <2>3. CASE SendData
    BY <2>0, <2>3 DEF SendData, Goto, Fetching
  <2>4. CASE ReceiveData
    <3>1. /\ step = "receive" /\ step' = "deselect" /\ UNCHANGED <<target, mem, received>>
          /\ ~Working /\ received.code = 3 /\ received.address = Address
      BY <2>0, <2>4 DEF ReceiveData, Goto, chipVars, Fetching
    <3>2. answer' = [k \in 1 .. Len(Data) |-> mem[(Address + k - 1) % Size]]
      BY <1>0, <1>6, <2>4, <3>1, WhatTheyAre, AddressSent DEF ReceiveData
    <3>3. \A k \in 1 .. Len(Data) : (Address + k - 1) % Size = Address + k - 1
      BY DataInside
    <3>4. answer' = [k \in 1 .. Len(Data) |-> mem[Address + k - 1]]
      BY <3>2, <3>3
    <3>5. Fetching'
      BY <3>1, <3>4 DEF Fetching, Working
    <3> QED
      BY <1>1, <1>3, <1>6, <3>5, CellsBy
  <2>5. CASE Deselect
    <3>1. step' = "return" /\ Deselected /\ ~Working /\ received.code = 3
      BY <1>6, <2>0, <2>5, WhatTheyAre DEF Deselect, Goto, Fetching
    <3>2. ~Working'
      BY <1>0, <3>1, DeselectedReads
    <3>3. Fetching'
      BY <3>1, <3>2 DEF Fetching
    <3> QED
      BY <1>1, <1>3, <1>6, <3>3, CellsBy
  <2>6. CASE Poll
    BY <2>0, <2>6 DEF Poll, Fetching
  <2> QED
    BY <2>1, <2>2, <2>3, <2>4, <2>5, <2>6 DEF Transfer
<1> QED
  BY <1>0, <1>1, <1>2, <1>3, <1>4, <1>5, <1>6

LEMMA InitCellsInv == MainInit => CellsInv
<1> SUFFICES ASSUME MainInit PROVE CellsInv
  OBVIOUS
<1>1. /\ MainInv /\ ~down /\ ~Working /\ step = "init" /\ pc = "enable" /\ call = Nothing
  BY InitMainInv DEF MainInit, Init, ChipInit, DriverInit, Working
<1> QED
  BY <1>1, CallsDiffer DEF CellsInv

LEMMA NextCellsInv == CellsInv /\ [MainNext]_allVars => CellsInv'
<1> SUFFICES ASSUME CellsInv, [MainNext]_allVars PROVE CellsInv'
  OBVIOUS
<1>0. MainInv /\ MainInv' /\ ~down /\ call \in {Nothing, EnableCall, ProgramCall, ReadCall}
  BY NextMainInv DEF CellsInv, MainInv
<1> SUFFICES /\ CallCells' /\ ~down' /\ (step' = "init" => pc' = "enable")
             /\ step' \in {"init", "idle"} => call' = Nothing
  BY <1>0 DEF CellsInv, CallCells
<1>1. CASE InitSpi
  <2>1. step = "init" /\ step' = "idle" /\ UNCHANGED <<call, pc>> /\ (Deselected \/ UNCHANGED chipVars)
    BY <1>1 DEF InitSpi, Start, init_spi, Goto, mainVars
  <2>2. pc = "enable" /\ call = Nothing
    BY <1>0, <2>1 DEF CellsInv
  <2>3. ~down'
    BY <1>0, <2>1, StaysAwake DEF chipVars
  <2> QED
    BY <2>1, <2>2, <2>3, CellsBy
<1>2. CASE Main
  <2>1. /\ step = "idle" /\ step' = "select" /\ UNCHANGED <<mem, target, down>>
        /\ \/ pc = "enable" /\ pc' = "program" /\ call' = EnableCall
           \/ pc = "program" /\ pc' = "read" /\ call' = ProgramCall
           \/ pc = "read" /\ pc' = "read" /\ call' = ReadCall
    BY <1>2 DEF Main, Calls, Goto, chipVars, EnableCall, ProgramCall, ReadCall
  <2>2. call = Nothing
    BY <2>1 DEF CellsInv
  <2>3. pc = "read" => ~Working
    BY <2>2 DEF CellsInv
  <2>4. CASE pc = "read" /\ pc' = "read" /\ call' = ReadCall
    <3>1. Fetching'
      BY <2>1, <2>3, <2>4 DEF Fetching, Working
    <3> QED
      BY <1>0, <2>1, <2>4, <3>1, CellsBy
  <2> QED
    BY <1>0, <2>1, <2>4, CellsBy
<1>3. CASE MainContinues
  <2>1. UNCHANGED pc
    BY <1>3 DEF MainContinues, Continue, mainVars
  <2>2. CASE Transfer
    BY <2>1, <2>2, TransferCells
  <2>3. CASE Return
    <3>1. step = "return" /\ step' = "idle" /\ call' = Nothing /\ UNCHANGED <<target, down>>
      BY <2>3 DEF Return, Goto, chipVars
    <3>2. pc = "read" => ~Working
      BY <1>0, <3>1 DEF CellsInv, Fetching
    <3> QED
      BY <1>0, <2>1, <3>1, <3>2, CellsBy DEF Working
  <2> QED
    BY <1>3, <2>2, <2>3 DEF MainContinues, Continue
<1>4. CASE MainChip
  <2>1. Working /\ ~Working' /\ UNCHANGED <<down, step, call, pc>>
    BY <1>4 DEF MainChip, Chip, ChipWorks, Complete, Working, driverVars, mainVars
  <2>2. call # ReadCall
    BY <2>1 DEF CellsInv, Fetching
  <2> QED
    BY <1>0, <2>1, <2>2, CellsBy DEF CellsInv
<1>5. CASE MainCut
  <2>1. step' = "init" /\ call' = Nothing /\ pc' = "enable" /\ ~down'
    BY <1>5 DEF MainCut, Cut, PowerCut, ChipPowerCut
  <2> QED
    BY <2>1, CellsBy
<1>6. CASE Press
  <2>1. step' = "init" /\ call' = Nothing /\ pc' = "enable" /\ UNCHANGED down
    BY <1>6 DEF Press, Reset, chipVars
  <2> QED
    BY <1>0, <2>1, CellsBy
<1>7. CASE UNCHANGED allVars
  <2>1. UNCHANGED <<mem, target, down, received, step, call, answer, pc>>
    BY <1>7 DEF allVars, vars, chipVars, driverVars, mainVars
  <2>2. Fetching' = Fetching /\ Working' = Working
    BY <2>1 DEF Fetching, Working
  <2> QED
    BY <1>0, <2>1, <2>2, CellsBy DEF CellsInv
<1> QED
  BY <1>1, <1>2, <1>3, <1>4, <1>5, <1>6, <1>7 DEF MainNext

(***************************************************************************)
(* Every read of the example returns what the cells hold, whatever power   *)
(* cuts and resets came before; if there was no reset, the original        *)
(* contents cleared as the data want it, hence the data on an erased chip; *)
(* for every contents, address and data.                                   *)
(***************************************************************************)
THEOREM ReadsCorrect == MainSafety => []ReadsBack
<1>1. ASSUME ReadInv, CellsInv PROVE ReadsBack
  <2> SUFFICES ASSUME step = "deselect", call.op = "read_data"
               PROVE  /\ answer = [k \in 1 .. Len(Data) |-> mem[Address + k - 1]]
                      /\ resets = 0 => answer = [k \in 1 .. Len(Data) |-> Wanted(Address + k - 1)]
                      /\ resets = 0 /\ Erased => answer = Data
    BY DEF ReadsBack
  <2>1. Nothing.op # "read_data"
    BY DEF Nothing
  <2>2. call = ReadCall
    BY <1>1, <2>1, WhatTheyAre DEF ReadInv, MainInv
  <2>3. answer = [k \in 1 .. Len(Data) |-> mem[Address + k - 1]]
    BY <1>1, <2>2 DEF CellsInv, Fetching
  <2>4. resets = 0 => answer = [k \in 1 .. Len(Data) |-> Wanted(Address + k - 1)]
    BY <1>1, <2>2 DEF ReadInv, Undisturbed, Reading
  <2>5. ASSUME Erased
        PROVE  [k \in 1 .. Len(Data) |-> Wanted(Address + k - 1)] = Data
    <3>1. \A k \in 1 .. Len(Data) : Wanted(Address + k - 1) = Data[k]
      <4> TAKE k \in 1 .. Len(Data)
      <4>1. Address + k - 1 \in Asked /\ (Address + k - 1) - Address + 1 = k
        BY DataLength DEF Asked
      <4>2. Data[k] \subseteq Bits
        BY MainAssumption
      <4>3. original[Address + k - 1] = Bits
        BY <2>5, <4>1 DEF Erased
      <4> QED
        BY <4>1, <4>2, <4>3 DEF Wanted
    <3>2. Data = [k \in 1 .. Len(Data) |-> Data[k]]
      BY MainAssumption
    <3> QED
      BY <3>1, <3>2
  <2> QED
    BY <2>3, <2>4, <2>5
<1>2. ReadInv /\ CellsInv => ReadsBack
  BY <1>1
<1> QED
  BY InitReadInv, NextReadInv, InitCellsInv, NextCellsInv, <1>2, PTL DEF MainSafety

(***************************************************************************)
(* Until it is reset the example is one of the callers FlashCalls speaks   *)
(* of, so each of its three calls does to the array what FlashArray says.  *)
(***************************************************************************)
THEOREM MainIsACaller == MainSafety /\ [](resets = 0) => ImplementsArray
<1>1. MainInit => Init
  BY DEF MainInit
<1>2. ReadInv /\ [MainNext]_allVars /\ (resets = 0)' => [Next]_vars
  <2> SUFFICES ASSUME ReadInv, [MainNext]_allVars, (resets = 0)' PROVE [Next]_vars
    OBVIOUS
  <2>1. CASE Main
    <3>1. PICK c \in MainCalls : Calls(c)
      BY <2>1 DEF Main, MainCalls
    <3>2. NewCall
      BY <2>1, <3>1, CallerAssumption DEF Main, NewCall
    <3> QED
      BY <3>2 DEF Next
  <2>2. ~Press
    BY DEF Press, ReadInv
  <2> QED
    BY <2>1, <2>2 DEF MainNext, InitSpi, MainContinues, MainChip, MainCut, Next, allVars
<1>3. MainSafety => []ReadInv
  BY InitReadInv, NextReadInv, PTL DEF MainSafety
<1>4. MainSafety /\ [](resets = 0) => Safety
  BY <1>1, <1>2, <1>3, PTL DEF MainSafety, Safety
<1> QED
  BY <1>4, Refinement, PTL



-----------------------------------------------------------------------------
(***************************************************************************)
(* What is programmed stays.                                               *)
(***************************************************************************)
\* What the chip is turning its array into has no bit that the array has not.
Descending == Working => \A x \in Addresses : target[x] \subseteq mem[x]

NothingSet(m) == \A x \in Addresses : m[x] \subseteq mem[x]

LEMMA NothingSetBySelf ==
  ASSUME mem' = mem
  PROVE  NothingSet(mem')
BY DEF NothingSet

\* A rising chip select starts the program, which clears, or nothing.
LEMMA DeselectedDescends ==
  ASSUME MainInv, Descending, Deselected
  PROVE  Descending' /\ mem' = mem
<1>1. mem' = mem
  BY DEF Deselected
<1>2. ASSUME Working' PROVE \A x \in Addresses : target'[x] \subseteq mem[x]
  <2>1. CASE target' = target
    BY <1>2, <2>1 DEF Descending, Working
  <2>2. CASE \E d : Prefix(d) /\ target' = Cleared(Address, d)
    BY <2>2 DEF Cleared
  <2> QED
    BY <1>2, <2>1, <2>2, DeselectedBetween
<1> QED
  BY <1>1, <1>2 DEF Descending

LEMMA OnTheWayDescends ==
  ASSUME \A x \in Addresses : target[x] \subseteq mem[x], NEW m \in OnTheWay(mem, target)
  PROVE  NothingSet(m)
<1> DEFINE changing == {x \in Addresses : mem[x] # target[x]}
<1>1. PICK part \in [changing -> SUBSET Bits] :
        /\ m = [x \in Addresses |-> IF x \in changing THEN part[x] ELSE mem[x]]
        /\ \A x \in changing : part[x] \subseteq (mem[x] \cup target[x])
  BY DEF OnTheWay
<1>2. ASSUME NEW x \in Addresses PROVE m[x] \subseteq mem[x]
  <2>1. CASE x \in changing
    BY <1>1, <2>1
  <2>2. CASE x \notin changing
    BY <1>1, <2>2
  <2> QED
    BY <2>1, <2>2
<1> QED
  BY <1>2 DEF NothingSet

LEMMA InitDescending == MainInit => Descending
BY DEF MainInit, Init, ChipInit, Descending, Working

LEMMA NextDescending ==
  ASSUME MainInv, Descending, [MainNext]_allVars
  PROVE  Descending' /\ NothingSet(mem')
<1>1. ASSUME UNCHANGED <<mem, target>>
      PROVE  Descending' /\ NothingSet(mem')
  BY <1>1, NothingSetBySelf DEF Descending, Working
<1>2. ASSUME Deselected
      PROVE  Descending' /\ NothingSet(mem')
  BY <1>2, DeselectedDescends, NothingSetBySelf
<1>3. CASE InitSpi
  BY <1>1, <1>2, <1>3 DEF InitSpi, Start, init_spi, chipVars
<1>4. CASE Main
  BY <1>1, <1>4 DEF Main, Calls, chipVars
<1>5. CASE MainContinues
  <2>1. CASE Deselect
    BY <1>2, <2>1 DEF Deselect
  <2>2. CASE Select \/ SendCommand \/ SendData \/ ReceiveData \/ Poll \/ Return
    <3>1. UNCHANGED <<mem, target>>
      BY <2>2 DEF Select, SendCommand, SendData, ReceiveData, Poll, Return, chipVars
    <3> QED
      BY <1>1, <3>1
  <2> QED
    BY <1>5, <2>1, <2>2 DEF MainContinues, Continue, Transfer
<1>6. CASE MainChip
  <2>1. Working /\ mem' = target /\ ~Working'
    BY <1>6 DEF MainChip, Chip, ChipWorks, Complete, Working
  <2> QED
    BY <2>1 DEF Descending, NothingSet
<1>7. CASE MainCut
  <2>1. mem' \in (IF Working THEN OnTheWay(mem, target) ELSE {mem}) /\ ~Working'
    BY <1>7 DEF MainCut, Cut, PowerCut, ChipPowerCut, Working
  <2>2. CASE Working
    <3>1. NothingSet(mem')
      BY <2>1, <2>2, OnTheWayDescends DEF Descending
    <3> QED
      BY <2>1, <3>1 DEF Descending
  <2>3. CASE ~Working
    BY <2>1, <2>3, NothingSetBySelf DEF Descending
  <2> QED
    BY <2>2, <2>3
<1>8. CASE Press
  <2>1. UNCHANGED <<mem, target>>
    BY <1>8 DEF Press, Reset, chipVars
  <2> QED
    BY <1>1, <2>1
<1>9. CASE UNCHANGED allVars
  BY <1>1, <1>9 DEF allVars, vars, chipVars
<1> QED
  BY <1>3, <1>4, <1>5, <1>6, <1>7, <1>8, <1>9 DEF MainNext

(***************************************************************************)
(* The example never sets a bit back (main.c lines 15-21), neither by a    *)
(* step of its own nor by a power cut or a reset.                          *)
(***************************************************************************)
THEOREM OnlyClears == MainSafety => [][\A x \in Addresses : mem'[x] \subseteq mem[x]]_allVars
<1>1. ASSUME MainInv, Descending, [MainNext]_allVars
      PROVE  \A x \in Addresses : mem'[x] \subseteq mem[x]
  BY <1>1, NextDescending DEF NothingSet
<1>2. MainInv /\ Descending /\ [MainNext]_allVars => Descending'
  BY NextDescending
<1> QED
  BY <1>1, <1>2, InitMainInv, NextMainInv, InitDescending, PTL DEF MainSafety

\* Once the bits are cleared, no cut and no reset sets them again.
LEMMA StaysProgrammed ==
  ASSUME MainInv, MainInv', Descending, [MainNext]_allVars, Programmed
  PROVE  Programmed'
<1>1. ASSUME NEW x \in Asked PROVE mem'[x] = Wanted(x)'
  <2>1. x \in Addresses
    BY MainAssumption, DataLength, ChipAssumption DEF Asked, Addresses
  <2>2. mem'[x] \subseteq mem[x] /\ mem[x] = Wanted(x)
    BY <2>1, NextDescending DEF NothingSet, Programmed
  <2>3. Wanted(x)' \subseteq mem'[x]
    BY <2>1 DEF MainInv, Between, Asked
  <2>4. original' = original
    BY DEF MainNext, InitSpi, Main, MainContinues, MainChip, MainCut, Press, mainVars, allVars
  <2>5. Wanted(x)' = Wanted(x)
    BY <2>4 DEF Wanted
  <2> QED
    BY <2>2, <2>3, <2>5
<1> QED
  BY <1>1 DEF Programmed, Asked

(***************************************************************************)
(* SurvivesPowerCuts asks for no more than that main comes to its first    *)
(* read: the bits the data want cleared are cleared by then, and stay so.  *)
(* That it comes there is left to the scheduler and to the chip.           *)
(***************************************************************************)
THEOREM SurvivesOnceRead ==
  MainSafety /\ ([](resets = 0) => <>(pc = "read" /\ step = "idle")) => SurvivesPowerCuts
<1>1. ASSUME ReadInv, resets = 0, pc = "read", step = "idle" PROVE Programmed
  <2>1. call = Nothing
    BY <1>1 DEF ReadInv, MainInv, Undisturbed, Enabling, Programming, Reading
  <2>2. Waiting
    BY <1>1, <2>1 DEF ReadInv, Undisturbed
  <2> QED
    BY <1>1, <2>2 DEF Waiting, Done, Programmed
<1>2. ReadInv /\ resets = 0 /\ pc = "read" /\ step = "idle" => Programmed
  BY <1>1
<1>3. MainInv /\ Descending /\ [MainNext]_allVars => Descending'
  BY NextDescending
<1>4. MainInv /\ MainInv' /\ Descending /\ [MainNext]_allVars /\ Programmed => Programmed'
  BY StaysProgrammed
<1>5. MainSafety => []ReadInv /\ []MainInv /\ []Descending
  BY <1>3, InitReadInv, NextReadInv, InitMainInv, NextMainInv, InitDescending, PTL DEF MainSafety
<1>6. MainSafety => [][MainNext]_allVars
  BY DEF MainSafety
<1> QED
  BY <1>2, <1>4, <1>5, <1>6, PTL DEF SurvivesPowerCuts
=============================================================================
