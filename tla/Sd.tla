--------------------------------- MODULE Sd ---------------------------------
(***************************************************************************)
(* The SD card driver (memory/sd.c): finding out what kind of card there   *)
(* is, and reading and writing single blocks.  Everything runs in the RIT  *)
(* interrupt handler or before it is started, so the only other actor is   *)
(* the card, which may refuse a command or stop answering between any two. *)
(* One step is one command with its response, or one data block.           *)
(***************************************************************************)
EXTENDS Integers

CONSTANTS Kinds,       \* kinds of card, of "none", "v1", "v2" and "hc"
          Sizes,       \* sectors they may have
          Octets,      \* 512, octets in a block
          LastAddr,    \* 0x007FFFFF, the last block with a 32-bit byte address
          Attempts,    \* 5 attempts to reset the card
          Timeout,     \* SD_COMMAND_TIMEOUT
          Values,      \* what a block may hold
          Empty

ASSUME SdAssumption ==
  /\ Kinds \subseteq {"none", "v1", "v2", "hc"} /\ Sizes \subseteq Nat \ {0}
  /\ {Octets, LastAddr, Attempts, Timeout} \subseteq Nat \ {0} /\ Empty \notin Values
  /\ \A n \in Sizes : n <= LastAddr + 1

VARIABLES kind, size,  \* the card: what it is,
          card,        \* "idle", "ready" or "silent",
          sector,      \* and what its sectors hold
          pc, tries,   \* where the driver is
          spi,         \* frequency
          selected,    \* chip select
          sectors,     \* _sectors
          block, data, \* the arguments of the call
          result,      \* its result
          content      \* ghost: what the blocks were last given and the card took

varsSd == <<kind, size, card, sector, pc, tries, spi, selected, sectors, block, data, result, content>>
cardVars == <<kind, size, card, sector>>
callVars == <<block, data, content>>

AllBlocks == 0..LastAddr

InitSd ==
  /\ kind \in Kinds /\ size \in Sizes /\ card = (IF kind = "none" THEN "silent" ELSE "idle")
  /\ sector = [n \in 0..(size - 1) |-> Empty]
  /\ pc = "reset" /\ tries = 0 /\ spi = "slow" /\ selected = FALSE /\ sectors = 0
  /\ block = 0 /\ data = Empty /\ result = 0 /\ content = [b \in AllBlocks |-> Empty]

-----------------------------------------------------------------------------
(* The card (external). *)

\* The sector a byte address names; a card of high capacity counts in blocks.
SectorAt(addr) == IF kind = "hc" THEN addr ELSE addr \div Octets

\* Responses to a command: R1 as a set of flags, "" on a timeout.
Response(cmd, addr) ==
  IF card = "silent" THEN {"timeout"}
  ELSE CASE cmd = 0 -> {"idle", "timeout"}
         [] cmd = 8 -> IF kind = "v1" THEN {"illegal"} ELSE {"idle"}
         [] cmd = 41 -> {"idle", "ok"}
         [] cmd \in {9, 16} -> IF card = "ready" THEN {"ok"} ELSE {"illegal"}
         [] cmd \in {17, 24} -> IF card = "ready" /\ SectorAt(addr) < size THEN {"ok"} ELSE {"error"}

CardFallsSilent ==
  /\ card # "silent" /\ card' = "silent"
  /\ UNCHANGED <<kind, size, sector, pc, tries, spi, selected, sectors, result>>
  /\ UNCHANGED callVars

-----------------------------------------------------------------------------
(* initialise_card, _sd_sectors, disk_initialize *)

Goto(next, n) == pc' = next /\ tries' = n

\* CMD0; the attempt after the last one allowed counts as a failure anyway.
Reset ==
  /\ pc = "reset"
  /\ \E r \in Response(0, 0) :
       IF r = "idle" /\ tries < Attempts THEN Goto("cmd8", 0)
       ELSE IF tries < Attempts THEN Goto("reset", tries + 1)
       ELSE Goto("csd", 0)
  /\ UNCHANGED <<spi, selected, sectors, result>> /\ UNCHANGED cardVars /\ UNCHANGED callVars

\* _cmd8, whose result is the first byte of the response; where it puts the
\* others (response[i] for response[j]) is left out.
Cmd8 ==
  /\ pc = "cmd8"
  /\ \E r \in Response(8, 0) : Goto(IF r \in {"idle", "illegal"} THEN "cmd41" ELSE "csd", 0)
  /\ UNCHANGED <<spi, selected, sectors, result>> /\ UNCHANGED cardVars /\ UNCHANGED callVars

\* Mutant: a card that stays idle is reset and asked again.
InitialiseCard_again ==
  /\ pc = "cmd41"
  /\ \E r \in Response(41, 0) :
       /\ Goto(IF r = "ok" THEN "csd" ELSE IF tries + 1 = Timeout THEN "reset" ELSE "cmd41",
               IF r = "ok" \/ tries + 1 = Timeout THEN 0 ELSE tries + 1)
       /\ card' = IF r = "ok" THEN "ready" ELSE card
  /\ UNCHANGED <<kind, size, sector, spi, selected, sectors, result>> /\ UNCHANGED callVars

\* initialise_card_v1 and initialise_card_v2
InitialiseCard ==
  /\ pc = "cmd41"
  /\ \E r \in Response(41, 0) :
       /\ Goto(IF r = "ok" \/ tries + 1 = Timeout THEN "csd" ELSE "cmd41",
               IF r = "ok" \/ tries + 1 = Timeout THEN 0 ELSE tries + 1)
       /\ card' = IF r = "ok" THEN "ready" ELSE card
  /\ UNCHANGED <<kind, size, sector, spi, selected, sectors, result>> /\ UNCHANGED callVars

\* _cmdx leaves the card selected for the block that follows.
Cmd9 ==
  /\ pc = "csd"
  /\ \E r \in Response(9, 0) :
       /\ Goto(IF r = "ok" THEN "csd_read" ELSE "blocklen", 0)
       /\ selected' = (r # "timeout")
  /\ sectors' = 0
  /\ UNCHANGED <<spi, result>> /\ UNCHANGED cardVars /\ UNCHANGED callVars

\* The capacity in octets is computed in 32 bits.
CsdSectors ==
  IF kind = "hc" THEN size ELSE (size * Octets % ((LastAddr + 1) * Octets)) \div Octets

\* _block_read waits for the start of the block, for ever if need be.
CsdRead ==
  /\ pc = "csd_read" /\ card # "silent"
  /\ Goto("blocklen", 0) /\ sectors' = CsdSectors /\ selected' = FALSE
  /\ UNCHANGED <<spi, result>> /\ UNCHANGED cardVars /\ UNCHANGED callVars

SetBlockLength ==
  /\ pc = "blocklen"
  /\ \E r \in Response(16, 0) :
       result' = (IF r = "ok" THEN 0 ELSE 1) /\ spi' = IF r = "ok" THEN "fast" ELSE spi
  /\ Goto("rest", 0) /\ selected' = FALSE
  /\ UNCHANGED sectors /\ UNCHANGED cardVars /\ UNCHANGED callVars

-----------------------------------------------------------------------------
(* disk_write and disk_read.  The callers ask for valid blocks and block 0. *)

\* is_block_valid; mutant: one block too many.
IsValid_last(b) == b # 0 /\ b <= LastAddr /\ (sectors = 0 \/ b <= sectors)
IsValid(b) == b # 0 /\ b <= LastAddr /\ (sectors = 0 \/ b <= sectors - 1)

\* The argument of the command; mutant: a block number where an address is due.
Address_block(b) == b
Address(b) == b * Octets

Call(op, b, v) ==
  /\ pc = "rest" /\ (b = 0 \/ IsValid(b))
  /\ Goto(op, 0) /\ block' = b /\ data' = v
  /\ UNCHANGED <<spi, selected, sectors, result, content>> /\ UNCHANGED cardVars

CmdWrite ==
  /\ pc = "write"
  /\ \E r \in Response(24, Address(block)) :
       IF r = "ok" THEN Goto("write_data", 0) /\ UNCHANGED result
       ELSE Goto("rest", 0) /\ result' = 1
  /\ UNCHANGED <<spi, selected, sectors>> /\ UNCHANGED cardVars /\ UNCHANGED callVars

\* _block_write, whose result is ignored: the card takes the block or not.
BlockWrite ==
  /\ pc = "write_data" /\ Goto("rest", 0) /\ result' = 0
  /\ \/ /\ card # "silent"
        /\ sector' = [sector EXCEPT ![SectorAt(Address(block))] = data]
        /\ content' = [content EXCEPT ![block] = data]
     \/ UNCHANGED <<sector, content>>
  /\ UNCHANGED <<kind, size, card, spi, selected, sectors, block, data>>

CmdRead ==
  /\ pc = "read"
  /\ \E r \in Response(17, Address(block)) :
       IF r = "ok" THEN Goto("read_data", 0) /\ UNCHANGED <<result, selected>>
       ELSE Goto("rest", 0) /\ result' = 1 /\ UNCHANGED selected
  /\ UNCHANGED <<spi, sectors>> /\ UNCHANGED cardVars /\ UNCHANGED callVars

BlockRead ==
  /\ pc = "read_data" /\ card # "silent"
  /\ Goto("rest", 0) /\ result' = 0
  /\ data' = sector[SectorAt(Address(block))] /\ selected' = FALSE
  /\ UNCHANGED <<spi, sectors, block, content>> /\ UNCHANGED cardVars

\* The loop of _block_read, waiting for a card that has fallen silent.
Spin == pc \in {"csd_read", "read_data"} /\ card = "silent" /\ UNCHANGED varsSd

Driver ==
  \/ Reset \/ Cmd8 \/ InitialiseCard \/ Cmd9 \/ CsdRead \/ SetBlockLength
  \/ CmdWrite \/ BlockWrite \/ CmdRead \/ BlockRead

NextSd ==
  \/ Driver \/ CardFallsSilent \/ Spin
  \/ \E b \in AllBlocks, v \in Values : Call("write", b, v)
  \/ \E b \in AllBlocks : Call("read", b, Empty)

SpecSd == InitSd /\ [][NextSd]_varsSd

-----------------------------------------------------------------------------
\* Between two calls the card is not selected (_block_read ends what _cmdx
\* begins), and the fast clock of disk_initialize is only for a card that has
\* left the idle state.
BusAtRest ==
  /\ pc = "rest" => ~selected
  /\ spi = "fast" => card \in {"ready", "silent"}

\* On every kind and size of card, also one whose capacity overflows 32 bits in
\* _sd_sectors, disk_read finds in a block what disk_write last put there: no
\* two blocks share a sector.
ReadsWhatWasWritten == \A b \in AllBlocks :
  SectorAt(Address(b)) < size => sector[SectorAt(Address(b))] = content[b]

\* Every valid block is on the card, so that a sound card takes what put_sample
\* gives to disk_write.
ValidOnCard ==
  pc = "rest" /\ card = "ready" => \A b \in AllBlocks : IsValid(b) => SectorAt(Address(b)) < size

\* So it is on cards of standard capacity, for which is_block_valid allows
\* exactly the blocks that disk_write can address.
StandardReachable == kind # "hc" => ValidOnCard

\* What disk_initialize, disk_read and disk_write keep true of card and bus.
CardServes == BusAtRest /\ ReadsWhatWasWritten /\ StandardReachable
=============================================================================
