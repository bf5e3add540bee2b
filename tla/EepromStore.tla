---------------------------- MODULE EepromStore ----------------------------
(***************************************************************************)
(* The motor settings in the EEPROM: readMotorSettings and                 *)
(* writeMotorSettings of droplet_code/src/motor.c over the driver in       *)
(* src/eeprom_driver.c.                                                    *)
(*                                                                         *)
(* The controller of the memory has one set of registers.  A byte is       *)
(* loaded into a buffer of one page, and a second command writes what is   *)
(* loaded to the page of the address register.  A task that writes the     *)
(* settings may be interrupted by a command of the serial line that writes *)
(* them too, and the power may be cut at any time.                         *)
(***************************************************************************)
EXTENDS Integers, FiniteSets

CONSTANTS
  ByteBase,   \* 256 in the code
  NumSettings,\* values of two bytes
  PageSize,   \* EEPROM_PAGE_SIZE
  StoreBudgets \* bounds on a behaviour: [sets, writes, cuts]

StoreAssumption ==
  /\ ByteBase \in Nat \ {0, 1} /\ NumSettings \in Nat \ {0} /\ PageSize \in Nat \ {0}
  /\ ByteBase % 2 = 0 /\ (2 * NumSettings) % PageSize = 0
ASSUME StoreAssumption

Bytes     == 0 .. ByteBase - 1
Half      == (ByteBase * ByteBase) \div 2
Values16  == -Half .. Half - 1
Addresses == 0 .. 2 * NumSettings - 1
Writers   == {"task", "isr"}

VARIABLES
  eeprom,     \* the bytes
  page,       \* the bytes loaded into the page buffer, by their place in a page
  nvm,        \* NVM.CMD and NVM.ADDR
  ram,        \* motorAdjusts and mmPerKilostep, one after the other
  writer,     \* per context: [at, k, temp, clean], the byte it is at, the value it
              \* took, and whether ram is as it was when it began
  settled,    \* a write has ended with ram unchanged, and it still is, and no write
              \* that is not clean has gone on
  had,        \* per address, the bytes that ram has had for it
  storeBudget

storeVars == <<eeprom, page, nvm, ram, writer, settled, had, storeBudget>>

NoBytes == [o \in {} |-> 0]
NoWriter == [at |-> "idle", k |-> 0, temp |-> 0, clean |-> FALSE]

High(v) == (v \div ByteBase) % ByteBase
Low(v)  == v % ByteBase
ByteOf(v, a) == IF a % 2 = 0 THEN High(v) ELSE Low(v)

\* mutant: the sign is not restored
Unsigned(mem, i) == mem[2 * i] * ByteBase + mem[2 * i + 1]

\* readMotorSettings: two bytes make a signed number.
Setting(mem, i) ==
  LET u == mem[2 * i] * ByteBase + mem[2 * i + 1] IN IF u >= Half THEN u - 2 * Half ELSE u
Settings(mem) == [i \in 0 .. NumSettings - 1 |-> Setting(mem, i)]

\* motorInit at the first start: the memory is erased.
StoreInit ==
  /\ eeprom = [a \in Addresses |-> ByteBase - 1] /\ page = NoBytes
  /\ nvm = [cmd |-> "none", addr |-> 0]
  /\ ram = Settings(eeprom)
  /\ writer = [c \in Writers |-> NoWriter] /\ settled = FALSE
  /\ had = [a \in Addresses |-> {ByteBase - 1}]
  /\ storeBudget \in StoreBudgets

----------------------------------------------------------------------------
\* A context runs unless an interrupt has taken over from the task.
Writing(c, at) == /\ writer[c].at = at
                  /\ c = "task" => writer["isr"] = NoWriter

Remembered(values) == [a \in Addresses |-> had[a] \union {ByteOf(values[a \div 2], a)}]

\* A command or the program sets a value.
SetValue ==
  /\ storeBudget.sets > 0 /\ storeBudget' = [storeBudget EXCEPT !.sets = @ - 1]
  /\ writer["isr"] = NoWriter
  /\ \E i \in 0 .. NumSettings - 1, v \in Values16 : ram' = [ram EXCEPT ![i] = v]
  /\ ram' # ram /\ had' = Remembered(ram')
  /\ writer' = [c \in Writers |-> [writer[c] EXCEPT !.clean = FALSE]] /\ settled' = FALSE
  /\ UNCHANGED <<eeprom, page, nvm>>

\* writeMotorSettings is called.
BeginWrite(c) ==
  /\ storeBudget.writes > 0 /\ storeBudget' = [storeBudget EXCEPT !.writes = @ - 1]
  /\ Writing(c, "idle")
  /\ writer' = [writer EXCEPT ![c] = [at |-> "flush", k |-> 0, temp |-> 0, clean |-> TRUE]]
  /\ UNCHANGED <<eeprom, page, nvm, ram, settled, had>>

Next_W(c, at) == writer' = [writer EXCEPT ![c].at = at]

\* mutant: what is loaded stays
Unflushed(loaded) == loaded

\* flush_buffer
Flushed(loaded) == NoBytes

\* The value is taken with its first byte; then flush_buffer, and the command
\* that loads the buffer.
Flush(c) ==
  /\ Writing(c, "flush")
  /\ page' = Flushed(page) /\ nvm' = [nvm EXCEPT !.cmd = "load"]
  /\ writer' = [writer EXCEPT ![c].at = "address",
                              ![c].temp = IF writer[c].k % 2 = 0 THEN ram[writer[c].k \div 2] ELSE @]
  /\ UNCHANGED <<eeprom, ram, settled, had, storeBudget>>

SetAddress(c) ==
  /\ Writing(c, "address") /\ Next_W(c, "data")
  /\ nvm' = [nvm EXCEPT !.addr = writer[c].k]
  /\ UNCHANGED <<eeprom, page, ram, settled, had, storeBudget>>

\* The data register is loaded into the buffer under the command for it.
SetData(c) ==
  /\ Writing(c, "data") /\ Next_W(c, "execute")
  /\ page' = IF nvm.cmd # "load" THEN page
             ELSE [o \in DOMAIN page \union {nvm.addr % PageSize} |->
                     IF o = nvm.addr % PageSize THEN ByteOf(writer[c].temp, writer[c].k) ELSE page[o]]
  /\ UNCHANGED <<eeprom, nvm, ram, settled, had, storeBudget>>

\* mutant: the whole page is erased
PageErased(mem, addr, loaded) ==
  [a \in DOMAIN mem |-> IF a \div PageSize # addr \div PageSize THEN mem[a]
                        ELSE IF a % PageSize \in DOMAIN loaded THEN loaded[a % PageSize]
                        ELSE ByteBase - 1]

\* The bytes of the page that are loaded are erased and written.
PageWritten(mem, addr, loaded) ==
  [a \in DOMAIN mem |-> IF a \div PageSize = addr \div PageSize /\ a % PageSize \in DOMAIN loaded
                        THEN loaded[a % PageSize] ELSE mem[a]]

\* The loop goes on to the next byte.
NextByte(w) == [w EXCEPT !.at = "flush", !.k = @ + 1]

Execute(c) ==
  /\ Writing(c, "execute")
  /\ eeprom' = PageWritten(eeprom, nvm.addr, page) /\ page' = NoBytes
  /\ nvm' = [nvm EXCEPT !.cmd = "erase-write"]
  /\ LET last == writer[c].k = 2 * NumSettings - 1
     IN  /\ writer' = [writer EXCEPT ![c] = IF last THEN NoWriter ELSE NextByte(@)]
         /\ settled' = (writer[c].clean /\ (settled \/ last))
  /\ UNCHANGED <<ram, had, storeBudget>>

WriteStep(c) == Flush(c) \/ SetAddress(c) \/ SetData(c) \/ Execute(c)

\* The power is cut, or the droplet reset, and it starts again.
PowerCut ==
  /\ storeBudget.cuts > 0 /\ storeBudget' = [storeBudget EXCEPT !.cuts = @ - 1]
  /\ page' = NoBytes /\ nvm' = [cmd |-> "none", addr |-> 0]
  /\ writer' = [c \in Writers |-> NoWriter]
  /\ ram' = Settings(eeprom) /\ had' = Remembered(ram') /\ settled' = FALSE
  /\ UNCHANGED eeprom

StoreNext == SetValue \/ PowerCut \/ \E c \in Writers : BeginWrite(c) \/ WriteStep(c)
StoreSpec == StoreInit /\ [][StoreNext]_storeVars

----------------------------------------------------------------------------
\* EEPROM_write_block: bytes are loaded until the page or the block ends.
BlockWritten(mem, addr, src, len) ==
  LET first == [mem |-> mem, loaded |-> NoBytes, byte |-> addr % PageSize,
                page |-> addr - (addr % PageSize)]
      after[n \in 0 .. len] ==
        IF n = 0 THEN first
        ELSE LET b == after[n - 1]
                 loaded == [o \in DOMAIN b.loaded \union {b.byte} |->
                              IF o = b.byte THEN src[n] ELSE b.loaded[o]]
             IN  IF n = len \/ b.byte + 1 >= PageSize
                 THEN [mem |-> PageWritten(b.mem, b.page, loaded), loaded |-> NoBytes,
                       byte |-> 0, page |-> b.page + PageSize]
                 ELSE [b EXCEPT !.loaded = loaded, !.byte = @ + 1]
  IN  after[len].mem

\* EEPROM_read_block
BlockRead(mem, addr, len) == [n \in 1 .. len |-> mem[addr + n - 1]]

----------------------------------------------------------------------------
\* Whatever interrupts what, and whenever the power goes, no byte gets to
\* the place of another: each is one that the settings have had there.
BytesInPlace == \A a \in Addresses : eeprom[a] \in had[a]

\* Once a write of unchanged settings has ended, they are what a start would
\* read, negative ones too, also if a second write began within it.  (Not if
\* the outer write took a value before the settings were changed: it goes on
\* to write the old one over the new.)
StoredIsRam == settled => Settings(eeprom) = ram

\* A block is written where it belongs, across pages, and nothing else is.
BlocksRight ==
  \A addr \in Addresses : \A len \in 1 .. 2 * NumSettings - addr :
    LET src == [n \in 1 .. len |-> (n + eeprom[addr]) % ByteBase]
        new == BlockWritten(eeprom, addr, src, len)
    IN  /\ BlockRead(new, addr, len) = src
        /\ \A a \in Addresses \ (addr .. addr + len - 1) : new[a] = eeprom[a]

=============================================================================
