--------------------------- MODULE DriversProofs ---------------------------
(***************************************************************************)
(* The console, for any number of CPUs, messages and strings.              *)
(***************************************************************************)
EXTENDS Drivers, SequenceTheorems, TLAPS

Text == [len : Nat, hex : BOOLEAN]
Character == [cpu : Cpu, n : Nat, left : Nat, pos : Nat \ {0}, hex : BOOLEAN]
Register == {<< >>} \cup {<<x>> : x \in Character}

\* The CPUs that have the lock.
Locked(c) == pc[c] \in {"put", "release", "drain"}

Types ==
    /\ pc \in [Cpu -> {"idle", "acquire", "put", "release", "flush", "drain", "flushed"}]
    /\ msg \in [Cpu -> Seq(Text)] /\ pos \in [Cpu -> Nat \ {0}] /\ printed \in [Cpu -> Nat]
    /\ thr \in Register /\ tsr \in Register /\ wire \in Seq(Character)
    /\ \A c \in Cpu : pc[c] \in {"acquire", "put", "release"} => msg[c] # << >>

\* The lock word is set exactly while a CPU is inside, and only one is.  No
\* CPU but the boot CPU runs before serial_unlock.
Locking ==
    /\ \A c, d \in Cpu : Locked(c) /\ Locked(d) => c = d
    /\ serial_lock = IF \E c \in Cpu : Locked(c) THEN 1 ELSE 0
    /\ stage = "boot" => \A c \in Cpu \ {Bsp} : pc[c] = "idle"

\* Every character of a string follows the one before it.
Whole(s) ==
    \A i \in 1..Len(s) : ~s[i].hex /\ s[i].pos > 1 =>
        i > 1 /\ s[i - 1] = [s[i] EXCEPT !.pos = @ - 1]
\* The last character sent is the one before x.
Follows(s, x) == s # << >> /\ s[Len(s)] = [x EXCEPT !.pos = @ - 1]

\* The lock is let go only at the end of a string that serial_puts prints, and
\* within it the last character sent is the string's.
Strings ==
    /\ Whole(Sent)
    /\ \A c \in Cpu :
          /\ pc[c] = "acquire" /\ pos[c] > 1 => Head(msg[c]).hex
          /\ pc[c] = "release" => Head(msg[c]).hex
          /\ pc[c] = "put" /\ pos[c] > 1 /\ ~Head(msg[c]).hex => Follows(Sent, Char(c))

\* Only the boot CPU flushes, and then the UART has none of its characters.
Quiet(s) == s = << >> \/ s[1].cpu # Bsp
Flushing ==
    /\ \A c \in Cpu : pc[c] \in {"flush", "drain", "flushed"} => c = Bsp
    /\ pc[Bsp] = "flushed" => Quiet(thr) /\ Quiet(tsr)
    /\ stage = "off" => pc[Bsp] = "flushed"

ConsoleInv == Types /\ Locking /\ Strings /\ Flushing

----------------------------------------------------------------------------
(* The characters sent, and the registers of the UART.                     *)

(* A register holds one character or none.                                 *)
LEMMA RegisterHolds ==
    ASSUME NEW r \in Register
    PROVE  /\ r \in Seq(Character) /\ (r = << >> \/ \E x \in Character : r = <<x>>)
           /\ r \o << >> = r /\ << >> \o r = r
<1>1. ASSUME r = << >> PROVE r \in Seq(Character)
    BY <1>1
<1>2. ASSUME NEW x \in Character, r = <<x>>
      PROVE  r \in Seq(Character)
    BY <1>2
<1>3. ASSUME r \in Seq(Character) PROVE r \o << >> = r /\ << >> \o r = r
    BY <1>3, ConcatEmptySeq
<1>4. r = << >> \/ \E x \in Character : r = <<x>>
    BY DEF Register
<1>5. r \in Seq(Character)
    BY <1>1, <1>2, <1>4, Zenon
<1> QED
    BY <1>3, <1>4, <1>5, Zenon

(* Moving a character on does not change what has been sent.               *)
LEMMA SentKept == Types /\ (Shift \/ Transmit) => Sent' = Sent
<1> SUFFICES ASSUME Types, Shift \/ Transmit PROVE Sent' = Sent
    OBVIOUS
<1>1. thr \in Register /\ tsr \in Register /\ wire \in Seq(Character)
    BY DEF Types
<1>2. /\ thr \in Seq(Character) /\ tsr \in Seq(Character)
      /\ thr \o << >> = thr /\ << >> \o thr = thr
    BY <1>1, RegisterHolds
<1>3. wire \o << >> = wire /\ wire \o tsr \in Seq(Character)
    BY <1>1, <1>2, ConcatEmptySeq, ConcatProperties
<1>4. CASE Shift
    <2>1. tsr = << >> /\ tsr' = thr /\ thr' = << >> /\ wire' = wire
        BY <1>4 DEF Shift
    <2>2. Sent = wire \o thr
        BY <1>3, <2>1, Zenon DEF Sent
    <2>3. Sent' = (wire \o thr) \o << >>
        BY <2>1, Zenon DEF Sent
    <2>4. wire \o thr \in Seq(Character)
        BY <1>1, <1>2, ConcatProperties
    <2> QED
        BY <2>2, <2>3, <2>4, ConcatEmptySeq
<1>5. CASE Transmit
    <2>1. wire' = wire \o tsr /\ tsr' = << >> /\ thr' = thr
        BY <1>5 DEF Transmit
    <2>2. (wire \o tsr) \o << >> = wire \o tsr
        BY <1>3, ConcatEmptySeq
    <2> QED
        BY <2>1, <2>2, Zenon DEF Sent
<1> QED
    BY <1>4, <1>5

(* A character is sent behind the others.                                  *)
LEMMA SentOne ==
    ASSUME Types, THRE, NEW x \in Character, thr' = <<x>>, tsr' = tsr, wire' = wire
    PROVE  Sent \in Seq(Character) /\ Sent' = Append(Sent, x)
<1>1. /\ tsr \in Seq(Character) /\ wire \in Seq(Character) /\ thr = << >>
      /\ wire \o tsr \in Seq(Character)
    BY RegisterHolds, ConcatProperties DEF Types, THRE
<1>2. Sent = wire \o tsr
    BY <1>1, ConcatEmptySeq DEF Sent
<1>3. Sent' = (wire \o tsr) \o <<x>>
    BY Zenon DEF Sent
<1> QED
    BY <1>1, <1>2, <1>3

(* What is sent is whole if the character that is added continues it.      *)
LEMMA WholeAppend ==
    ASSUME NEW s \in Seq(Character), Whole(s), NEW x \in Character,
           ~x.hex /\ x.pos > 1 => Follows(s, x)
    PROVE  Whole(Append(s, x))
<1> DEFINE t == Append(s, x)
<1>1. /\ t \in Seq(Character) /\ Len(t) = Len(s) + 1 /\ t[Len(s) + 1] = x /\ Len(s) \in Nat
      /\ \A i \in 1..Len(s) : t[i] = s[i]
    BY AppendProperties
<1>2. s # << >> => Len(s) > 0
    OBVIOUS
<1> HIDE DEF t
<1>3. ASSUME NEW i \in 1..Len(t), ~t[i].hex, t[i].pos > 1
      PROVE  i > 1 /\ t[i - 1] = [t[i] EXCEPT !.pos = @ - 1]
    <2>1. CASE i = Len(s) + 1
        <3>1. t[i] = x /\ Follows(s, x) /\ Len(s) > 0
            BY <1>1, <1>2, <1>3, <2>1 DEF Follows
        <3>2. i > 1 /\ i - 1 = Len(s) /\ i - 1 \in 1..Len(s)
            BY <1>1, <2>1, <3>1
        <3>3. t[i - 1] = s[Len(s)]
            BY <1>1, <3>2
        <3> QED
            BY <3>1, <3>2, <3>3, Zenon DEF Follows
    <2>2. CASE i # Len(s) + 1
        <3>1. i \in 1..Len(s) /\ t[i] = s[i]
            BY <1>1, <2>2
        <3>2. i > 1 /\ s[i - 1] = [s[i] EXCEPT !.pos = @ - 1]
            BY <1>3, <3>1, Zenon DEF Whole
        <3>3. i - 1 \in 1..Len(s)
            BY <1>1, <3>1, <3>2
        <3> QED
            BY <1>1, <3>1, <3>2, <3>3
    <2> QED
        BY <2>1, <2>2
<1> QED
    BY <1>3, Zenon DEF Whole, t

----------------------------------------------------------------------------
(* Steps of a CPU.                                                         *)

CpuStep(c) == klog(c) \/ Running(c)

(* A CPU's step changes only its own place.                                *)
LEMMA OwnPlace ==
    ASSUME Types, NEW c \in Cpu, CpuStep(c)
    PROVE  /\ \A d \in Cpu : d # c => /\ pc'[d] = pc[d] /\ msg'[d] = msg[d] /\ pos'[d] = pos[d]
                                      /\ printed'[d] = printed[d]
           /\ stage' = stage
<1>1. /\ DOMAIN pc = Cpu /\ DOMAIN msg = Cpu /\ DOMAIN pos = Cpu /\ DOMAIN printed = Cpu
    BY DEF Types
<1>2. CASE klog(c)
    BY <1>1, <1>2 DEF klog
<1>3. CASE serial_lock_acquire(c)
    BY <1>1, <1>3 DEF serial_lock_acquire
<1>4. CASE serial_putc_unlocked(c)
    BY <1>1, <1>4 DEF serial_putc_unlocked
<1>5. CASE serial_lock_release(c)
    BY <1>1, <1>5 DEF serial_lock_release
<1>6. CASE serial_flush(c)
    BY <1>1, <1>6 DEF serial_flush
<1> QED
    BY <1>2, <1>3, <1>4, <1>5, <1>6 DEF CpuStep, Running

(* From where to where the steps lead.                                     *)
LEMMA Places ==
    ASSUME Types, NEW c \in Cpu
    PROVE  /\ klog(c) => pc[c] = "idle" /\ pc'[c] = "acquire" /\ (stage = "boot" => c = Bsp)
           /\ serial_lock_acquire(c) =>
                 (pc[c] = "acquire" /\ pc'[c] = "put") \/ (pc[c] = "flush" /\ pc'[c] = "drain")
           /\ serial_putc_unlocked(c) => pc[c] = "put" /\ pc'[c] = AfterChar(Head(msg[c]))
           /\ serial_lock_release(c) => /\ pc[c] \in {"put", "release"}
                                        /\ pc'[c] \in {"acquire", "idle", "flush"}
                                        /\ pc'[c] = "flush" => c = Bsp
           /\ serial_flush(c) => pc[c] = "drain" /\ pc'[c] = "flushed"
<1>1. DOMAIN pc = Cpu
    BY DEF Types
<1>2. klog(c) => pc[c] = "idle" /\ pc'[c] = "acquire" /\ (stage = "boot" => c = Bsp)
    BY <1>1 DEF klog
<1>3. serial_lock_acquire(c) =>
         (pc[c] = "acquire" /\ pc'[c] = "put") \/ (pc[c] = "flush" /\ pc'[c] = "drain")
    BY <1>1 DEF serial_lock_acquire
<1>4. serial_putc_unlocked(c) => pc[c] = "put" /\ pc'[c] = AfterChar(Head(msg[c]))
    BY <1>1 DEF serial_putc_unlocked
<1>5. serial_lock_release(c) => /\ pc[c] \in {"put", "release"}
                                /\ pc'[c] \in {"acquire", "idle", "flush"}
                                /\ pc'[c] = "flush" => c = Bsp
    BY <1>1 DEF serial_lock_release, AfterMessage
<1>6. serial_flush(c) => pc[c] = "drain" /\ pc'[c] = "flushed"
    BY <1>1 DEF serial_flush
<1> QED
    BY <1>2, <1>3, <1>4, <1>5, <1>6, Zenon

(* One CPU has the lock.                                                   *)
LEMMA LockingCpu ==
    ASSUME Types, Locking, NEW c \in Cpu, CpuStep(c)
    PROVE  Locking'
<1>1. \A d \in Cpu : d # c => (Locked(d)' <=> Locked(d)) /\ pc'[d] = pc[d]
    BY OwnPlace DEF Locked
<1>2. stage' = stage
    BY OwnPlace
<1>3. ASSUME serial_lock' = serial_lock, Locked(c)' <=> Locked(c), stage = "boot" /\ c # Bsp => pc'[c] = "idle"
      PROVE  Locking'
    BY <1>1, <1>2, <1>3, Zenon DEF Locking
<1>4. ASSUME serial_lock' = 0, Locked(c), ~Locked(c)', stage # "boot" \/ c = Bsp PROVE Locking'
    BY <1>1, <1>2, <1>4, Zenon DEF Locking
<1>5. stage = "boot" /\ pc[c] # "idle" => c = Bsp
    BY Zenon DEF Locking
<1>6. CASE klog(c)
    <2>1. serial_lock' = serial_lock /\ ~Locked(c) /\ ~Locked(c)' /\ (stage = "boot" => c = Bsp)
        BY <1>6, Places DEF klog, Locked
    <2> QED
        BY <1>3, <2>1, Zenon
<1>7. CASE serial_lock_acquire(c)
    <2>1. serial_lock = 0 /\ serial_lock' = 1 /\ Locked(c)' /\ (stage = "boot" => c = Bsp)
        BY <1>5, <1>7, Places, Zenon DEF serial_lock_acquire, Locked
    <2>2. \A d \in Cpu : ~Locked(d)
        BY <2>1 DEF Locking
    <2> QED
        BY <1>1, <1>2, <2>1, <2>2, Zenon DEF Locking
<1>8. CASE serial_putc_unlocked(c)
    <2>1. serial_lock' = serial_lock /\ Locked(c) /\ Locked(c)' /\ (stage = "boot" => c = Bsp)
        BY <1>5, <1>8, Places DEF serial_putc_unlocked, Locked, AfterChar
    <2> QED
        BY <1>3, <2>1, Zenon
<1>9. CASE serial_lock_release(c)
    <2>1. serial_lock' = 0 /\ Locked(c) /\ ~Locked(c)' /\ (stage = "boot" => c = Bsp)
        BY <1>5, <1>9, Places, SMTT(30) DEF serial_lock_release, Unlocked, Locked
    <2> QED
        BY <1>4, <2>1, Zenon
<1>10. CASE serial_flush(c)
    <2>1. serial_lock' = 0 /\ Locked(c) /\ ~Locked(c)' /\ (stage = "boot" => c = Bsp)
        BY <1>5, <1>10, Places, Zenon DEF serial_flush, Locked
    <2> QED
        BY <1>4, <2>1, Zenon
<1> QED
    BY <1>6, <1>7, <1>8, <1>9, <1>10, SMTT(30) DEF CpuStep, Running

(* The next character of the message of a CPU that prints.                 *)
LEMMA CharType ==
    ASSUME Types, NEW c \in Cpu, pc[c] \in {"acquire", "put", "release"}
    PROVE  /\ Head(msg[c]) \in Text /\ Tail(msg[c]) \in Seq(Text)
           /\ Len(msg[c]) \in Nat /\ (Len(msg[c]) > 1 => Tail(msg[c]) # << >>)
           /\ Char(c) \in Character /\ Char(c).cpu = c /\ Char(c).pos = pos[c]
           /\ Char(c).hex = Head(msg[c]).hex
<1>1. msg[c] \in Seq(Text) /\ msg[c] # << >> /\ pos[c] \in Nat \ {0} /\ printed[c] \in Nat
    BY DEF Types
<1>2. Head(msg[c]) \in Text /\ Tail(msg[c]) \in Seq(Text) /\ Len(msg[c]) \in Nat
    BY <1>1
<1>3. Len(msg[c]) > 1 => Tail(msg[c]) # << >>
    <2>1. Len(Tail(msg[c])) = Len(msg[c]) - 1
        BY <1>1
    <2>2. \A n \in Nat : n > 1 => n - 1 # 0
        OBVIOUS
    <2>3. Len(<< >>) = 0
        OBVIOUS
    <2> QED
        BY <1>2, <2>1, <2>2, <2>3, Zenon
<1>4. Head(msg[c]).hex \in BOOLEAN
    BY <1>2 DEF Text
<1> QED
    BY <1>1, <1>2, <1>3, <1>4 DEF Char, Character

(* The types are kept.                                                     *)
LEMMA TypesCpu ==
    ASSUME Types, NEW c \in Cpu, CpuStep(c)
    PROVE  Types'
<1>1. /\ pc \in [Cpu -> {"idle", "acquire", "put", "release", "flush", "drain", "flushed"}]
      /\ msg \in [Cpu -> Seq(Text)] /\ pos \in [Cpu -> Nat \ {0}] /\ printed \in [Cpu -> Nat]
      /\ thr \in Register /\ tsr \in Register /\ wire \in Seq(Character)
      /\ \A d \in Cpu : pc[d] \in {"acquire", "put", "release"} => msg[d] # << >>
    BY DEF Types
<1>2. \A d \in Cpu \ {c} : pc'[d] \in {"acquire", "put", "release"} => msg'[d] # << >>
    BY <1>1, OwnPlace
<1>3. CASE klog(c)
    <2>1. PICK m \in Messages : msg' = [msg EXCEPT ![c] = m]
        BY <1>3, Zenon DEF klog
    <2>2. m \in Seq(Text) /\ m # << >>
        BY ConsoleAssumption DEF Text
    <2>3. /\ pc' = [pc EXCEPT ![c] = "acquire"] /\ pos' = [pos EXCEPT ![c] = 1]
          /\ printed' = [printed EXCEPT ![c] = @ + 1] /\ UNCHANGED uart
        BY <1>3 DEF klog
    <2>4. msg' \in [Cpu -> Seq(Text)] /\ msg'[c] # << >>
        BY <1>1, <2>1, <2>2
    <2>5. /\ pc' \in [Cpu -> {"idle", "acquire", "put", "release", "flush", "drain", "flushed"}]
          /\ pos' \in [Cpu -> Nat \ {0}] /\ printed' \in [Cpu -> Nat]
        BY <1>1, <2>3
    <2> QED
        BY <1>1, <1>2, <2>3, <2>4, <2>5, Zenon DEF Types, uart
<1>4. CASE serial_lock_acquire(c)
    <2>1. /\ pc' = [pc EXCEPT ![c] = IF @ = "acquire" THEN "put" ELSE "drain"]
          /\ UNCHANGED <<uart, msg, pos, printed>>
        BY <1>4 DEF serial_lock_acquire
    <2>2. pc' \in [Cpu -> {"idle", "acquire", "put", "release", "flush", "drain", "flushed"}]
        BY <1>1, <2>1
    <2>3. pc'[c] \in {"acquire", "put", "release"} => msg'[c] # << >>
        BY <1>1, <1>4, <2>1, Places, SMTT(30)
    <2> QED
        BY <1>1, <1>2, <2>1, <2>2, <2>3, Zenon DEF Types, uart
<1>5. CASE serial_putc_unlocked(c)
    <2>1. /\ pc' = [pc EXCEPT ![c] = AfterChar(Head(msg[c]))] /\ pos' = [pos EXCEPT ![c] = @ + 1]
          /\ thr' = <<Char(c)>> /\ UNCHANGED <<tsr, wire, msg, printed>> /\ pc[c] = "put"
        BY <1>5 DEF serial_putc_unlocked
    <2>2. /\ pc' \in [Cpu -> {"idle", "acquire", "put", "release", "flush", "drain", "flushed"}]
          /\ pos' \in [Cpu -> Nat \ {0}]
        BY <1>1, <2>1 DEF AfterChar
    <2>3. thr' \in Register
        BY <2>1, CharType DEF Register
    <2>4. msg'[c] # << >>
        BY <1>1, <2>1
    <2> QED
        BY <1>1, <1>2, <2>1, <2>2, <2>3, <2>4, Zenon DEF Types
<1>6. CASE serial_lock_release(c)
    <2>1. /\ UNCHANGED <<uart, printed>>
          /\ IF AtEnd(c)
             THEN /\ msg' = [msg EXCEPT ![c] = Tail(@)]
                  /\ pos' = [pos EXCEPT ![c] = 1]
                  /\ pc' = [pc EXCEPT ![c] = IF Len(msg[c]) > 1 THEN "acquire" ELSE AfterMessage(c)]
             ELSE pc' = [pc EXCEPT ![c] = "acquire"] /\ UNCHANGED <<msg, pos>>
        BY <1>6 DEF serial_lock_release
    <2>2. pc[c] \in {"put", "release"}
        BY <1>6, Places
    <2>3. /\ Tail(msg[c]) \in Seq(Text) /\ (Len(msg[c]) > 1 => Tail(msg[c]) # << >>)
          /\ msg[c] # << >>
        BY <1>1, <2>2, CharType, Zenon
    <2>4. /\ pc' \in [Cpu -> {"idle", "acquire", "put", "release", "flush", "drain", "flushed"}]
          /\ pos' \in [Cpu -> Nat \ {0}] /\ msg' \in [Cpu -> Seq(Text)]
        <3>1. AfterMessage(c) \in {"flush", "idle"}
            BY DEF AfterMessage
        <3>2. CASE AtEnd(c)
            <4>1. msg' = [msg EXCEPT ![c] = Tail(msg[c])] /\ pos' = [pos EXCEPT ![c] = 1]
                BY <2>1, <3>2, SMTT(30)
            <4>2. PICK p \in {"acquire", "flush", "idle"} : pc' = [pc EXCEPT ![c] = p]
                BY <2>1, <3>1, <3>2, SMTT(30)
            <4>3. msg' \in [Cpu -> Seq(Text)]
                BY <1>1, <2>3, <4>1, SMTT(30)
            <4> QED
                BY <1>1, <4>1, <4>2, <4>3
        <3>3. CASE ~AtEnd(c)
            BY <1>1, <2>1, <3>3, Zenon
        <3> QED
            BY <3>2, <3>3
    <2>5. pc'[c] \in {"acquire", "put", "release"} => msg'[c] # << >>
        <3>1. CASE AtEnd(c)
            <4>1. msg'[c] = Tail(msg[c]) /\ (pc'[c] = "acquire" => Len(msg[c]) > 1)
                BY <1>1, <2>1, <3>1, SMTT(30) DEF AfterMessage
            <4>2. pc'[c] \notin {"put", "release"}
                BY <1>6, Places
            <4> QED
                BY <2>3, <4>1, <4>2, Zenon
        <3>2. CASE ~AtEnd(c)
            BY <1>1, <2>1, <2>3, <3>2, Zenon
        <3> QED
            BY <3>1, <3>2
    <2> QED
        BY <1>1, <1>2, <2>1, <2>4, <2>5, Zenon DEF Types, uart
<1>7. CASE serial_flush(c)
    <2>1. pc' = [pc EXCEPT ![c] = "flushed"] /\ UNCHANGED <<uart, msg, pos, printed>>
        BY <1>7 DEF serial_flush
    <2>2. /\ pc' \in [Cpu -> {"idle", "acquire", "put", "release", "flush", "drain", "flushed"}]
          /\ pc'[c] \notin {"acquire", "put", "release"}
        BY <1>1, <2>1
    <2> QED
        BY <1>1, <1>2, <2>1, <2>2, Zenon DEF Types, uart
<1> QED
    BY <1>3, <1>4, <1>5, <1>6, <1>7, SMTT(30) DEF CpuStep, Running

(* Nothing of the boot CPU is sent after its flush.                        *)
LEMMA FlushingCpu ==
    ASSUME Types, Flushing, NEW c \in Cpu, CpuStep(c)
    PROVE  Flushing'
<1>1. /\ \A d \in Cpu : d # c => pc'[d] = pc[d]
      /\ stage' = stage
    BY OwnPlace
<1>2. pc[c] # "flushed"
    BY Places, Zenon DEF CpuStep, Running
<1>3. stage # "off" \/ c # Bsp
    BY <1>2, Zenon DEF Flushing
<1>4. Bsp \in Cpu
    BY ConsoleAssumption
<1>5. CASE serial_putc_unlocked(c)
    <2>1. pc[c] = "put" /\ pc'[c] \in {"put", "release"} /\ thr' = <<Char(c)>> /\ tsr' = tsr
        BY <1>5, Places DEF serial_putc_unlocked, AfterChar
    <2>2. c # Bsp => Quiet(thr')
        BY <2>1, CharType DEF Quiet
    <2> QED
        BY <1>1, <1>3, <1>4, <2>1, <2>2, ZenonT(30) DEF Flushing
<1>6. CASE serial_flush(c)
    <2>1. pc[c] = "drain" /\ pc'[c] = "flushed" /\ thr' = << >> /\ tsr' = << >>
        BY <1>6, Places, Zenon DEF serial_flush, Drained, TEMT, uart
    <2>2. Quiet(thr') /\ Quiet(tsr') /\ c = Bsp
        BY <2>1, Zenon DEF Quiet, Flushing
    <2> QED
        BY <1>1, <1>3, <2>1, <2>2, Zenon DEF Flushing
<1>7. CASE klog(c) \/ serial_lock_acquire(c) \/ serial_lock_release(c)
    <2>1. thr' = thr /\ tsr' = tsr
        BY <1>7, Zenon DEF klog, serial_lock_acquire, serial_lock_release, uart
    <2>2. pc'[c] # "flushed" /\ (pc'[c] \in {"flush", "drain"} => c = Bsp)
        BY <1>7, Places DEF Flushing
    <2> QED
        BY <1>1, <1>3, <1>4, <2>1, <2>2, Zenon DEF Flushing
<1> QED
    BY <1>5, <1>6, <1>7, SMTT(30) DEF CpuStep, Running

(* No string is torn apart by a CPU's step.                                *)
LEMMA StringsCpu ==
    ASSUME Types, Locking, Strings, NEW c \in Cpu, CpuStep(c)
    PROVE  Strings'
<1>1. ASSUME NEW d \in Cpu, d # c
      PROVE  pc'[d] = pc[d] /\ msg'[d] = msg[d] /\ pos'[d] = pos[d] /\ Char(d)' = Char(d)
    BY <1>1, OwnPlace, Zenon DEF Char
<1>2. CASE serial_putc_unlocked(c)
    <2>1. /\ pc[c] = "put" /\ THRE /\ thr' = <<Char(c)>> /\ tsr' = tsr /\ wire' = wire
          /\ pos' = [pos EXCEPT ![c] = @ + 1] /\ msg' = msg /\ printed' = printed
        BY <1>2, SMTT(30) DEF serial_putc_unlocked
    <2>2. /\ Char(c) \in Character /\ Char(c).pos = pos[c] /\ Char(c).hex = Head(msg[c]).hex
        BY <2>1, CharType
    <2>3. Sent \in Seq(Character) /\ Sent' = Append(Sent, Char(c))
        BY <2>1, <2>2, SentOne, Zenon
    <2>4. Whole(Sent')
        <3>1. ~Char(c).hex /\ Char(c).pos > 1 => Follows(Sent, Char(c))
            BY <2>1, <2>2, Zenon DEF Strings
        <3> QED
            BY <2>2, <2>3, <3>1, WholeAppend, Zenon DEF Strings
    <2>5. ASSUME NEW d \in Cpu, d # c PROVE pc[d] \notin {"put", "release"}
        BY <2>1, <2>5, Zenon DEF Locking, Locked
    <2>6. Follows(Sent', Char(c)')
        <3>1. pos[c] \in Nat /\ pos'[c] = pos[c] + 1
            BY <2>1 DEF Types
        <3>2. [Char(c)' EXCEPT !.pos = @ - 1] = Char(c)
            BY <2>1, <3>1, SMTT(30) DEF Char
        <3>3. Sent' # << >> /\ Sent'[Len(Sent')] = Char(c)
            BY <2>2, <2>3
        <3> QED
            BY <3>2, <3>3 DEF Follows
    <2>7. pc'[c] \in {"put", "release"} /\ (pc'[c] = "release" => Head(msg'[c]).hex)
        BY <1>2, <2>1, Places, SMTT(30) DEF AfterChar
    <2> QED
        BY <1>1, <2>4, <2>5, <2>6, <2>7, Zenon DEF Strings
<1>3. CASE ~serial_putc_unlocked(c)
    <2>1. Sent' = Sent
        BY <1>3, Zenon DEF CpuStep, Running, klog, serial_lock_acquire, serial_lock_release,
            serial_flush, uart, Sent
    <2>2. /\ pc'[c] = "acquire" /\ pos'[c] > 1 => Head(msg'[c]).hex
          /\ pc'[c] # "release"
          /\ pc'[c] = "put" /\ pos'[c] > 1 => Head(msg'[c]).hex
        <3>0. DOMAIN pos = Cpu /\ DOMAIN msg = Cpu /\ DOMAIN pc = Cpu
            BY DEF Types
        <3>1. CASE klog(c)
            BY <3>0, <3>1, Places, SMTT(30) DEF klog
        <3>2. CASE serial_lock_acquire(c)
            BY <3>0, <3>2, Places, SMTT(30) DEF serial_lock_acquire, Strings
        <3>3. CASE serial_lock_release(c)
            <4>1. CASE AtEnd(c)
                BY <3>0, <3>3, <4>1, Places, SMTT(30) DEF serial_lock_release
            <4>2. CASE ~AtEnd(c)
                BY <3>0, <3>3, <4>2, Places, SMTT(30) DEF serial_lock_release, Strings
            <4> QED
                BY <4>1, <4>2, SMTT(30)
        <3>4. CASE serial_flush(c)
            BY <3>4, Places
        <3> QED
            BY <1>3, <3>1, <3>2, <3>3, <3>4, SMTT(30) DEF CpuStep, Running
    <2> QED
        BY <1>1, <2>1, <2>2, Zenon DEF Strings
<1> QED
    BY <1>2, <1>3

----------------------------------------------------------------------------
(* The boot CPU's other steps, and the UART.                               *)

(* serial_unlock finds the lock free: nobody else prints before it.        *)
LEMMA UnlockStep == ConsoleInv /\ serial_unlock => ConsoleInv'
<1> SUFFICES ASSUME ConsoleInv, serial_unlock PROVE ConsoleInv'
    OBVIOUS
<1>1. /\ stage = "boot" /\ pc[Bsp] = "idle" /\ serial_lock' = 0 /\ stage' = "smp"
      /\ thr' = thr /\ tsr' = tsr /\ wire' = wire
      /\ pc' = pc /\ msg' = msg /\ pos' = pos /\ printed' = printed
    BY DEF serial_unlock, uart
<1>2. Types /\ Locking /\ Strings /\ Flushing
    BY DEF ConsoleInv
<1>3. \A c \in Cpu : pc[c] = "idle"
    BY <1>1, <1>2, Zenon DEF Locking
<1>4. Locking'
    BY <1>1, <1>3 DEF Locking, Locked
<1>5. Types'
    BY <1>1, <1>2, Zenon DEF Types
<1>6. Strings'
    BY <1>1, <1>2, Zenon DEF Strings, Sent, Char
<1>7. Flushing'
    BY <1>1, <1>2 DEF Flushing, Quiet
<1> QED
    BY <1>4, <1>5, <1>6, <1>7, Zenon DEF ConsoleInv

(* system_shutdown begins its message, as klog does.                       *)
LEMMA ShutdownStep == ConsoleInv /\ system_shutdown => ConsoleInv'
<1> SUFFICES ASSUME ConsoleInv, system_shutdown PROVE ConsoleInv'
    OBVIOUS
<1>1. /\ stage = "smp" /\ pc[Bsp] = "idle" /\ stage' = "shutdown" /\ serial_lock' = serial_lock
      /\ thr' = thr /\ tsr' = tsr /\ wire' = wire
      /\ pc' = [pc EXCEPT ![Bsp] = "acquire"] /\ pos' = [pos EXCEPT ![Bsp] = 1]
      /\ printed' = [printed EXCEPT ![Bsp] = @ + 1]
    BY DEF system_shutdown, uart
<1>2. PICK m \in Messages : msg' = [msg EXCEPT ![Bsp] = m]
    BY Zenon DEF system_shutdown
<1>3. Types /\ Locking /\ Strings /\ Flushing
    BY DEF ConsoleInv
<1>4. Bsp \in Cpu /\ m \in Seq(Text) /\ m # << >>
    BY ConsoleAssumption DEF Text
<1>5. /\ pc \in [Cpu -> {"idle", "acquire", "put", "release", "flush", "drain", "flushed"}]
      /\ msg \in [Cpu -> Seq(Text)] /\ pos \in [Cpu -> Nat \ {0}] /\ printed \in [Cpu -> Nat]
      /\ \A c \in Cpu : pc[c] \in {"acquire", "put", "release"} => msg[c] # << >>
    BY <1>3 DEF Types
<1>6. /\ pc'[Bsp] = "acquire" /\ pos'[Bsp] = 1 /\ msg'[Bsp] = m
      /\ \A c \in Cpu : c # Bsp => /\ pc'[c] = pc[c] /\ msg'[c] = msg[c] /\ pos'[c] = pos[c]
                                   /\ printed'[c] = printed[c]
    BY <1>1, <1>2, <1>4, <1>5
<1>7. Types'
    <2>1. /\ pc' \in [Cpu -> {"idle", "acquire", "put", "release", "flush", "drain", "flushed"}]
          /\ msg' \in [Cpu -> Seq(Text)] /\ pos' \in [Cpu -> Nat \ {0}] /\ printed' \in [Cpu -> Nat]
        BY <1>1, <1>2, <1>4, <1>5, SMTT(30)
    <2>2. thr' \in Register /\ tsr' \in Register /\ wire' \in Seq(Character)
        BY <1>1, <1>3, Zenon DEF Types
    <2>3. \A c \in Cpu : pc'[c] \in {"acquire", "put", "release"} => msg'[c] # << >>
        <3> SUFFICES ASSUME NEW c \in Cpu, pc'[c] \in {"acquire", "put", "release"}
                     PROVE  msg'[c] # << >>
            OBVIOUS
        <3>1. CASE c = Bsp
            BY <1>4, <1>6, <3>1, SMTT(30)
        <3>2. CASE c # Bsp
            BY <1>5, <1>6, <3>2, SMTT(30)
        <3> QED
            BY <3>1, <3>2
    <2> QED
        BY <2>1, <2>2, <2>3, Zenon DEF Types
<1>8. Locking'
    <2>1. \A c \in Cpu : Locked(c)' <=> Locked(c)
        BY <1>1, <1>6 DEF Locked
    <2>2. stage' # "boot"
        BY <1>1
    <2> QED
        BY <1>1, <1>3, <2>1, <2>2, Zenon DEF Locking
<1>9. Strings'
    <2>1. Sent' = Sent
        BY <1>1, Zenon DEF Sent
    <2>2. ~(pos'[Bsp] > 1)
        BY <1>6
    <2>3. \A c \in Cpu : c # Bsp => Char(c)' = Char(c)
        BY <1>6, Zenon DEF Char
    <2>4. pc'[Bsp] \notin {"put", "release"}
        BY <1>6
    <2> QED
        BY <1>3, <1>6, <2>1, <2>2, <2>3, <2>4, Zenon DEF Strings
<1>10. Flushing'
    <2>1. pc'[Bsp] \notin {"flush", "drain", "flushed"} /\ stage' # "off"
        BY <1>1, <1>6
    <2> QED
        BY <1>3, <1>6, <2>1, Zenon DEF Flushing
<1> QED
    BY <1>7, <1>8, <1>9, <1>10, Zenon DEF ConsoleInv

(* The UART sends on, and the power goes.                                  *)
LEMMA HardwareStep == ConsoleInv /\ (Shift \/ Transmit \/ PowerOff) => ConsoleInv'
<1> SUFFICES ASSUME ConsoleInv, Shift \/ Transmit \/ PowerOff PROVE ConsoleInv'
    OBVIOUS
<1>1. /\ serial_lock' = serial_lock /\ pc' = pc /\ msg' = msg /\ pos' = pos /\ printed' = printed
    BY Zenon DEF Shift, Transmit, PowerOff
<1>2. Types /\ Locking /\ Strings /\ Flushing
    BY DEF ConsoleInv
<1>3. Sent' = Sent
    <2>1. CASE PowerOff
        BY <2>1, Zenon DEF PowerOff, uart, Sent
    <2> QED
        BY <1>2, <2>1, SentKept, Zenon
<1>4. stage' = stage \/ (stage' = "off" /\ pc[Bsp] = "flushed")
    BY Zenon DEF Shift, Transmit, PowerOff
<1>5. thr \in Register /\ tsr \in Register /\ wire \in Seq(Character)
    BY <1>2 DEF Types
<1>6. thr' \in {thr, << >>} /\ tsr' \in {thr, tsr, << >>}
    BY DEF Shift, Transmit, PowerOff, uart
<1>7. wire' \in Seq(Character)
    <2>1. wire' = wire \/ wire' = wire \o tsr
        BY Zenon DEF Shift, Transmit, PowerOff, uart
    <2>2. tsr \in Seq(Character)
        BY <1>5, RegisterHolds
    <2> QED
        BY <1>5, <2>1, <2>2, ConcatProperties, Zenon
<1>8. << >> \in Register
    BY DEF Register
<1>9. Types'
    BY <1>1, <1>2, <1>5, <1>6, <1>7, <1>8, Zenon DEF Types
<1>10. Locking'
    <2>1. stage' = "boot" => stage = "boot"
        BY <1>4
    <2> QED
        BY <1>1, <1>2, <2>1, Zenon DEF Locking, Locked
<1>11. Strings'
    BY <1>1, <1>2, <1>3, Zenon DEF Strings, Char
<1>12. Flushing'
    <2>1. Quiet(thr) /\ Quiet(tsr) => Quiet(thr') /\ Quiet(tsr')
        BY <1>6, Zenon DEF Quiet
    <2> QED
        BY <1>1, <1>2, <1>4, <2>1, Zenon DEF Flushing
<1> QED
    BY <1>9, <1>10, <1>11, <1>12, Zenon DEF ConsoleInv

----------------------------------------------------------------------------
(* Every step of DriversNext keeps the invariant.                          *)
LEMMA ConsoleStays == ConsoleInv /\ [DriversNext]_driversVars => ConsoleInv'
<1> SUFFICES ASSUME ConsoleInv, [DriversNext]_driversVars PROVE ConsoleInv'
    OBVIOUS
<1>1. ASSUME UNCHANGED vars PROVE ConsoleInv'
    <2>1. /\ serial_lock' = serial_lock /\ pc' = pc /\ msg' = msg /\ pos' = pos /\ printed' = printed
          /\ thr' = thr /\ tsr' = tsr /\ wire' = wire /\ stage' = stage
        BY <1>1 DEF vars, uart
    <2>2. Types' /\ Locking'
        BY <2>1, Zenon DEF ConsoleInv, Types, Locking, Locked
    <2>3. Strings' /\ Flushing'
        BY <2>1, Zenon DEF ConsoleInv, Strings, Flushing, Sent, Char, Quiet
    <2> QED
        BY <2>2, <2>3, Zenon DEF ConsoleInv
<1>2. CASE UNCHANGED driversVars \/ BeginPrinting
    BY <1>1, <1>2, Zenon DEF driversVars, BeginPrinting
<1>3. CASE DeviceStep
    BY <1>1, <1>3, Zenon DEF DeviceStep
<1>4. ASSUME NEW c \in Cpu, CpuStep(c) PROVE ConsoleInv'
    BY <1>4, TypesCpu, LockingCpu, StringsCpu, FlushingCpu, Zenon DEF ConsoleInv
<1>5. CASE serial_unlock \/ system_shutdown \/ PowerOff \/ Shift \/ Transmit
    BY <1>5, UnlockStep, ShutdownStep, HardwareStep, Zenon
<1> QED
    BY <1>2, <1>3, <1>4, <1>5, Zenon DEF DriversNext, CpuStep, Running

(* Nothing is printed when kernel_main starts.                             *)
LEMMA ConsoleStarts == DriversInit => ConsoleInv
<1> SUFFICES ASSUME DriversInit PROVE ConsoleInv
    OBVIOUS
<1>1. /\ serial_lock = 0 /\ thr = << >> /\ tsr = << >> /\ wire = << >>
      /\ pc = [c \in Cpu |-> "idle"] /\ msg = [c \in Cpu |-> << >>]
      /\ pos = [c \in Cpu |-> 1] /\ printed = [c \in Cpu |-> 0] /\ stage = "boot" /\ Bsp \in Cpu
    BY ConsoleAssumption DEF DriversInit, ConsoleInit
<1>2. Types
    BY <1>1 DEF Types, Register
<1>3. Locking
    BY <1>1 DEF Locking, Locked
<1>4. Strings
    <2>1. Sent = << >>
        BY <1>1 DEF Sent
    <2> QED
        BY <1>1, <2>1 DEF Strings, Whole
<1>5. Flushing
    BY <1>1 DEF Flushing
<1> QED
    BY <1>2, <1>3, <1>4, <1>5, SMTT(30) DEF ConsoleInv

(* The invariant holds always; the fairness is not needed.                 *)
LEMMA ConsoleAlways == DriversSpec => []ConsoleInv
BY ConsoleStarts, ConsoleStays, PTL DEF DriversSpec

(***************************************************************************)
(* serial_puts prints every string in one piece (serial_driver.c), for any *)
(* number of CPUs and messages, serial_unlock and the shutdown included.   *)
(***************************************************************************)
THEOREM StringsWhole == DriversSpec => []PutsWhole
<1>1. ConsoleInv => PutsWhole
    BY Zenon DEF ConsoleInv, Strings, Whole, PutsWhole
<1> QED
    BY <1>1, ConsoleAlways, PTL

(***************************************************************************)
(* When system_shutdown switches the machine off (power.c:17-36), all that *)
(* the boot CPU printed has left the UART, although other CPUs may print   *)
(* after its flush.                                                        *)
(***************************************************************************)
THEOREM OutputComplete == DriversSpec => []ShutdownComplete
<1>1. ConsoleInv => ShutdownComplete
    <2> SUFFICES ASSUME ConsoleInv, stage = "off", NEW i \in 1..Len(thr \o tsr)
                 PROVE  (thr \o tsr)[i].cpu # Bsp
        BY Zenon DEF ShutdownComplete
    <2>1. thr \in Register /\ tsr \in Register /\ Quiet(thr) /\ Quiet(tsr)
        BY Zenon DEF ConsoleInv, Types, Flushing
    <2>2. /\ thr \in Seq(Character) /\ tsr \in Seq(Character)
          /\ thr \o << >> = thr /\ << >> \o tsr = tsr
          /\ thr = << >> \/ \E x \in Character : thr = <<x>>
          /\ tsr = << >> \/ \E x \in Character : tsr = <<x>>
        BY <2>1, RegisterHolds, Zenon
    <2>3. /\ thr # << >> => Len(thr) = 1 /\ thr[1].cpu # Bsp
          /\ tsr # << >> => Len(tsr) = 1 /\ tsr[1].cpu # Bsp
        BY <2>1, <2>2 DEF Quiet
    <2>4. /\ Len(thr \o tsr) = Len(thr) + Len(tsr)
          /\ i <= Len(thr) => (thr \o tsr)[i] = thr[i]
          /\ i > Len(thr) => (thr \o tsr)[i] = tsr[i - Len(thr)]
        BY <2>2
    <2> QED
        BY <2>2, <2>3, <2>4, SMTT(30)
<1> QED
    BY <1>1, ConsoleAlways, PTL
============================================================================
