------------------------- MODULE WorldSwitchProofs -------------------------
(***************************************************************************)
(* Proofs about WorldSwitch, for any number of virtual processors, places, *)
(* interrupt frames and writes.  SwitchInv is the inductive invariant: it  *)
(* says where RSP is, what is on the host's stack and what has been saved  *)
(* at every instruction of the switch.  The registers are handled by their *)
(* offset in guest_regs: both lists of the macros follow its order.        *)
(***************************************************************************)
EXTENDS WorldSwitch, TLAPS

\* What a register or a word on a stack may hold.
Tokens == Regs \cup {"rsp", "junk", "return address", "new"}
Values == [0..3 -> ((Vcpus \cup {Host, Nothing}) \X Tokens) \cup {Zero}]

Functions == {"host", "vmx_entry", "guest", "vmx_entry_failed", "vmx_exit", "panic"}

SwitchTypeOK ==
  /\ cpu \in [Regs -> Values]
  /\ rsp \in [area : Places \cup {Host}, word : Int]
  /\ stack \in Seq(Values)
  /\ mem \in [Places -> [Words -> Values]]
  /\ top \in [Places -> Int]
  /\ place \in [Vcpus -> Places]
  /\ host_rsp \in [Vcpus -> [area : Places \cup {Nothing}, word : Int]]
  /\ guest_rsp \in [Vcpus -> Values]
  /\ launched \in [Vcpus -> BOOLEAN]
  /\ self \in Vcpus \cup {Nothing}
  /\ pc \in [fn : Functions, at : Int]

\* RSP is on the host's stack, n words deep; inner_run's return address is first.
OnHostStack(n) ==
  /\ rsp = [area |-> Host, word |-> n] /\ Len(stack) = n
  /\ n > 0 => stack[1] = Return

\* RSP is at word w of the VmxVcpu; the host's frame is complete and linked.
OnRegsArea(w) ==
  /\ rsp = [area |-> Here, word |-> w] /\ top[Here] = 17
  /\ Len(stack) = 17 /\ stack[1] = Return

\* The registers pushed before instruction k are those of the highest offsets.
Pushed(r, k) == 16 - Offset(r) < k

EntryInv ==
  /\ pc.at \in 1..35
  /\ pc.at <= 17 => OnHostStack(pc.at)
  /\ pc.at = 18 => OnHostStack(17) /\ top[Here] = 17
  /\ pc.at >= 19 => OnRegsArea(pc.at - 19)
  /\ pc.at <= 18 => \A r \in Regs : Pushed(r, pc.at) => stack[17 - Offset(r)] = cpu[r]

ExitInv ==
  /\ pc.at \in 1..34
  /\ pc.at <= 17 => OnRegsArea(17 - pc.at)
  /\ pc.at <= 17 => \A r \in Regs : Pushed(r, pc.at) => mem[Here][Offset(r)] = cpu[r]
  /\ pc.at >= 18 => OnHostStack(35 - pc.at)

\* Places are not shared, HOST_RSP of a launched VMCS is where its VmxVcpu is.
LinkInv ==
  /\ \A v, u \in Vcpus : v # u => place[v] # place[u]
  /\ \A v \in Vcpus : launched[v] => host_rsp[v] = [area |-> place[v], word |-> 16]
  /\ "switch" \notin strays

PositionInv ==
  /\ pc.fn = "host" => self = Nothing /\ OnHostStack(0)
  /\ pc.fn \in {"vmx_entry", "guest", "vmx_entry_failed", "vmx_exit"}
       => self \in Vcpus /\ launched[self]
  /\ pc.fn = "vmx_entry" => EntryInv
  /\ pc.fn \in {"guest", "vmx_entry_failed"} => OnRegsArea(16)
  /\ pc.fn = "vmx_exit" => ExitInv

SwitchInv == SwitchTypeOK /\ LinkInv /\ PositionInv

-----------------------------------------------------------------------------
(* The lists of the registers *)

\* Layout names sixteen different fields.
LEMMA LayoutInjective ==
  \A i, j \in 1..16 : Layout[i] = Layout[j] => i = j
BY SMT DEF Layout

\* save_regs_to_stack is the layout backwards and restore_regs_from_stack the layout,
\* the unused slot of RSP being skipped in both.
LEMMA ListsFollowLayout ==
  \A i \in 1..16 :
    /\ restore_regs_from_stack[i] = IF i = 5 THEN "skip" ELSE Layout[i]
    /\ save_regs_to_stack[i] = IF i = 12 THEN "skip" ELSE Layout[17 - i]
    /\ Layout[i] = "_unused_rsp" <=> i = 5
    /\ Layout[i] # "skip"
BY SMT DEF Layout, restore_regs_from_stack, save_regs_to_stack

\* Both lists have sixteen entries.
LEMMA ListDomains ==
  /\ DOMAIN restore_regs_from_stack = 1..16 /\ DOMAIN save_regs_to_stack = 1..16
  /\ Len(restore_regs_from_stack) = 16 /\ Len(save_regs_to_stack) = 16
BY SMT DEF restore_regs_from_stack, save_regs_to_stack

\* The field at position i has offset i - 1.
LEMMA OffsetOfField ==
  ASSUME NEW i \in 1..16
  PROVE  Offset(Layout[i]) = i - 1
BY LayoutInjective, SMT DEF Offset

\* Every register has an offset other than the slot of RSP, and its place in the two
\* lists is given by that offset.
LEMMA RegisterPlaces ==
  ASSUME NEW r \in Regs
  PROVE  /\ Offset(r) \in 0..15 /\ Offset(r) # 4
         /\ Layout[Offset(r) + 1] = r
         /\ Index(restore_regs_from_stack, r) = Offset(r) + 1
         /\ Index(save_regs_to_stack, r) = 16 - Offset(r)
<1>1. PICK i \in 1..16 : r = Layout[i] /\ r # "_unused_rsp"
  BY DEF Regs
<1>2. i # 5 /\ r # "skip" /\ Offset(r) = i - 1
  BY <1>1, ListsFollowLayout, OffsetOfField
<1>3. Index(restore_regs_from_stack, r) = i
  <2>1. \A j \in 1..16 : restore_regs_from_stack[j] = r <=> j = i
    BY <1>1, <1>2, ListsFollowLayout, LayoutInjective
  <2> QED
    BY <2>1, ListDomains DEF Index
<1>4. Index(save_regs_to_stack, r) = 17 - i
  <2>1. \A j \in 1..16 : save_regs_to_stack[j] = r <=> j = 17 - i
    BY <1>1, <1>2, ListsFollowLayout, LayoutInjective
  <2> QED
    BY <2>1, ListDomains DEF Index
<1> QED
  BY <1>1, <1>2, <1>3, <1>4

\* Different registers have different offsets.
LEMMA OffsetInjective ==
  ASSUME NEW r \in Regs, NEW q \in Regs, Offset(r) = Offset(q)
  PROVE  r = q
BY RegisterPlaces

\* What position i of each list moves.
LEMMA ListEntries ==
  ASSUME NEW i \in 1..16
  PROVE  /\ i = 5 => restore_regs_from_stack[i] = "skip"
         /\ i # 5 => /\ restore_regs_from_stack[i] \in Regs
                    /\ Offset(restore_regs_from_stack[i]) = i - 1
         /\ i = 12 => save_regs_to_stack[i] = "skip"
         /\ i # 12 => /\ save_regs_to_stack[i] \in Regs
                     /\ Offset(save_regs_to_stack[i]) = 16 - i
         /\ "skip" \notin Regs
<1>1. \A j \in 1..16 : j # 5 => Layout[j] \in Regs
  BY ListsFollowLayout DEF Regs
<1>2. "skip" \notin Regs
  BY ListsFollowLayout DEF Regs
<1>3. i # 12 => 17 - i \in 1..16 /\ 17 - i # 5
  OBVIOUS
<1> QED
  BY <1>1, <1>2, <1>3, ListsFollowLayout, OffsetOfField

\* get_reg_of_index and set_reg_of_index know every number but 4, as the processor
\* does, and RAX is a register.
LEMMA IndexedRegisters ==
  /\ \A n \in Nat : reg_of_index(n) # "panic" => reg_of_index(n) \in Regs
  /\ \A n \in 0..15 : n # 4 => reg_of_index(n) \in Regs /\ reg_of_index(n) = Encoding[n + 1]
  /\ Encoding[5] = "rsp" /\ "rsp" \notin Regs /\ "rax" \in Regs
<1>1. \A i \in 1..16 : i # 5 => ByIndex[i] = Layout[i] /\ Encoding[i] = Layout[i]
  BY SMT DEF ByIndex, Layout, Encoding
<1>2. ByIndex[5] = "panic" /\ Encoding[5] = "rsp" /\ Layout[1] = "rax"
      /\ \A i \in 1..16 : Layout[i] # "rsp"
  BY SMT DEF ByIndex, Encoding, Layout
<1>3. \A i \in 1..16 : i # 5 => Layout[i] \in Regs
  BY ListsFollowLayout DEF Regs
<1>4. "rsp" \notin Regs /\ "rax" \in Regs
  BY <1>2, <1>3 DEF Regs
<1> QED
  BY <1>1, <1>2, <1>3, <1>4 DEF reg_of_index

-----------------------------------------------------------------------------
(* The instructions of the two functions *)

Instructions ==
  {Saves[i] : i \in 1..16} \cup {Restores[i] : i \in 1..16} \cup
  {Ins("store_top"), Ins("use_regs_area"), Ins("load_top"), Ins("vm_entry"), Ins("ret")}

\* Sequences: functions on 1..n, their elements, the empty one, and the three ways the
\* model builds one.
LEMMA FunctionIsSequence ==
  ASSUME NEW S, NEW n \in Nat, NEW f \in [1..n -> S]
  PROVE  f \in Seq(S) /\ Len(f) = n
OBVIOUS

LEMMA SequenceElements ==
  ASSUME NEW S, NEW s \in Seq(S)
  PROVE  Len(s) \in Nat /\ \A k \in 1..Len(s) : s[k] \in S
OBVIOUS

LEMMA EmptySequence ==
  ASSUME NEW S
  PROVE  << >> \in Seq(S) /\ \A s \in Seq(S) : s = << >> <=> Len(s) = 0
<1>1. << >> \in Seq(S)
  OBVIOUS
<1>2. \A s \in Seq(S) : s = << >> <=> Len(s) = 0
  OBVIOUS
<1> QED
  BY <1>1, <1>2

LEMMA Concatenation ==
  ASSUME NEW S, NEW a \in Seq(S), NEW b \in Seq(S)
  PROVE  /\ a \o b \in Seq(S) /\ Len(a \o b) = Len(a) + Len(b)
         /\ \A k \in 1..(Len(a) + Len(b)) :
              (a \o b)[k] = IF k <= Len(a) THEN a[k] ELSE b[k - Len(a)]
<1>1. a \o b \in Seq(S)
  OBVIOUS
<1>2. Len(a \o b) = Len(a) + Len(b)
  OBVIOUS
<1>3. \A k \in 1..(Len(a) + Len(b)) :
        (a \o b)[k] = IF k <= Len(a) THEN a[k] ELSE b[k - Len(a)]
  OBVIOUS
<1> QED
  BY <1>1, <1>2, <1>3

LEMMA Appending ==
  ASSUME NEW S, NEW s \in Seq(S), NEW x \in S
  PROVE  /\ Append(s, x) \in Seq(S) /\ Len(Append(s, x)) = Len(s) + 1
         /\ Append(s, x)[Len(s) + 1] = x /\ \A k \in 1..Len(s) : Append(s, x)[k] = s[k]
OBVIOUS

LEMMA Prefix ==
  ASSUME NEW S, NEW s \in Seq(S), NEW n \in 0..Len(s)
  PROVE  /\ SubSeq(s, 1, n) \in Seq(S) /\ Len(SubSeq(s, 1, n)) = n
         /\ \A k \in 1..n : SubSeq(s, 1, n)[k] = s[k]
OBVIOUS

\* The two macros as instructions.
LEMMA MacroEntries ==
  /\ Saves = [i \in 1..16 |-> [op |-> "push", reg |-> save_regs_to_stack[i]]]
  /\ Restores = [i \in 1..16 |-> [op |-> "pop", reg |-> restore_regs_from_stack[i]]]
BY ListDomains DEF Saves, Restores, Op

\* Each macro is a sequence of sixteen instructions.
LEMMA MacroSequences ==
  /\ Saves \in Seq(Instructions) /\ Len(Saves) = 16
  /\ Restores \in Seq(Instructions) /\ Len(Restores) = 16
<1>1. Saves \in [1..16 -> Instructions] /\ Restores \in [1..16 -> Instructions]
  BY MacroEntries DEF Instructions
<1> QED
  BY <1>1, FunctionIsSequence, Zenon

\* vmx_launch and vmx_resume: sixteen pushes, the two moves, sixteen pops, the entry.
LEMMA EntryCode ==
  ASSUME NEW k \in 1..35
  PROVE  vmx_entry_with[k] =
           IF k <= 16 THEN [op |-> "push", reg |-> save_regs_to_stack[k]]
           ELSE IF k = 17 THEN Ins("store_top")
           ELSE IF k = 18 THEN Ins("use_regs_area")
           ELSE IF k <= 34 THEN [op |-> "pop", reg |-> restore_regs_from_stack[k - 18]]
           ELSE Ins("vm_entry")
<1> DEFINE moves == <<Ins("store_top"), Ins("use_regs_area")>>
           entry == <<Ins("vm_entry")>>
           a == Saves \o moves
           b == a \o Restores
           c == b \o entry
<1>1. /\ moves \in Seq(Instructions) /\ Len(moves) = 2
      /\ moves[1] = Ins("store_top") /\ moves[2] = Ins("use_regs_area")
      /\ entry \in Seq(Instructions) /\ Len(entry) = 1 /\ entry[1] = Ins("vm_entry")
  BY DEF Ins, Instructions
<1>2. vmx_entry_with = c
  BY DEF vmx_entry_with
<1> HIDE DEF moves, entry
<1>3. a \in Seq(Instructions)
  BY <1>1, MacroSequences, Concatenation, Zenon
<1>4. b \in Seq(Instructions)
  BY <1>3, MacroSequences, Concatenation, Zenon
<1>5. /\ Len(a) = Len(Saves) + Len(moves)
      /\ \A i \in 1..(Len(Saves) + Len(moves)) :
           a[i] = IF i <= Len(Saves) THEN Saves[i] ELSE moves[i - Len(Saves)]
  BY <1>1, MacroSequences, Concatenation, ZenonT(30)
<1>6. /\ Len(b) = Len(a) + Len(Restores)
      /\ \A i \in 1..(Len(a) + Len(Restores)) :
           b[i] = IF i <= Len(a) THEN a[i] ELSE Restores[i - Len(a)]
  <2> HIDE DEF a
  <2> QED BY <1>3, MacroSequences, Concatenation, ZenonT(30)
<1>7. /\ Len(c) = Len(b) + Len(entry)
      /\ \A i \in 1..(Len(b) + Len(entry)) :
           c[i] = IF i <= Len(b) THEN b[i] ELSE entry[i - Len(b)]
  <2> HIDE DEF b
  <2> QED BY <1>1, <1>4, MacroSequences, Concatenation, ZenonT(30)
<1> HIDE DEF a, b, c
<1>8. Len(Saves) = 16 /\ Len(moves) = 2 /\ Len(Restores) = 16
      /\ Len(a) = 18 /\ Len(b) = 34 /\ Len(entry) = 1
  BY <1>1, <1>5, <1>6, MacroSequences
<1>9. vmx_entry_with[k] = IF k <= 16 THEN Saves[k] ELSE IF k <= 18 THEN moves[k - 16]
           ELSE IF k <= 34 THEN Restores[k - 18] ELSE entry[k - 34]
  <2>1. k <= 16 => a[k] = Saves[k]
    BY <1>5, <1>8
  <2>2. k > 16 /\ k <= 18 => a[k] = moves[k - 16]
    BY <1>5, <1>8
  <2>3. k <= 18 => b[k] = a[k]
    BY <1>6, <1>8
  <2>4. k > 18 /\ k <= 34 => b[k] = Restores[k - 18]
    BY <1>6, <1>8
  <2>5. c[k] = IF k <= 34 THEN b[k] ELSE entry[k - 34]
    BY <1>7, <1>8
  <2> QED
    BY <1>2, <2>1, <2>2, <2>3, <2>4, <2>5
<1>10. /\ moves[1] = Ins("store_top") /\ moves[2] = Ins("use_regs_area")
       /\ entry[1] = Ins("vm_entry")
  BY <1>1
<1> QED
  BY <1>9, <1>10, MacroEntries

\* vmx_exit: sixteen pushes, the load of the host's stack, sixteen pops, the return.
LEMMA ExitCode ==
  ASSUME NEW k \in 1..34
  PROVE  vmx_exit[k] =
           IF k <= 16 THEN [op |-> "push", reg |-> save_regs_to_stack[k]]
           ELSE IF k = 17 THEN Ins("load_top")
           ELSE IF k <= 33 THEN [op |-> "pop", reg |-> restore_regs_from_stack[k - 17]]
           ELSE Ins("ret")
<1> DEFINE load == <<Ins("load_top")>>
           return == <<Ins("ret")>>
           a == Saves \o load
           b == a \o Restores
           c == b \o return
<1>1. /\ load \in Seq(Instructions) /\ Len(load) = 1 /\ load[1] = Ins("load_top")
      /\ return \in Seq(Instructions) /\ Len(return) = 1 /\ return[1] = Ins("ret")
  BY DEF Ins, Instructions
<1>2. vmx_exit = c
  BY DEF vmx_exit
<1> HIDE DEF load, return
<1>3. a \in Seq(Instructions)
  BY <1>1, MacroSequences, Concatenation, Zenon
<1>4. b \in Seq(Instructions)
  BY <1>3, MacroSequences, Concatenation, Zenon
<1>5. /\ Len(a) = Len(Saves) + Len(load)
      /\ \A i \in 1..(Len(Saves) + Len(load)) :
           a[i] = IF i <= Len(Saves) THEN Saves[i] ELSE load[i - Len(Saves)]
  BY <1>1, MacroSequences, Concatenation, Zenon
<1>6. /\ Len(b) = Len(a) + Len(Restores)
      /\ \A i \in 1..(Len(a) + Len(Restores)) :
           b[i] = IF i <= Len(a) THEN a[i] ELSE Restores[i - Len(a)]
  <2> HIDE DEF a
  <2> QED BY <1>3, MacroSequences, Concatenation, ZenonT(30)
<1>7. /\ Len(c) = Len(b) + Len(return)
      /\ \A i \in 1..(Len(b) + Len(return)) :
           c[i] = IF i <= Len(b) THEN b[i] ELSE return[i - Len(b)]
  <2> HIDE DEF b
  <2> QED BY <1>1, <1>4, MacroSequences, Concatenation, ZenonT(30)
<1> HIDE DEF a, b, c
<1>8. Len(Saves) = 16 /\ Len(load) = 1 /\ Len(Restores) = 16
      /\ Len(a) = 17 /\ Len(b) = 33 /\ Len(return) = 1
  BY <1>1, <1>5, <1>6, MacroSequences
<1>9. vmx_exit[k] = IF k <= 16 THEN Saves[k] ELSE IF k <= 17 THEN load[k - 16]
           ELSE IF k <= 33 THEN Restores[k - 17] ELSE return[k - 33]
  <2>1. k <= 16 => a[k] = Saves[k]
    BY <1>5, <1>8
  <2>2. k > 16 /\ k <= 17 => a[k] = load[k - 16]
    BY <1>5, <1>8
  <2>3. k <= 17 => b[k] = a[k]
    BY <1>6, <1>8
  <2>4. k > 17 /\ k <= 33 => b[k] = Restores[k - 17]
    BY <1>6, <1>8
  <2>5. c[k] = IF k <= 33 THEN b[k] ELSE return[k - 33]
    BY <1>7, <1>8
  <2> QED
    BY <1>2, <2>1, <2>2, <2>3, <2>4, <2>5
<1>10. load[1] = Ins("load_top") /\ return[1] = Ins("ret")
  BY <1>1, SMTT(30)
<1> QED
  BY <1>9, <1>10, MacroEntries

\* Where the program is, for each kind of instruction.
LEMMA Decode ==
  ASSUME SwitchInv
  PROVE  /\ At("push") => /\ pc.fn \in {"vmx_entry", "vmx_exit"}
                          /\ pc.at \in 1..16 /\ Reg = save_regs_to_stack[pc.at]
         /\ At("pop") => \/ /\ pc.fn = "vmx_entry" /\ pc.at \in 19..34
                            /\ Reg = restore_regs_from_stack[pc.at - 18]
                         \/ /\ pc.fn = "vmx_exit" /\ pc.at \in 18..33
                            /\ Reg = restore_regs_from_stack[pc.at - 17]
         /\ At("store_top") => pc.fn = "vmx_entry" /\ pc.at = 17
         /\ At("use_regs_area") => pc.fn = "vmx_entry" /\ pc.at = 18
         /\ At("load_top") => pc.fn = "vmx_exit" /\ pc.at = 17
         /\ At("ret") => pc.fn = "vmx_exit" /\ pc.at = 34
         /\ At("vm_entry") => pc.fn = "vmx_entry" /\ pc.at = 35
<1>1. InSwitch => pc.fn = "vmx_entry" \/ pc.fn = "vmx_exit"
  BY DEF InSwitch, Code
<1>2. CASE pc.fn = "vmx_entry"
  <2>1. pc.at \in 1..35 /\ Code[pc.fn] = vmx_entry_with
    BY <1>2 DEF SwitchInv, PositionInv, EntryInv, Code
  <2> QED
    BY <1>2, <2>1, EntryCode DEF At, Reg, Ins
<1>3. CASE pc.fn = "vmx_exit"
  <2>1. pc.at \in 1..34 /\ Code[pc.fn] = vmx_exit
    BY <1>3 DEF SwitchInv, PositionInv, ExitInv, Code
  <2> QED
    BY <1>3, <2>1, ExitCode DEF At, Reg, Ins
<1> QED
  BY <1>1, <1>2, <1>3 DEF At

-----------------------------------------------------------------------------
(* Values and stacks *)

\* The tokens, the junk and what the accessors write are values.
LEMMA TokensAreValues ==
  /\ \A o \in Vcpus \cup {Host, Nothing}, r \in Tokens : Token(o, r) \in Values
  /\ Junk \in Values /\ Return \in Values /\ NullSlices \in Values
  /\ \A x \in Values : \A p : set_part(x, p, New) \in Values
<1>1. \A o \in Vcpus \cup {Host, Nothing}, r \in Tokens : Token(o, r) \in Values
  BY DEF Token, Values
<1>2. "junk" \in Tokens /\ "return address" \in Tokens /\ "new" \in Tokens
  BY DEF Tokens
<1>3. NullSlices \in Values
  BY DEF NullSlices, Values
<1>4. \A x \in Values : \A p : set_part(x, p, New) \in Values
  BY <1>2, Zenon DEF set_part, New, Values
<1> QED
  BY <1>1, <1>2, <1>3, <1>4, Zenon DEF Junk, Return

\* Taking a word off the host's stack.
LEMMA PopProperties ==
  ASSUME stack \in Seq(Values), stack # << >>
  PROVE  /\ BelowTop \in Seq(Values) /\ Len(BelowTop) = Len(stack) - 1
         /\ \A i \in 1..(Len(stack) - 1) : BelowTop[i] = stack[i]
         /\ StackTop = stack[Len(stack)] /\ StackTop \in Values
<1>1. Len(stack) \in Nat \ {0}
  BY SequenceElements, EmptySequence
<1>2. Len(stack) - 1 \in 0..Len(stack)
  BY <1>1
<1>3. StackTop \in Values
  BY <1>1, SequenceElements DEF StackTop
<1> QED
  BY <1>2, <1>3, Prefix, Zenon DEF BelowTop, StackTop


-----------------------------------------------------------------------------
(* SwitchInv holds initially and every step keeps it *)

\* The host starts outside the switch, with nothing launched.
LEMMA SwitchInit == Init => SwitchInv
<1> SUFFICES ASSUME Init PROVE SwitchInv
  OBVIOUS
<1>1. SwitchTypeOK
  <2>1. cpu \in [Regs -> Values] /\ guest_rsp \in [Vcpus -> Values]
    BY TokensAreValues, Zenon DEF Init, Tokens
  <2>2. mem \in [Places -> [Words -> Values]]
    BY TokensAreValues DEF Init
  <2>3. stack \in Seq(Values)
    BY EmptySequence DEF Init
  <2> QED
    BY <2>1, <2>2, <2>3 DEF SwitchTypeOK, Init, Functions
<1>2. LinkInv
  BY DEF LinkInv, Init
<1>3. PositionInv
  BY DEF PositionInv, Init, OnHostStack
<1> QED
  BY <1>1, <1>2, <1>3 DEF SwitchInv

\* What the host does between two runs leaves the stack and the position alone.
LEMMA StaysInHost ==
  ASSUME SwitchInv, InHost, UNCHANGED <<rsp, stack, self, pc>>
  PROVE  PositionInv'
BY DEF SwitchInv, PositionInv, InHost, OnHostStack

\* Moving a VmxVcpu that is not launched leaves no HOST_RSP pointing to its old place.
LEMMA MoveKeeps ==
  ASSUME SwitchInv, NEW v \in Vcpus, Move(v)
  PROVE  SwitchInv'
<1>1. PICK p \in Places \ {place[u] : u \in Vcpus} :
        /\ place' = [place EXCEPT ![v] = p]
        /\ mem' = [mem EXCEPT ![p] = mem[place[v]], ![place[v]] = mem[p]]
        /\ top' = [top EXCEPT ![p] = top[place[v]], ![place[v]] = top[p]]
  BY Zenon DEF Move
<1>2. UNCHANGED <<cpu, rsp, stack, host_rsp, guest_rsp, launched, self, pc, strays>>
  BY DEF Move, vmcs
<1>3. SwitchTypeOK'
  <2> USE DEF SwitchInv, SwitchTypeOK
  <2>1. place' \in [Vcpus -> Places] /\ top' \in [Places -> Int]
    BY <1>1
  <2>2. mem' \in [Places -> [Words -> Values]]
    BY <1>1, Zenon
  <2> QED
    BY <1>2, <2>1, <2>2, Zenon
<1>4. LinkInv'
  <2>1. ~launched[v] /\ place \in [Vcpus -> Places]
    BY DEF Move, SwitchInv, SwitchTypeOK
  <2> QED
    BY <1>1, <1>2, <2>1 DEF LinkInv, SwitchInv
<1> QED
  BY <1>2, <1>3, <1>4, StaysInHost DEF SwitchInv, Move

\* unbind and the accessors change neither addresses nor the stack.
LEMMA HostKeeps ==
  ASSUME SwitchInv, NEW v \in Vcpus,
         \/ unbind(v) \/ set_return_value(v) \/ set_stack_pointer(v)
         \/ \E i \in Indices : set_gpr(v, i)
         \/ \E r \in WriteRegs, p \in DOMAIN Parts : set_sub_register(v, r, p)
  PROVE  SwitchInv'
<1>1. CASE unbind(v)
  <2>1. SwitchTypeOK' /\ LinkInv'
    BY <1>1 DEF unbind, SwitchInv, SwitchTypeOK, LinkInv, machine, vmcs
  <2> QED
    BY <1>1, <2>1, StaysInHost DEF SwitchInv, unbind, machine
<1>2. ASSUME NEW r \in Regs, NEW p, CanWrite, WriteReg(v, r, p)
      PROVE  SwitchInv'
  <2>1. mem' \in [Places -> [Words -> Values]]
    <3>1. Offset(r) \in Words /\ place[v] \in Places /\ mem \in [Places -> [Words -> Values]]
      BY RegisterPlaces DEF Words, SwitchInv, SwitchTypeOK
    <3>2. set_part(mem[place[v]][Offset(r)], p, New) \in Values
      BY <3>1, TokensAreValues
    <3> QED
      BY <1>2, <3>1, <3>2 DEF WriteReg
  <2>2. SwitchTypeOK' /\ LinkInv'
    BY <1>2, <2>1, SMTT(30) DEF WriteReg, SwitchInv, SwitchTypeOK, LinkInv, vmcs
  <2> QED
    BY <1>2, <2>2, StaysInHost DEF SwitchInv, WriteReg, CanWrite
<1>3. CASE set_stack_pointer(v)
  <2>1. guest_rsp' \in [Vcpus -> Values]
    BY <1>3, TokensAreValues DEF set_stack_pointer, SwitchInv, SwitchTypeOK
  <2>2. SwitchTypeOK' /\ LinkInv'
    BY <1>3, <2>1 DEF set_stack_pointer, SwitchInv, SwitchTypeOK, LinkInv, machine
  <2> QED
    BY <1>3, <2>2, StaysInHost DEF SwitchInv, set_stack_pointer, CanWrite, machine
<1>4. ASSUME NEW i \in Indices, set_gpr(v, i)
      PROVE  SwitchInv'
  <2>1. CASE reg_of_index(i % 256) # "panic"
    <3>1. i % 256 \in Nat
      BY InputsAssumption
    <3>2. reg_of_index(i % 256) \in Regs
      BY <2>1, <3>1, IndexedRegisters
    <3> QED
      BY <1>2, <1>4, <2>1, <3>2, ZenonT(30) DEF set_gpr
  <2>2. CASE reg_of_index(i % 256) = "panic"
    <3>1. /\ pc' = [fn |-> "panic", at |-> 1]
          /\ UNCHANGED <<machine, vmcs, place, launched, self, strays>>
      BY <1>4, <2>2 DEF set_gpr, WriteReg
    <3>2. SwitchTypeOK' /\ LinkInv'
      BY <3>1 DEF SwitchInv, SwitchTypeOK, LinkInv, machine, vmcs, Functions
    <3>3. PositionInv'
      BY <3>1 DEF PositionInv
    <3> QED
      BY <3>2, <3>3 DEF SwitchInv
  <2> QED
    BY <2>1, <2>2
<1>5. CASE set_return_value(v)
  BY <1>2, <1>5, IndexedRegisters DEF set_return_value
<1>6. ASSUME NEW r \in WriteRegs, NEW p \in DOMAIN Parts, set_sub_register(v, r, p)
      PROVE  SwitchInv'
  BY <1>2, <1>6, InputsAssumption DEF set_sub_register
<1> QED
  BY <1>1, <1>3, <1>4, <1>5, <1>6

\* inner_run calls the switch with its return address on an empty stack, and the
\* VMCS of what it runs has its HOST_RSP.
LEMMA InnerRunKeeps ==
  ASSUME SwitchInv, NEW v \in Vcpus, inner_run(v)
  PROVE  SwitchInv'
<1>1. /\ rsp = [area |-> Host, word |-> 0] /\ Len(stack) = 0 /\ stack \in Seq(Values)
      /\ place \in [Vcpus -> Places] /\ launched \in [Vcpus -> BOOLEAN]
      /\ host_rsp \in [Vcpus -> [area : Places \cup {Nothing}, word : Int]]
  BY DEF inner_run, InHost, SwitchInv, SwitchTypeOK, PositionInv, OnHostStack
<1>2. /\ self' = v /\ pc' = [fn |-> "vmx_entry", at |-> 1]
      /\ launched' = [launched EXCEPT ![v] = TRUE] /\ host_rsp' = set_host_rsp(v)
      /\ stack' = Append(stack, Return) /\ rsp' = [area |-> Host, word |-> 1]
      /\ UNCHANGED <<mem, top, guest_rsp, place, strays>>
  BY <1>1, SMTT(30) DEF inner_run
<1>3. stack' \in Seq(Values) /\ Len(stack') = 1 /\ stack'[1] = Return
  <2>1. /\ Append(stack, Return) \in Seq(Values) /\ Len(Append(stack, Return)) = Len(stack) + 1
        /\ Append(stack, Return)[Len(stack) + 1] = Return
    <3>1. Return \in Values /\ stack \in Seq(Values)
      BY <1>1, TokensAreValues
    <3> QED
      BY <3>1, Appending
  <2>2. Len(stack) + 1 = 1
    BY <1>1
  <2> QED
    BY <1>2, <2>1, <2>2, Zenon
<1>4. cpu' \in [Regs -> Values]
  BY TokensAreValues, Zenon DEF inner_run, Tokens
<1>5. /\ host_rsp' \in [Vcpus -> [area : Places \cup {Nothing}, word : Int]]
      /\ \A u \in Vcpus : launched'[u] => host_rsp'[u] = [area |-> place[u], word |-> 16]
  BY <1>1, <1>2 DEF set_host_rsp, SwitchInv, LinkInv
<1>6. SwitchTypeOK'
  <2>1. /\ rsp' \in [area : Places \cup {Host}, word : Int]
        /\ launched' \in [Vcpus -> BOOLEAN]
        /\ pc' \in [fn : Functions, at : Int]
    BY <1>1, <1>2 DEF Functions
  <2>2. UNCHANGED <<mem, top, guest_rsp, place>> /\ self' \in Vcpus \cup {Nothing}
    BY <1>2
  <2> QED
    BY <1>3, <1>4, <1>5, <2>1, <2>2, Zenon DEF SwitchInv, SwitchTypeOK
<1>7. LinkInv'
  BY <1>2, <1>5 DEF SwitchInv, LinkInv
<1>8. PositionInv'
  <2>1. \A r \in Regs : ~Pushed(r, 1)
    BY RegisterPlaces DEF Pushed
  <2>2. OnHostStack(1)'
    BY <1>2, <1>3 DEF OnHostStack
  <2>3. pc'.fn = "vmx_entry" /\ pc'.at = 1 /\ launched'[v] /\ self' = v
    BY <1>1, <1>2
  <2> QED
    BY <2>1, <2>2, <2>3 DEF PositionInv, EntryInv
<1> QED
  BY <1>6, <1>7, <1>8 DEF SwitchInv

\* A push of the entry puts the next register on the host's stack.
LEMMA PushHostKeeps ==
  ASSUME SwitchInv, Push, pc.fn = "vmx_entry"
  PROVE  SwitchInv'
<1>1. pc.at \in 1..16 /\ Reg = save_regs_to_stack[pc.at]
  BY Decode DEF Push
<1>2. /\ rsp = [area |-> Host, word |-> pc.at] /\ Len(stack) = pc.at /\ stack[1] = Return
      /\ stack \in Seq(Values) /\ cpu \in [Regs -> Values] /\ self \in Vcpus
      /\ pc \in [fn : Functions, at : Int]
      /\ \A r \in Regs : Pushed(r, pc.at) => stack[17 - Offset(r)] = cpu[r]
  <2>1. self \in Vcpus /\ EntryInv
    BY DEF SwitchInv, PositionInv
  <2>2. /\ OnHostStack(pc.at)
        /\ \A r \in Regs : Pushed(r, pc.at) => stack[17 - Offset(r)] = cpu[r]
    BY <1>1, <2>1 DEF EntryInv
  <2>3. /\ stack \in Seq(Values) /\ cpu \in [Regs -> Values]
        /\ pc \in [fn : Functions, at : Int]
    BY DEF SwitchInv, SwitchTypeOK
  <2>4. rsp = [area |-> Host, word |-> pc.at] /\ Len(stack) = pc.at /\ stack[1] = Return
    BY <1>1, <2>2 DEF OnHostStack
  <2> QED
    BY <2>1, <2>2, <2>3, <2>4, Zenon
<1> DEFINE value == IF Reg = "skip" THEN Junk ELSE cpu[Reg]
<1>3. /\ stack' = Append(stack, value) /\ rsp' = [area |-> Host, word |-> pc.at + 1]
      /\ pc' = [fn |-> "vmx_entry", at |-> pc.at + 1]
      /\ UNCHANGED <<mem, strays, cpu, top, vmcs, place, launched, self>>
  <2>1. /\ stack' = Append(stack, value) /\ rsp' = [rsp EXCEPT !.word = @ + 1]
        /\ pc' = [pc EXCEPT !.at = @ + 1]
        /\ UNCHANGED <<mem, strays, cpu, top, vmcs, place, launched, self>>
    BY <1>2 DEF Push, Next_pc
  <2>2. rsp' = [area |-> Host, word |-> pc.at + 1]
    BY <1>2, <2>1
  <2>3. pc' = [fn |-> "vmx_entry", at |-> pc.at + 1]
    BY <1>2, <2>1
  <2> QED
    BY <2>1, <2>2, <2>3, Zenon
<1>4. value \in Values
  BY <1>1, <1>2, ListEntries, TokensAreValues, SMTT(30)
<1>5. \A r \in Regs : Offset(r) = 16 - pc.at => value = cpu[r]
  BY <1>1, ListEntries, OffsetInjective, RegisterPlaces
<1> HIDE DEF value
<1>6. /\ stack' \in Seq(Values) /\ Len(stack') = pc.at + 1
      /\ \A i \in 1..pc.at : stack'[i] = stack[i]
      /\ stack'[pc.at + 1] = value
  BY <1>2, <1>3, <1>4, Appending
<1>7. SwitchTypeOK' /\ LinkInv'
  BY <1>1, <1>3, <1>6 DEF SwitchInv, SwitchTypeOK, LinkInv, vmcs, Functions
<1>8. \A r \in Regs : Pushed(r, pc.at + 1) => stack'[17 - Offset(r)] = cpu[r]
  <2> SUFFICES ASSUME NEW r \in Regs, 16 - Offset(r) < pc.at + 1
               PROVE  stack'[17 - Offset(r)] = cpu[r]
    BY DEF Pushed
  <2>1. Offset(r) \in 0..15
    BY RegisterPlaces
  <2>2. CASE 16 - Offset(r) < pc.at
    <3>1. 17 - Offset(r) \in 1..pc.at
      BY <1>1, <2>1, <2>2
    <3> QED
      BY <1>2, <1>6, <2>2, <3>1 DEF Pushed
  <2>3. CASE 16 - Offset(r) = pc.at
    <3>1. 17 - Offset(r) = pc.at + 1 /\ Offset(r) = 16 - pc.at
      BY <1>1, <2>1, <2>3
    <3> QED
      BY <1>5, <1>6, <3>1
  <2> QED
    BY <1>1, <2>1, <2>2, <2>3
<1>9. PositionInv'
  <2>1. /\ pc'.fn = "vmx_entry" /\ pc'.at = pc.at + 1 /\ pc'.at \in 2..17 /\ cpu' = cpu
        /\ self' \in Vcpus /\ launched'[self']
    BY <1>1, <1>2, <1>3, SMTT(30) DEF SwitchInv, PositionInv
  <2>2. OnHostStack(pc.at)'
    BY <1>1, <1>2, <1>3, <1>6, <2>1 DEF OnHostStack
  <2>3. EntryInv'
    BY <1>8, <2>1, <2>2 DEF EntryInv, Pushed
  <2> QED
    BY <2>1, <2>3 DEF PositionInv
<1> QED
  BY <1>7, <1>9 DEF SwitchInv

\* While RSP is in a VmxVcpu, it is in the one being run.
LEMMA AreaFacts ==
  ASSUME SwitchInv, NEW w \in Int, OnRegsArea(w), self \in Vcpus
  PROVE  /\ rsp = [area |-> Here, word |-> w] /\ rsp.area = Here /\ rsp.word = w
         /\ Here \in Places /\ rsp.area # Host
         /\ mem \in [Places -> [Words -> Values]]
<1>1. place \in [Vcpus -> Places] /\ mem \in [Places -> [Words -> Values]]
  BY DEF SwitchInv, SwitchTypeOK
<1>2. Here \in Places
  BY <1>1 DEF Here
<1>3. rsp = [area |-> Here, word |-> w]
  BY DEF OnRegsArea
<1> QED
  BY <1>1, <1>2, <1>3, OwnersAssumption

\* A step of the switch that leaves the launched processors alone keeps the links.
LEMMA LinksKept ==
  ASSUME SwitchInv, UNCHANGED <<place, host_rsp, launched>>,
         "switch" \in strays' => "switch" \in strays
  PROVE  LinkInv'
BY DEF SwitchInv, LinkInv

\* A push of the exit puts the next register in its word of guest_regs, and nowhere else.
LEMMA PushAreaKeeps ==
  ASSUME SwitchInv, Push, pc.fn = "vmx_exit"
  PROVE  SwitchInv'
<1>1. pc.at \in 1..16 /\ Reg = save_regs_to_stack[pc.at]
  BY Decode DEF Push
<1>2. /\ self \in Vcpus /\ launched[self] /\ OnRegsArea(17 - pc.at)
      /\ \A r \in Regs : Pushed(r, pc.at) => mem[Here][Offset(r)] = cpu[r]
  BY <1>1 DEF SwitchInv, PositionInv, ExitInv
<1>3. /\ rsp = [area |-> Here, word |-> 17 - pc.at] /\ rsp.area = Here
      /\ rsp.word = 17 - pc.at
      /\ Here \in Places /\ rsp.area # Host /\ mem \in [Places -> [Words -> Values]]
  BY <1>1, <1>2, AreaFacts
<1>4. cpu \in [Regs -> Values] /\ pc \in [fn : Functions, at : Int]
  BY DEF SwitchInv, SwitchTypeOK
<1>5. /\ rsp' = [area |-> Here, word |-> 16 - pc.at] /\ rsp'.word = 16 - pc.at
      /\ rsp'.word \in Words
  <2>1. rsp' = [rsp EXCEPT !.word = @ - 1]
    BY <1>3 DEF Push
  <2> QED
    BY <1>1, <1>3, <2>1 DEF Words
<1> DEFINE w == 16 - pc.at
<1>6. /\ mem' = IF Reg # "skip" THEN [mem EXCEPT ![Here][w] = cpu[Reg]] ELSE mem
      /\ strays' = strays
      /\ UNCHANGED <<stack, cpu, top, vmcs, place, launched, self>>
      /\ pc' = [pc EXCEPT !.at = @ + 1]
  BY <1>3, <1>5, Zenon DEF Push, Next_pc
<1>7. w \in Words /\ w \in 0..15
  BY <1>1 DEF Words
<1>8. /\ Reg # "skip" => Reg \in Regs /\ Offset(Reg) = w
      /\ Reg = "skip" => w = 4
  BY <1>1, ListEntries
<1> HIDE DEF w
<1>9. mem' \in [Places -> [Words -> Values]]
  BY <1>3, <1>4, <1>6, <1>7, <1>8
<1>10. \A r \in Regs : Pushed(r, pc.at + 1) => mem'[Here][Offset(r)] = cpu[r]
  <2> SUFFICES ASSUME NEW r \in Regs, Pushed(r, pc.at + 1)
               PROVE  mem'[Here][Offset(r)] = cpu[r]
    OBVIOUS
  <2>1. Offset(r) \in Words /\ Offset(r) # 4 /\ Offset(r) \in 0..15
    BY RegisterPlaces DEF Words
  <2>2. CASE Offset(r) = w
    <3>1. Reg # "skip" /\ Reg = r
      BY <1>8, <2>1, <2>2, OffsetInjective
    <3> QED
      BY <1>3, <1>6, <1>7, <2>2, <3>1
  <2>3. CASE Offset(r) # w
    <3>1. Pushed(r, pc.at)
      BY <1>1, <2>1, <2>3 DEF Pushed, w
    <3>2. mem'[Here][Offset(r)] = mem[Here][Offset(r)]
      BY <1>3, <1>6, <1>7, <2>1, <2>3
    <3> QED
      BY <1>2, <3>1, <3>2
  <2> QED
    BY <2>2, <2>3
<1>11. pc' = [fn |-> "vmx_exit", at |-> pc.at + 1] /\ pc'.fn = "vmx_exit" /\ pc'.at = pc.at + 1
  BY <1>4, <1>6
<1>12. SwitchTypeOK'
  <2>1. pc' \in [fn : Functions, at : Int] /\ rsp' \in [area : Places \cup {Host}, word : Int]
    BY <1>1, <1>3, <1>5, <1>11 DEF Functions
  <2> QED
    BY <1>6, <1>9, <2>1 DEF SwitchInv, SwitchTypeOK, vmcs
<1>13. LinkInv'
  BY <1>6, LinksKept DEF vmcs
<1>14. PositionInv'
  <2>1. Here' = Here /\ self' \in Vcpus /\ launched'[self']
    BY <1>2, <1>6 DEF Here
  <2>2. rsp' = [area |-> Here', word |-> 17 - pc'.at]
    BY <1>1, <1>5, <1>11, <2>1
  <2>3. OnRegsArea(17 - pc.at)'
    BY <1>2, <1>6, <2>1, <2>2 DEF OnRegsArea
  <2>4. ExitInv'
    BY <1>1, <1>6, <1>10, <1>11, <2>1, <2>3 DEF ExitInv, Pushed
  <2> QED
    BY <1>11, <2>1, <2>4 DEF PositionInv
<1> QED
  BY <1>12, <1>13, <1>14 DEF SwitchInv

\* A pop of the entry loads the next register from guest_regs.
LEMMA PopAreaKeeps ==
  ASSUME SwitchInv, Pop, pc.fn = "vmx_entry"
  PROVE  SwitchInv'
<1>1. pc.at \in 19..34 /\ Reg = restore_regs_from_stack[pc.at - 18]
  BY Decode DEF Pop
<1>2. self \in Vcpus /\ launched[self] /\ OnRegsArea(pc.at - 19)
  BY <1>1 DEF SwitchInv, PositionInv, EntryInv
<1>3. /\ rsp = [area |-> Here, word |-> pc.at - 19] /\ rsp.area = Here
      /\ rsp.word = pc.at - 19
      /\ Here \in Places /\ rsp.area # Host /\ mem \in [Places -> [Words -> Values]]
  BY <1>1, <1>2, AreaFacts
<1>4. cpu \in [Regs -> Values] /\ pc \in [fn : Functions, at : Int]
  BY DEF SwitchInv, SwitchTypeOK
<1>5. rsp.word \in Words
  BY <1>1, <1>3 DEF Words
<1>6. /\ cpu' = IF Reg = "skip" THEN cpu ELSE [cpu EXCEPT ![Reg] = mem[Here][pc.at - 19]]
      /\ stack' = stack
      /\ rsp' = [rsp EXCEPT !.word = @ + 1]
      /\ pc' = [pc EXCEPT !.at = @ + 1]
      /\ UNCHANGED <<mem, top, vmcs, place, launched, self, strays>>
  BY <1>3, <1>5 DEF Pop, Next_pc
<1>7. rsp' = [area |-> Here, word |-> pc.at - 18]
  BY <1>1, <1>3, <1>6
<1>8. pc' = [fn |-> "vmx_entry", at |-> pc.at + 1] /\ pc'.fn = "vmx_entry" /\ pc'.at = pc.at + 1
  BY <1>4, <1>6
<1>9. SwitchTypeOK'
  <2>1. pc' \in [fn : Functions, at : Int] /\ rsp' \in [area : Places \cup {Host}, word : Int]
    BY <1>1, <1>3, <1>7, <1>8 DEF Functions
  <2>2. mem[Here][pc.at - 19] \in Values
    BY <1>3, <1>5
  <2>3. cpu' \in [Regs -> Values]
    BY <1>4, <1>6, <2>2, Zenon
  <2> QED
    BY <1>6, <2>1, <2>3 DEF SwitchInv, SwitchTypeOK, vmcs
<1>10. LinkInv'
  BY <1>6, LinksKept DEF vmcs
<1>11. PositionInv'
  <2>1. Here' = Here /\ self' \in Vcpus /\ launched'[self']
    BY <1>2, <1>6 DEF Here
  <2>2. rsp' = [area |-> Here', word |-> pc'.at - 19]
    BY <1>1, <1>7, <1>8, <2>1
  <2>3. OnRegsArea(pc.at - 19)'
    BY <1>2, <1>6, <2>1, <2>2 DEF OnRegsArea
  <2>4. EntryInv'
    BY <1>1, <1>8, <2>3 DEF EntryInv
  <2> QED
    BY <1>8, <2>1, <2>4 DEF PositionInv
<1> QED
  BY <1>9, <1>10, <1>11 DEF SwitchInv

\* What a pop of the exit takes off the host's stack.
LEMMA PopHostFacts ==
  ASSUME SwitchInv, Pop, pc.fn = "vmx_exit"
  PROVE  /\ pc.at \in 18..33 /\ Reg = restore_regs_from_stack[pc.at - 17]
         /\ self \in Vcpus /\ launched[self]
         /\ rsp.area = Host /\ rsp' = [area |-> Host, word |-> 34 - pc.at]
         /\ Len(stack) = 35 - pc.at /\ stack[1] = Return
         /\ stack[35 - pc.at] \in Values
         /\ stack' \in Seq(Values) /\ Len(stack') = 34 - pc.at
         /\ \A i \in 1..(34 - pc.at) : stack'[i] = stack[i]
         /\ cpu' = IF Reg = "skip" THEN cpu ELSE [cpu EXCEPT ![Reg] = stack[35 - pc.at]]
         /\ pc' = [fn |-> "vmx_exit", at |-> pc.at + 1]
         /\ pc'.fn = "vmx_exit" /\ pc'.at = pc.at + 1
         /\ UNCHANGED <<mem, top, vmcs, place, launched, self, strays>>
<1>1. pc.at \in 18..33 /\ Reg = restore_regs_from_stack[pc.at - 17]
  BY Decode DEF Pop
<1>2. self \in Vcpus /\ launched[self] /\ OnHostStack(35 - pc.at)
  BY <1>1 DEF SwitchInv, PositionInv, ExitInv
<1>3. /\ rsp = [area |-> Host, word |-> 35 - pc.at] /\ rsp.area = Host
      /\ Len(stack) = 35 - pc.at /\ stack[1] = Return
  BY <1>1, <1>2, SMTT(30) DEF OnHostStack
<1>4. stack \in Seq(Values) /\ pc \in [fn : Functions, at : Int]
  BY DEF SwitchInv, SwitchTypeOK
<1>5. stack # << >>
  <2>1. Len(stack) # 0
    BY <1>1, <1>3, SMTT(30)
  <2> QED
    BY <2>1, EmptySequence
<1>6. /\ stack' = BelowTop
      /\ cpu' = IF Reg = "skip" THEN cpu ELSE [cpu EXCEPT ![Reg] = StackTop]
      /\ rsp' = [rsp EXCEPT !.word = @ - 1]
      /\ pc' = [pc EXCEPT !.at = @ + 1]
      /\ UNCHANGED <<mem, top, vmcs, place, launched, self, strays>>
  BY <1>3, <1>5 DEF Pop, Next_pc
<1>7. /\ BelowTop \in Seq(Values) /\ Len(BelowTop) = Len(stack) - 1
      /\ \A i \in 1..(Len(stack) - 1) : BelowTop[i] = stack[i]
      /\ StackTop = stack[Len(stack)] /\ StackTop \in Values
  BY <1>4, <1>5, PopProperties, Zenon
<1>8. Len(stack) - 1 = 34 - pc.at /\ 35 - pc.at - 1 = 34 - pc.at
  <2>1. pc.at \in 18..33 /\ Len(stack) = 35 - pc.at
    BY <1>1, <1>3
  <2>2. \A k \in 18..33 : 35 - k - 1 = 34 - k
    OBVIOUS
  <2> QED
    BY <2>1, <2>2, Zenon
<1>9. rsp' = [area |-> Host, word |-> 34 - pc.at]
  <2>1. rsp = [area |-> Host, word |-> 35 - pc.at] /\ rsp' = [rsp EXCEPT !.word = @ - 1]
    BY <1>3, <1>6
  <2> QED
    BY <1>8, <2>1
<1>10. pc' = [fn |-> "vmx_exit", at |-> pc.at + 1] /\ pc'.fn = "vmx_exit" /\ pc'.at = pc.at + 1
  BY <1>4, <1>6
<1>11. /\ stack' \in Seq(Values) /\ Len(stack') = 34 - pc.at
       /\ \A i \in 1..(34 - pc.at) : stack'[i] = stack[i]
  BY <1>6, <1>7, <1>8, Zenon
<1>12. /\ stack[35 - pc.at] \in Values
       /\ cpu' = IF Reg = "skip" THEN cpu ELSE [cpu EXCEPT ![Reg] = stack[35 - pc.at]]
  BY <1>3, <1>6, <1>7, Zenon
<1> QED
  BY <1>1, <1>2, <1>3, <1>6, <1>9, <1>10, <1>11, <1>12, Zenon

\* A pop of the exit takes the next register off the host's stack.
LEMMA PopHostKeeps ==
  ASSUME SwitchInv, Pop, pc.fn = "vmx_exit"
  PROVE  SwitchInv'
<1>1. pc.at \in 18..33
  BY PopHostFacts
<1>2. SwitchTypeOK'
  <2>1. /\ pc' \in [fn : Functions, at : Int]
        /\ rsp' \in [area : Places \cup {Host}, word : Int]
    <3>1. /\ pc' = [fn |-> "vmx_exit", at |-> pc.at + 1]
          /\ rsp' = [area |-> Host, word |-> 34 - pc.at]
      BY PopHostFacts, Zenon
    <3> QED
      BY <1>1, <3>1 DEF Functions
  <2>2. cpu' \in [Regs -> Values]
    <3>1. /\ cpu' = IF Reg = "skip" THEN cpu ELSE [cpu EXCEPT ![Reg] = stack[35 - pc.at]]
          /\ stack[35 - pc.at] \in Values
      BY PopHostFacts, Zenon
    <3>2. cpu \in [Regs -> Values]
      BY DEF SwitchInv, SwitchTypeOK
    <3> QED
      BY <3>1, <3>2, Zenon
  <2>3. stack' \in Seq(Values) /\ UNCHANGED <<mem, top, vmcs, place, launched, self>>
    BY PopHostFacts, Zenon
  <2> QED
    BY <2>1, <2>2, <2>3 DEF SwitchInv, SwitchTypeOK, vmcs
<1>3. LinkInv'
  <2>1. UNCHANGED <<vmcs, place, launched, strays>>
    BY PopHostFacts, Zenon
  <2> QED
    BY <2>1, LinksKept DEF vmcs
<1>4. PositionInv'
  <2>1. /\ pc'.fn = "vmx_exit" /\ pc'.at = pc.at + 1 /\ UNCHANGED <<self, launched>>
        /\ self \in Vcpus /\ launched[self]
        /\ rsp' = [area |-> Host, word |-> 34 - pc.at] /\ Len(stack') = 34 - pc.at
        /\ stack[1] = Return
        /\ \A i \in 1..(34 - pc.at) : stack'[i] = stack[i]
    BY PopHostFacts, Zenon
  <2>2. pc'.at \in 19..34 /\ 35 - pc'.at = 34 - pc.at /\ 1 \in 1..(34 - pc.at)
    <3>1. pc'.at = pc.at + 1
      BY <2>1
    <3> QED
      BY <1>1, <3>1
  <2>3. stack'[1] = Return /\ Return' = Return
    BY <2>1, <2>2, Zenon DEF Return, Token
  <2>4. rsp' = [area |-> Host, word |-> 35 - pc'.at] /\ Len(stack') = 35 - pc'.at
    BY <2>1, <2>2, Zenon
  <2>5. OnHostStack(35 - pc.at)'
    BY <2>3, <2>4, Zenon DEF OnHostStack
  <2>6. ExitInv'
    <3>1. /\ ~(pc'.at <= 17) /\ pc'.at \in 1..34
      BY <2>2
    <3> QED
      BY <2>5, <3>1, Zenon DEF ExitInv
  <2> QED
    BY <2>1, <2>6 DEF PositionInv
<1> QED
  BY <1>2, <1>3, <1>4 DEF SwitchInv

\* The two moves of the entry link the VmxVcpu to the host's stack and turn to it.
LEMMA EntryMovesKeep ==
  ASSUME SwitchInv, StoreTop \/ UseRegsArea
  PROVE  SwitchInv'
<1>1. /\ pc.fn = "vmx_entry" /\ pc.at \in 17..18
      /\ StoreTop => pc.at = 17
      /\ UseRegsArea => pc.at = 18
  BY Decode DEF StoreTop, UseRegsArea
<1>2. self \in Vcpus /\ launched[self] /\ EntryInv
  BY <1>1 DEF SwitchInv, PositionInv
<1>3. /\ OnHostStack(17) /\ Here \in Places
      /\ \A r \in Regs : Pushed(r, pc.at) => stack[17 - Offset(r)] = cpu[r]
  BY <1>1, <1>2 DEF EntryInv, SwitchInv, SwitchTypeOK, Here
<1>4. rsp = [area |-> Host, word |-> 17] /\ Len(stack) = 17 /\ stack[1] = Return
  BY <1>3 DEF OnHostStack
<1>5. /\ UNCHANGED <<cpu, stack, mem, vmcs, place, launched, self, strays>>
      /\ pc' = [pc EXCEPT !.at = @ + 1] /\ pc \in [fn : Functions, at : Int]
      /\ StoreTop => UNCHANGED rsp /\ top' = [top EXCEPT ![Here] = 17]
      /\ UseRegsArea => UNCHANGED top /\ rsp' = [area |-> Here, word |-> 0]
  BY <1>4 DEF StoreTop, UseRegsArea, Next_pc, SwitchInv, SwitchTypeOK
<1>6. /\ pc' = [fn |-> "vmx_entry", at |-> pc.at + 1]
      /\ pc'.fn = "vmx_entry" /\ pc'.at = pc.at + 1
  BY <1>1, <1>5
<1>7. SwitchTypeOK'
  <2>1. /\ pc' \in [fn : Functions, at : Int]
        /\ rsp' \in [area : Places \cup {Host}, word : Int]
        /\ top' \in [Places -> Int]
    <3>1. pc' \in [fn : Functions, at : Int]
      BY <1>1, <1>6 DEF Functions
    <3>2. rsp' \in [area : Places \cup {Host}, word : Int]
      BY <1>3, <1>5 DEF SwitchInv, SwitchTypeOK
    <3>3. top' \in [Places -> Int]
      BY <1>3, <1>5 DEF SwitchInv, SwitchTypeOK
    <3> QED
      BY <3>1, <3>2, <3>3
  <2> QED
    BY <1>5, <2>1 DEF SwitchInv, SwitchTypeOK, vmcs
<1>8. LinkInv'
  BY <1>5, LinksKept DEF vmcs
<1>9. PositionInv'
  <2>1. Here' = Here /\ self' \in Vcpus /\ launched'[self']
    BY <1>2, <1>5 DEF Here
  <2>2. top'[Here] = 17
    <3>1. CASE StoreTop
      BY <1>3, <1>5, <3>1 DEF SwitchInv, SwitchTypeOK
    <3>2. CASE UseRegsArea
      BY <1>1, <1>2, <1>5, <3>2 DEF EntryInv
    <3> QED
      BY <3>1, <3>2
  <2>3. CASE StoreTop
    <3>1. OnHostStack(17)'
      BY <1>3, <1>5, <2>3 DEF OnHostStack
    <3>2. \A r \in Regs : Pushed(r, 18) => stack'[17 - Offset(r)] = cpu'[r]
      <4>1. \A r \in Regs : Pushed(r, 17)
        BY RegisterPlaces DEF Pushed
      <4> QED
        BY <1>1, <1>3, <1>5, <2>3, <4>1
    <3>3. pc'.at = 18
      BY <1>1, <1>6, <2>3
    <3>4. EntryInv'
      BY <2>1, <2>2, <3>1, <3>2, <3>3 DEF EntryInv, Pushed
    <3> QED
      BY <1>6, <2>1, <3>4 DEF PositionInv
  <2>4. CASE UseRegsArea
    <3>1. pc'.at = 19
      BY <1>1, <1>6, <2>4
    <3>2. OnRegsArea(0)'
      BY <1>4, <1>5, <2>1, <2>2, <2>4 DEF OnRegsArea
    <3>3. EntryInv'
      BY <3>1, <3>2 DEF EntryInv
    <3> QED
      BY <1>6, <2>1, <3>3 DEF PositionInv
  <2> QED
    BY <2>3, <2>4
<1> QED
  BY <1>7, <1>8, <1>9 DEF SwitchInv

\* vmx_exit finds the host's stack where the entry left it.
LEMMA LoadTopKeeps ==
  ASSUME SwitchInv, LoadTop
  PROVE  SwitchInv'
<1>1. pc.fn = "vmx_exit" /\ pc.at = 17
  BY Decode DEF LoadTop
<1>2. self \in Vcpus /\ launched[self] /\ OnRegsArea(0)
  BY <1>1 DEF SwitchInv, PositionInv, ExitInv
<1>3. rsp.area = Here /\ top[Here] = 17 /\ Len(stack) = 17 /\ stack[1] = Return
  BY <1>2 DEF OnRegsArea
<1>4. /\ rsp' = [area |-> Host, word |-> 17] /\ pc' = [pc EXCEPT !.at = @ + 1]
      /\ UNCHANGED <<cpu, stack, mem, top, vmcs, place, launched, self, strays>>
  BY <1>3 DEF LoadTop, Next_pc
<1>5. pc' = [fn |-> "vmx_exit", at |-> 18] /\ pc'.fn = "vmx_exit" /\ pc'.at = 18
  <2>1. pc \in [fn : Functions, at : Int]
    BY DEF SwitchInv, SwitchTypeOK
  <2> QED
    BY <1>1, <1>4, <2>1
<1>6. SwitchTypeOK'
  <2>1. pc' \in [fn : Functions, at : Int]
    BY <1>5 DEF Functions
  <2>2. rsp' \in [area : Places \cup {Host}, word : Int]
    BY <1>4
  <2> QED
    BY <1>4, <2>1, <2>2 DEF SwitchInv, SwitchTypeOK, vmcs
<1>7. LinkInv'
  BY <1>4, LinksKept DEF vmcs
<1>8. PositionInv'
  <2>1. OnHostStack(17)'
    BY <1>3, <1>4 DEF OnHostStack
  <2>2. ExitInv'
    BY <1>5, <2>1 DEF ExitInv
  <2> QED
    BY <1>2, <1>4, <1>5, <2>2 DEF PositionInv
<1> QED
  BY <1>6, <1>7, <1>8 DEF SwitchInv

\* The return pops inner_run's address off a stack that is then empty.
LEMMA RetKeeps ==
  ASSUME SwitchInv, Ret
  PROVE  SwitchInv'
<1>1. pc.fn = "vmx_exit" /\ pc.at = 34
  BY Decode DEF Ret
<1>2. OnHostStack(1)
  BY <1>1 DEF SwitchInv, PositionInv, ExitInv
<1>3. /\ rsp = [area |-> Host, word |-> 1] /\ Len(stack) = 1 /\ stack[1] = Return
      /\ stack \in Seq(Values)
  BY <1>2 DEF OnHostStack, SwitchInv, SwitchTypeOK
<1>4. stack # << >> /\ StackTop = Return
  <2>1. stack # << >>
    <3>1. Len(stack) # 0
      BY <1>3
    <3> QED
      BY <1>3, <3>1, EmptySequence, Zenon
  <2> QED
    BY <1>3, <2>1, PopProperties
<1>5. /\ stack' = BelowTop /\ rsp' = [rsp EXCEPT !.word = @ - 1]
      /\ pc' = [fn |-> "host", at |-> 1] /\ self' = Nothing
      /\ UNCHANGED <<cpu, mem, top, vmcs, place, launched, strays>>
  BY <1>3, <1>4 DEF Ret
<1>6. rsp' = [area |-> Host, word |-> 0]
  BY <1>3, <1>5
<1>7. stack' \in Seq(Values) /\ Len(stack') = 0
  BY <1>3, <1>4, <1>5, PopProperties
<1>8. SwitchTypeOK'
  <2>1. /\ pc' \in [fn : Functions, at : Int]
        /\ rsp' \in [area : Places \cup {Host}, word : Int]
        /\ self' \in Vcpus \cup {Nothing}
    <3>1. pc' = [fn |-> "host", at |-> 1] /\ self' = Nothing
      BY <1>5
    <3>2. pc' \in [fn : Functions, at : Int]
      BY <3>1 DEF Functions
    <3>3. rsp' \in [area : Places \cup {Host}, word : Int]
      BY <1>6
    <3> QED
      BY <3>1, <3>2, <3>3
  <2>2. UNCHANGED <<cpu, mem, top, vmcs, place, launched>>
    BY <1>5
  <2> QED
    BY <1>7, <2>1, <2>2 DEF SwitchInv, SwitchTypeOK, vmcs
<1>9. LinkInv'
  BY <1>5, LinksKept DEF vmcs
<1>10. PositionInv'
  <2>1. pc'.fn = "host" /\ self' = Nothing
    BY <1>5
  <2>2. OnHostStack(0)'
    BY <1>6, <1>7 DEF OnHostStack
  <2> QED
    BY <2>1, <2>2 DEF PositionInv
<1> QED
  BY <1>8, <1>9, <1>10 DEF SwitchInv

\* The processor goes from the end of guest_regs into the guest, out of it or past it.
LEMMA TransitionKeeps ==
  ASSUME SwitchInv, self \in Vcpus, launched[self], OnRegsArea(16),
         \/ /\ UNCHANGED rsp
            /\ \E f \in {"guest", "vmx_entry_failed"} : pc' = [fn |-> f, at |-> 1]
         \/ rsp' = host_rsp[self] /\ pc' = [fn |-> "vmx_exit", at |-> 1],
         UNCHANGED <<cpu, stack, mem, top, vmcs, place, launched, self, strays>>
  PROVE  SwitchInv'
<1>1. /\ rsp = [area |-> Here, word |-> 16] /\ Here \in Places
      /\ host_rsp[self] = [area |-> Here, word |-> 16]
  <2>1. host_rsp[self] = [area |-> Here, word |-> 16]
    BY DEF SwitchInv, LinkInv, Here
  <2> QED
    BY <2>1, AreaFacts
<1>2. rsp' = rsp
  BY <1>1
<1>3. Here' = Here
  BY DEF Here
<1>4. OnRegsArea(16)'
  BY <1>2, <1>3 DEF OnRegsArea
<1>5. PICK f \in {"guest", "vmx_entry_failed", "vmx_exit"} : pc' = [fn |-> f, at |-> 1]
  OBVIOUS
<1>6. pc' \in [fn : Functions, at : Int] /\ pc'.fn = f /\ pc'.at = 1
  BY <1>5 DEF Functions
<1>7. SwitchTypeOK'
  BY <1>2, <1>6 DEF SwitchInv, SwitchTypeOK, vmcs
<1>8. LinkInv'
  BY LinksKept DEF vmcs
<1>9. PositionInv'
  <2>1. \A r \in Regs : ~Pushed(r, 1)
    BY RegisterPlaces DEF Pushed
  <2>2. f = "vmx_exit" => ExitInv'
    BY <1>4, <1>6, <2>1 DEF ExitInv
  <2> QED
    BY <1>4, <1>6, <2>2 DEF PositionInv
<1> QED
  BY <1>7, <1>8, <1>9 DEF SwitchInv

\* An entry and an exit keep the invariant, whether or not the guest state is accepted.
LEMMA EntryExitKeep ==
  ASSUME SwitchInv, VmEntry \/ VmExit
  PROVE  SwitchInv'
<1>1. self \in Vcpus /\ launched[self] /\ OnRegsArea(16)
  <2>1. CASE VmEntry
    <3>1. pc.fn = "vmx_entry" /\ pc.at = 35
      BY <2>1, Decode DEF VmEntry
    <3>2. OnRegsArea(pc.at - 19) /\ self \in Vcpus /\ launched[self]
      BY <3>1 DEF SwitchInv, PositionInv, EntryInv
    <3>3. pc.at - 19 = 16
      BY <3>1, SMTT(30)
    <3> QED
      BY <3>2, <3>3
  <2>2. CASE VmExit
    BY <2>2 DEF VmExit, SwitchInv, PositionInv
  <2> QED
    BY <2>1, <2>2
<1>2. \/ /\ UNCHANGED rsp
         /\ \E f \in {"guest", "vmx_entry_failed"} : pc' = [fn |-> f, at |-> 1]
      \/ rsp' = host_rsp[self] /\ pc' = [fn |-> "vmx_exit", at |-> 1]
  BY DEF VmEntry, VmExit
<1>3. UNCHANGED <<cpu, stack, mem, top, vmcs, place, launched, self, strays>>
  BY DEF VmEntry, VmExit
<1> QED
  BY <1>1, <1>2, <1>3, TransitionKeeps

\* The guest changes no more than its registers.
LEMMA GuestKeeps ==
  ASSUME SwitchInv, GuestRuns
  PROVE  SwitchInv'
<1>1. /\ pc.fn = "guest" /\ self \in Vcpus /\ launched[self] /\ OnRegsArea(16)
  BY DEF GuestRuns, SwitchInv, PositionInv
<1>2. UNCHANGED <<rsp, stack, mem, top, host_rsp, place, launched, self, pc, strays>>
  BY DEF GuestRuns
<1>3. cpu' \in [Regs -> Values] /\ guest_rsp' \in [Vcpus -> Values]
  <2>1. \A r \in Regs \cup {"rsp"} : Token(self, r) \in Values
    BY <1>1, TokensAreValues, Zenon DEF Tokens
  <2> QED
    BY <1>1, <2>1 DEF GuestRuns, SwitchInv, SwitchTypeOK
<1>4. SwitchTypeOK'
  BY <1>2, <1>3 DEF SwitchInv, SwitchTypeOK
<1>5. LinkInv'
  BY <1>2, LinksKept
<1>6. PositionInv'
  <2>1. OnRegsArea(16)'
    BY <1>1, <1>2 DEF OnRegsArea, Here
  <2> QED
    BY <1>1, <1>2, <2>1 DEF PositionInv
<1> QED
  BY <1>4, <1>5, <1>6 DEF SwitchInv

\* An interrupt that pushes on a VmxVcpu overwrites words below RSP only, and not
\* the host's frame.
LEMMA ClobberFacts ==
  ASSUME SwitchInv, NEW n \in Int, NEW w \in Int, OnRegsArea(w), self \in Vcpus,
         mem' = [mem EXCEPT ![rsp.area] =
                   [x \in Words |-> IF x \in (rsp.word - n)..(rsp.word - 1) THEN Junk ELSE @[x]]]
  PROVE  /\ mem' \in [Places -> [Words -> Values]]
         /\ \A x \in Words : x >= w => mem'[Here][x] = mem[Here][x]
         /\ \A p \in Places : p # Here => mem'[p] = mem[p]
<1>1. /\ rsp.area = Here /\ rsp.word = w /\ Here \in Places
      /\ mem \in [Places -> [Words -> Values]]
  BY AreaFacts
<1>2. Junk \in Values
  BY TokensAreValues
<1>3. mem' = [mem EXCEPT ![Here] =
                [x \in Words |-> IF x \in (w - n)..(w - 1) THEN Junk ELSE @[x]]]
  BY <1>1
<1>4. mem' \in [Places -> [Words -> Values]]
  BY <1>1, <1>2, <1>3
<1>5. \A x \in Words : x >= w => mem'[Here][x] = mem[Here][x]
  BY <1>1, <1>3 DEF Words
<1>6. \A p \in Places : p # Here => mem'[p] = mem[p]
  BY <1>1, <1>3
<1> QED
  BY <1>4, <1>5, <1>6

\* Where RSP is when an interrupt of the host pushes on a VmxVcpu.
LEMMA InterruptedWhere ==
  ASSUME SwitchInv, InSwitch, rsp.area # Host
  PROVE  /\ self \in Vcpus /\ launched[self]
         /\ \/ pc.fn = "vmx_entry" /\ pc.at \in 19..35 /\ OnRegsArea(pc.at - 19)
            \/ pc.fn = "vmx_exit" /\ pc.at \in 1..17 /\ OnRegsArea(17 - pc.at)
<1>1. \A k : OnHostStack(k) => rsp.area = Host
  BY DEF OnHostStack
<1>2. pc.fn = "vmx_entry" \/ pc.fn = "vmx_exit"
  BY DEF InSwitch, Code
<1>3. CASE pc.fn = "vmx_entry"
  <2>1. EntryInv /\ self \in Vcpus /\ launched[self]
    BY <1>3 DEF SwitchInv, PositionInv
  <2>2. pc.at \in 1..35 /\ ~(pc.at <= 18)
    BY <1>1, <2>1 DEF EntryInv
  <2> QED
    BY <1>3, <2>1, <2>2 DEF EntryInv
<1>4. CASE pc.fn = "vmx_exit"
  <2>1. ExitInv /\ self \in Vcpus /\ launched[self]
    BY <1>4 DEF SwitchInv, PositionInv
  <2>2. pc.at \in 1..34 /\ ~(pc.at >= 18)
    BY <1>1, <2>1 DEF ExitInv
  <2> QED
    BY <1>4, <2>1, <2>2 DEF ExitInv
<1> QED
  BY <1>2, <1>3, <1>4

\* An interrupt of the host inside the switch keeps all that is saved.
LEMMA InterruptKeeps ==
  ASSUME SwitchInv, NEW n \in FrameSizes, HostInterrupt(n)
  PROVE  SwitchInv'
<1>1. /\ InSwitch /\ rsp.area # Host /\ n \in Int
      /\ UNCHANGED <<cpu, rsp, stack, top, vmcs, place, launched, self, pc>>
      /\ "switch" \in strays' => "switch" \in strays
  BY InputsAssumption DEF HostInterrupt, Clobber
<1>2. mem' = [mem EXCEPT ![rsp.area] =
                [x \in Words |-> IF x \in (rsp.word - n)..(rsp.word - 1) THEN Junk ELSE @[x]]]
  BY DEF HostInterrupt, Clobber
<1>3. /\ self \in Vcpus /\ launched[self]
      /\ \/ pc.fn = "vmx_entry" /\ pc.at \in 19..35 /\ OnRegsArea(pc.at - 19)
         \/ pc.fn = "vmx_exit" /\ pc.at \in 1..17 /\ OnRegsArea(17 - pc.at)
  BY <1>1, InterruptedWhere
<1>4. Here' = Here
  BY <1>1 DEF Here
<1>5. LinkInv'
  BY <1>1, LinksKept, SMTT(30) DEF vmcs
<1>6. \A w \in Int : OnRegsArea(w) =>
        /\ OnRegsArea(w)'
        /\ mem' \in [Places -> [Words -> Values]]
        /\ \A x \in Words : x >= w => mem'[Here][x] = mem[Here][x]
  <2> SUFFICES ASSUME NEW w \in Int, OnRegsArea(w)
               PROVE  /\ OnRegsArea(w)'
                      /\ mem' \in [Places -> [Words -> Values]]
                      /\ \A x \in Words : x >= w => mem'[Here][x] = mem[Here][x]
    OBVIOUS
  <2>1. OnRegsArea(w)'
    BY <1>1, <1>4 DEF OnRegsArea
  <2> QED
    BY <1>1, <1>2, <1>3, <2>1, ClobberFacts
<1>7. mem' \in [Places -> [Words -> Values]]
  BY <1>3, <1>6
<1>8. SwitchTypeOK'
  BY <1>1, <1>7 DEF SwitchInv, SwitchTypeOK, vmcs
<1>9. PositionInv'
  <2>1. CASE pc.fn = "vmx_entry" /\ pc.at \in 19..35 /\ OnRegsArea(pc.at - 19)
    <3>1. OnRegsArea(pc.at - 19)'
      BY <1>1, <1>4, <2>1 DEF OnRegsArea
    <3>2. EntryInv'
      BY <1>1, <2>1, <3>1 DEF EntryInv
    <3> QED
      BY <1>1, <1>3, <2>1, <3>2 DEF PositionInv
  <2>2. CASE pc.fn = "vmx_exit" /\ pc.at \in 1..17 /\ OnRegsArea(17 - pc.at)
    <3>1. OnRegsArea(17 - pc.at)'
      BY <1>1, <1>4, <2>2 DEF OnRegsArea
    <3>2. \A r \in Regs : Pushed(r, pc.at) => mem'[Here][Offset(r)] = cpu[r]
      <4> SUFFICES ASSUME NEW r \in Regs, Pushed(r, pc.at)
                   PROVE  mem'[Here][Offset(r)] = cpu[r]
        OBVIOUS
      <4>1. Offset(r) \in Words /\ Offset(r) >= 17 - pc.at /\ 17 - pc.at \in Int
        BY <2>2, RegisterPlaces DEF Pushed, Words
      <4>2. mem[Here][Offset(r)] = cpu[r]
        BY <2>2 DEF SwitchInv, PositionInv, ExitInv
      <4> QED
        BY <1>6, <2>2, <4>1, <4>2
    <3>3. ExitInv'
      BY <1>1, <1>4, <2>2, <3>1, <3>2 DEF ExitInv, Pushed
    <3> QED
      BY <1>1, <1>3, <2>2, <3>3 DEF PositionInv
  <2> QED
    BY <1>3, <2>1, <2>2
<1> QED
  BY <1>5, <1>8, <1>9 DEF SwitchInv

\* The panic of vmx_entry_failed spoils guest_regs, but neither the stack nor the links.
LEMMA EntryFailedKeeps ==
  ASSUME SwitchInv, vmx_entry_failed
  PROVE  SwitchInv'
<1>1. /\ self \in Vcpus /\ OnRegsArea(16)
  BY DEF vmx_entry_failed, SwitchInv, PositionInv
<1>2. rsp.word + 1 \in Int
  BY DEF SwitchInv, SwitchTypeOK
<1>3. /\ UNCHANGED <<cpu, rsp, stack, top, vmcs, place, launched, self>>
      /\ pc' = [fn |-> "panic", at |-> 1]
      /\ "switch" \in strays' => "switch" \in strays
  BY DEF vmx_entry_failed, Clobber
<1>4. mem' \in [Places -> [Words -> Values]]
  BY <1>1, <1>2, ClobberFacts DEF vmx_entry_failed, Clobber
<1>5. pc' \in [fn : Functions, at : Int] /\ pc'.fn = "panic"
  BY <1>3, SMTT(30) DEF Functions
<1>6. SwitchTypeOK'
  BY <1>3, <1>4, <1>5, Zenon DEF SwitchInv, SwitchTypeOK, vmcs
<1>7. LinkInv'
  BY <1>3, LinksKept DEF vmcs
<1>8. PositionInv'
  BY <1>5 DEF PositionInv
<1> QED
  BY <1>6, <1>7, <1>8 DEF SwitchInv

\* Every step keeps SwitchInv.
LEMMA SwitchStep ==
  ASSUME SwitchInv, [Next]_wsVars
  PROVE  SwitchInv'
<1>1. ASSUME UNCHANGED wsVars PROVE SwitchInv'
  BY <1>1 DEF wsVars, machine, vmcs, SwitchInv, SwitchTypeOK, LinkInv, PositionInv,
     EntryInv, ExitInv, OnHostStack, OnRegsArea, Here
<1>2. ASSUME NEW v \in Vcpus,
             \/ Move(v) \/ unbind(v) \/ inner_run(v) \/ set_return_value(v) \/ set_stack_pointer(v)
             \/ \E i \in Indices : set_gpr(v, i)
             \/ \E r \in WriteRegs, p \in DOMAIN Parts : set_sub_register(v, r, p)
      PROVE  SwitchInv'
  BY <1>2, MoveKeeps, HostKeeps, InnerRunKeeps, Zenon
<1>3. ASSUME Push \/ Pop PROVE SwitchInv'
  <2>1. pc.fn = "vmx_entry" \/ pc.fn = "vmx_exit"
    BY <1>3, Decode DEF Push, Pop
  <2> QED
    BY <1>3, <2>1, PushHostKeeps, PushAreaKeeps, PopAreaKeeps, PopHostKeeps, Zenon
<1>4. ASSUME StoreTop \/ UseRegsArea \/ LoadTop \/ Ret PROVE SwitchInv'
  BY <1>4, EntryMovesKeep, LoadTopKeeps, RetKeeps, Zenon
<1>5. ASSUME VmEntry \/ GuestRuns \/ VmExit PROVE SwitchInv'
  BY <1>5, EntryExitKeep, GuestKeeps, Zenon
<1>6. ASSUME NEW n \in FrameSizes, HostInterrupt(n) PROVE SwitchInv'
  BY <1>6, InterruptKeeps
<1>7. ASSUME vmx_entry_failed PROVE SwitchInv'
  BY <1>7, EntryFailedKeeps
<1> QED
  BY <1>1, <1>2, <1>3, <1>4, <1>5, <1>6, <1>7, ZenonT(30) DEF Next, Panicked

-----------------------------------------------------------------------------
(* The properties *)

\* At every instruction of the switch RSP, the host's stack and what has been saved
\* are as SwitchInv says.
THEOREM SwitchCorrect == Spec => []SwitchInv
BY SwitchInit, SwitchStep, PTL DEF Spec

\* The switch returns to inner_run with the stack pointer it was called with, and
\* what it writes stays in guest_regs and in the host's stack, for any number of
\* virtual processors and any interrupts.
THEOREM SwitchAlwaysBalanced == Spec => []SwitchIsBalanced
<1>1. SwitchInv => SwitchIsBalanced
  <2> SUFFICES ASSUME SwitchInv PROVE SwitchIsBalanced
    OBVIOUS
  <2>1. "switch" \notin strays
    BY DEF SwitchInv, LinkInv
  <2>2. pc.fn # "lost"
    BY DEF SwitchInv, SwitchTypeOK, Functions
  <2>3. InHost => rsp = [area |-> Host, word |-> 0] /\ Len(stack) = 0
    BY DEF InHost, SwitchInv, PositionInv, OnHostStack
  <2>4. Len(stack) = 0 => stack = << >>
    BY EmptySequence DEF SwitchInv, SwitchTypeOK
  <2> QED
    BY <2>1, <2>2, <2>3, <2>4 DEF SwitchIsBalanced
<1> QED
  BY <1>1, SwitchCorrect, PTL

\* After an exit, handle_cr reads for every register number what the guest, or an
\* accessor since, left in the register the processor numbers so.
THEOREM OperandAlwaysGuests == Spec => []OperandIsGuests
<1>1. SwitchInv => OperandIsGuests
  <2> SUFFICES ASSUME SwitchInv, InHost, NEW v \in Vcpus, NEW i \in 0..15
               PROVE  cr_operand(v, i) = GuestBank(v)[Encoding[i + 1]]
    BY DEF OperandIsGuests
  <2>1. v # self
    BY OwnersAssumption DEF SwitchInv, PositionInv, InHost
  <2>2. \A r \in Regs \cup {"rsp"} : GuestBank(v)[r] =
          IF r = "rsp" THEN guest_rsp[v] ELSE mem[place[v]][Offset(r)]
    BY <2>1 DEF GuestBank
  <2>3. CASE i = 4
    BY <2>2, <2>3, IndexedRegisters DEF cr_operand
  <2>4. CASE i # 4
    <3>1. reg_of_index(i) \in Regs /\ reg_of_index(i) = Encoding[i + 1] /\ "rsp" \notin Regs
      BY <2>4, IndexedRegisters
    <3> QED
      BY <2>2, <2>4, <3>1 DEF cr_operand
  <2> QED
    BY <2>3, <2>4
<1> QED
  BY <1>1, SwitchCorrect, PTL
=============================================================================
