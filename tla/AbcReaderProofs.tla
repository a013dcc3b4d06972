--------------------------- MODULE AbcReaderProofs ---------------------------
(***************************************************************************)
(* Proofs about AbcReader, for all programs, classes and lists of          *)
(* parameters that can be written.                                         *)
(***************************************************************************)
EXTENDS AbcReader, BinaryStreamProofs

-----------------------------------------------------------------------------
(* Instructions.                                                           *)

LEMMA OperandKinds ==
  ASSUME NEW op, op # Switch
  PROVE  /\ Operands(op) \in Seq(NumberKinds) /\ Len(Operands(op)) \in Nat
         /\ Format(op) \in Seq(NumberKinds)
<1> DEFINE Simple == {<<>>, <<"U30">>, <<"U30", "U30">>, <<"S24">>, <<"Byte">>,
                      <<"Byte", "U30", "Byte", "U30">>}
<1>1. Operands(op) \in Simple /\ Format(op) \in Simple
  BY Zenon DEF Operands, Format
<1>2. \A kinds \in Simple : kinds \in Seq(NumberKinds) /\ Len(kinds) \in Nat
  <2>1. <<>> \in Seq(NumberKinds) /\ Len(<<>>) \in Nat
    BY SMT
  <2>2. <<"U30">> \in Seq(NumberKinds) /\ Len(<<"U30">>) \in Nat
    BY SMT DEF NumberKinds
  <2>3. <<"U30", "U30">> \in Seq(NumberKinds) /\ Len(<<"U30", "U30">>) \in Nat
    BY SMT DEF NumberKinds
  <2>4. <<"S24">> \in Seq(NumberKinds) /\ Len(<<"S24">>) \in Nat
    BY SMT DEF NumberKinds
  <2>5. <<"Byte">> \in Seq(NumberKinds) /\ Len(<<"Byte">>) \in Nat
    BY SMT DEF NumberKinds
  <2>6. /\ <<"Byte", "U30", "Byte", "U30">> \in Seq(NumberKinds)
        /\ Len(<<"Byte", "U30", "Byte", "U30">>) \in Nat
    BY SMT DEF NumberKinds
  <2> QED BY <2>1, <2>2, <2>3, <2>4, <2>5, <2>6, Zenon
<1> HIDE DEF Simple
<1> QED BY <1>1, <1>2

(* The table of the library gives every instruction of the virtual machine *)
(* the operands that are written, but for two of its rows; and it has a    *)
(* row for each (instructions.h:250-463).                                  *)
THEOREM TableAgrees ==
  ASSUME NEW op \in Compiled \ WrongRows, op # Switch
  PROVE  op \in 0..255 /\ op \notin Unknown /\ Operands(op) = Format(op)
<1>1. op \in 0..255 /\ op \notin Unknown
  BY SMT DEF Compiled, WithNone, Branches, WithOne, WithTwo, Switch, PushByte, Debug, Unknown
<1>2. CASE op \in WithOne
  <2>1. /\ op \in WithOne /\ op \in OneU30 /\ op \notin WithTwo /\ op \notin TwoU30
        /\ op \notin Branches /\ op \notin \h0C..\h1A
        /\ op # \h24 /\ op # \hEF /\ op # PushByte /\ op # Debug
    BY <1>2, SMT DEF WithOne, WithTwo, WrongRows, OneU30, TwoU30, Branches, PushByte, Debug
  <2>2. Operands(op) = <<"U30">>
    BY <2>1, Zenon DEF Operands
  <2>3. Format(op) = <<"U30">>
    BY <2>1, Zenon DEF Format
  <2> QED BY <1>1, <2>2, <2>3
<1>3. CASE op \in WithTwo
  <2>1. /\ op \notin WithOne /\ op \notin OneU30 /\ op \in WithTwo /\ op \in TwoU30
        /\ op \notin Branches /\ op \notin \h0C..\h1A
        /\ op # \h24 /\ op # \hEF /\ op # PushByte /\ op # Debug
    BY <1>3, SMT DEF WithOne, WithTwo, WrongRows, OneU30, TwoU30, Branches, PushByte, Debug
  <2>2. Operands(op) = <<"U30", "U30">>
    BY <2>1, Zenon DEF Operands
  <2>3. Format(op) = <<"U30", "U30">>
    BY <2>1, Zenon DEF Format
  <2> QED BY <1>1, <2>2, <2>3
<1>4. CASE op \in Branches
  <2>1. /\ op \notin WithOne /\ op \notin OneU30 /\ op \notin WithTwo /\ op \notin TwoU30
        /\ op \in Branches /\ op \in \h0C..\h1A
        /\ op # \h24 /\ op # \hEF /\ op # PushByte /\ op # Debug
    BY <1>4, SMT DEF WithOne, WithTwo, WrongRows, OneU30, TwoU30, Branches, PushByte, Debug
  <2>2. Operands(op) = <<"S24">>
    BY <2>1, Zenon DEF Operands
  <2>3. Format(op) = <<"S24">>
    BY <2>1, Zenon DEF Format
  <2> QED BY <1>1, <2>2, <2>3
<1>5. ASSUME op \in WithNone \cup {PushByte, Debug}
      PROVE  /\ op \notin WithOne /\ op \notin OneU30 /\ op \notin TwoU30 /\ op \notin WithTwo
             /\ op \notin Branches /\ op \notin \h0C..\h1A
  BY <1>5, SMT DEF WithNone, WithOne, WithTwo, OneU30, TwoU30, Branches, PushByte, Debug
<1>6. CASE op \in WithNone
  <2>1. op # \h24 /\ op # \hEF /\ op # PushByte /\ op # Debug
    BY <1>6, SMT DEF WithNone, PushByte, Debug
  <2>2. Operands(op) = <<>>
    BY <1>5, <1>6, <2>1, Zenon DEF Operands
  <2>3. Format(op) = <<>>
    BY <1>5, <1>6, <2>1, Zenon DEF Format
  <2> QED BY <1>1, <2>2, <2>3
<1>7. CASE op = PushByte
  <2>1. op = \h24 /\ op # \hEF /\ op # Debug
    BY <1>7, SMT DEF PushByte, Debug
  <2>2. Operands(op) = <<"Byte">>
    BY <1>5, <1>7, <2>1, Zenon DEF Operands
  <2>3. Format(op) = <<"Byte">>
    BY <1>5, <1>7, <2>1, Zenon DEF Format
  <2> QED BY <1>1, <2>2, <2>3
<1>8. CASE op = Debug
  <2>1. op # \h24 /\ op = \hEF /\ op # PushByte
    BY <1>8, SMT DEF PushByte, Debug
  <2>2. Operands(op) = <<"Byte", "U30", "Byte", "U30">>
    BY <1>5, <1>8, <2>1, Zenon DEF Operands
  <2>3. Format(op) = <<"Byte", "U30", "Byte", "U30">>
    BY <1>5, <1>8, <2>1, Zenon DEF Format
  <2> QED BY <1>1, <2>2, <2>3
<1> QED BY <1>2, <1>3, <1>4, <1>6, <1>7, <1>8 DEF Compiled

LEMMA RowForEach ==
  ASSUME NEW op \in Compiled
  PROVE  op \notin Unknown
BY SMT DEF Compiled, WithNone, Branches, WithOne, WithTwo, Switch, PushByte, Debug, Unknown

InstructionOf(n) ==
  n \in [op : 0..255, args : Seq(Int)] /\ WellFormed(n)

Plain(n) == Written(Format(n.op), n.args)
Heading(n) == Written(<<"S24", "U30">>, <<n.args[1], Len(n.args) - 2>>)
Cases(n) == Written(All("S24", Len(n.args) - 1), Tail(n.args))

LEMMA PlainNumerals ==
  ASSUME NEW n, InstructionOf(n), n.op # Switch
  PROVE  Numerals(Format(n.op), n.args)
<1>1. n.args \in Seq(Int) /\ Format(n.op) \in Seq(NumberKinds)
  BY OperandKinds DEF InstructionOf
<1>2. /\ Len(n.args) = Len(Format(n.op))
      /\ \A k \in DOMAIN n.args : Numeral(Format(n.op)[k], n.args[k])
  BY DEF InstructionOf, WellFormed
<1>3. DOMAIN n.args = 1..Len(n.args)
  BY <1>1
<1> QED BY <1>1, <1>2, <1>3 DEF Numerals

LEMMA SwitchNumerals ==
  ASSUME NEW n, InstructionOf(n), n.op = Switch
  PROVE  /\ Numerals(<<"S24", "U30">>, <<n.args[1], Len(n.args) - 2>>)
         /\ Numerals(All("S24", Len(n.args) - 1), Tail(n.args))
         /\ n.args = <<n.args[1]>> \o Tail(n.args)
         /\ Len(n.args) \in Nat /\ Len(n.args) >= 2
<1>1. /\ n.args \in Seq(Int) /\ Len(n.args) \in Nat /\ Len(n.args) >= 2
      /\ Unsigned30(Len(n.args) - 2) /\ DOMAIN n.args = 1..Len(n.args)
  BY DEF InstructionOf, WellFormed
<1>2. \A k \in 1..Len(n.args) : Signed24(n.args[k])
  BY <1>1 DEF InstructionOf, WellFormed
<1> DEFINE args == n.args
           rest == Tail(args)
           kinds == <<"S24", "U30">>
           values == <<args[1], Len(args) - 2>>
<1>3. /\ rest \in Seq(Int) /\ Len(rest) = Len(args) - 1
      /\ \A k \in 1..Len(rest) : k + 1 \in 1..Len(args) /\ rest[k] = args[k + 1]
      /\ args = <<args[1]>> \o rest
  BY <1>1, SMT
<1>4. Numerals(All("S24", Len(rest)), rest)
  <2>1. \A k \in 1..Len(rest) : Numeral("S24", rest[k])
    BY <1>2, <1>3 DEF Numeral
  <2>2. "S24" \in NumberKinds
    BY DEF NumberKinds
  <2> QED BY <1>3, <2>1, <2>2, AllNumerals
<1>5. Numerals(kinds, values)
  <2>1. /\ kinds \in Seq(NumberKinds) /\ values \in Seq(Int) /\ Len(values) = Len(kinds)
        /\ Len(kinds) = 2 /\ kinds[1] = "S24" /\ kinds[2] = "U30"
        /\ values[1] = args[1] /\ values[2] = Len(args) - 2
    BY <1>1, SMT DEF NumberKinds
  <2>2. Numeral(kinds[1], values[1])
    <3>1. 1 \in 1..Len(args)
      BY <1>1, SMT
    <3> QED BY <1>2, <2>1, <3>1 DEF Numeral
  <2>3. Numeral(kinds[2], values[2])
    BY <1>1, <2>1 DEF Numeral
  <2>4. \A k \in 1..Len(kinds) : k = 1 \/ k = 2
    BY <2>1, SMT
  <2> HIDE DEF kinds, values
  <2> QED BY <2>1, <2>2, <2>3, <2>4 DEF Numerals
<1> QED BY <1>1, <1>3, <1>4, <1>5

LEMMA InstructionBytesType ==
  ASSUME NEW n, InstructionOf(n)
  PROVE  InstructionBytes(n) \in Bytes /\ Len(InstructionBytes(n)) \in Nat \ {0}
<1>1. <<n.op>> \in Bytes /\ Len(<<n.op>>) = 1 /\ n.op \in 0..255
  BY SMT DEF InstructionOf, Bytes
<1>2. ASSUME NEW rest \in Bytes
      PROVE  <<n.op>> \o rest \in Bytes /\ Len(<<n.op>> \o rest) \in Nat \ {0}
  <2>1. <<n.op>> \o rest \in Bytes /\ Len(<<n.op>> \o rest) = Len(<<n.op>>) + Len(rest)
        /\ Len(rest) \in Nat
    BY <1>1, Joined
  <2> QED BY <1>1, <2>1, SMT
<1>3. CASE n.op # Switch
  <2>1. Plain(n) \in Bytes
    BY <1>3, PlainNumerals, WrittenType DEF Plain
  <2>2. InstructionBytes(n) = <<n.op>> \o Plain(n)
    BY <1>3 DEF InstructionBytes, Plain
  <2> QED BY <1>2, <2>1, <2>2
<1>4. CASE n.op = Switch
  <2>1. Heading(n) \in Bytes /\ Cases(n) \in Bytes
    BY <1>4, SwitchNumerals, WrittenType DEF Heading, Cases
  <2>2. InstructionBytes(n) = <<n.op>> \o (Heading(n) \o Cases(n))
    BY <1>4 DEF InstructionBytes, Heading, Cases
  <2>3. Heading(n) \o Cases(n) \in Bytes
    BY <2>1, Joined
  <2> QED BY <1>2, <2>2, <2>3
<1> QED BY <1>3, <1>4

(* What was compiled is read, if its row of the table is not one of the    *)
(* two that are wrong (disassembler.cpp:35-89): its operands are written   *)
(* by the format of the virtual machine, and read by the table.            *)
THEOREM InstructionReadsBack ==
  ASSUME NEW n, InstructionOf(n), n.op \notin WrongRows, NEW p, LiesAt(InstructionBytes(n), p)
  PROVE  InstructionAt(p) = [op |-> n.op, args |-> n.args, position |-> p,
                             size |-> Len(InstructionBytes(n))]
<1>1. <<n.op>> \in Bytes /\ Len(<<n.op>>) = 1 /\ n.op \in 0..255 /\ <<n.op>>[1] = n.op
  BY SMT DEF InstructionOf, Bytes
<1>2. ASSUME NEW rest \in Bytes, InstructionBytes(n) = <<n.op>> \o rest
      PROVE  /\ Byte(p) = n.op /\ p \in Nat /\ LiesAt(rest, p + 1) /\ Len(rest) \in Nat
             /\ Len(InstructionBytes(n)) = 1 + Len(rest)
  <2>1. LiesAt(<<n.op>>, p) /\ LiesAt(rest, p + 1)
    BY <1>1, <1>2, LiesBoth
  <2>2. Len(InstructionBytes(n)) = 1 + Len(rest) /\ Len(rest) \in Nat
    BY <1>1, <1>2, Joined
  <2>3. p \in Nat
    BY <2>1 DEF LiesAt
  <2>4. Byte(p + 0) = <<n.op>>[0 + 1] /\ p + 0 = p /\ 0 + 1 = 1
    <3>1. 0 \in 0..Len(<<n.op>>) - 1 /\ p + 0 = p /\ 0 + 1 = 1
      BY <1>1, <2>3, SMT
    <3>2. \A k \in 0..Len(<<n.op>>) - 1 : Byte(p + k) = <<n.op>>[k + 1]
      BY <2>1, ByteLies
    <3> QED BY <3>1, <3>2, Zenon
  <2> QED BY <1>1, <2>1, <2>2, <2>3, <2>4
<1>3. ASSUME NEW rest \in Bytes, InstructionBytes(n) = <<n.op>> \o rest,
             ArgsAt(n.op, p + 1) = [v |-> n.args, next |-> (p + 1) + Len(rest)]
      PROVE  InstructionAt(p) = [op |-> n.op, args |-> n.args, position |-> p,
                                 size |-> Len(InstructionBytes(n))]
  <2>1. /\ Byte(p) = n.op /\ p \in Nat /\ Len(rest) \in Nat
        /\ Len(InstructionBytes(n)) = 1 + Len(rest)
    BY <1>2, <1>3
  <2>2. ((p + 1) + Len(rest)) - p = 1 + Len(rest)
    BY <2>1, SMT
  <2> DEFINE args == ArgsAt(n.op, p + 1)
  <2>3. args.v = n.args /\ args.next = (p + 1) + Len(rest)
    BY <1>3
  <2>4. InstructionAt(p) = [op |-> n.op, args |-> args.v, position |-> p,
                            size |-> args.next - p]
    BY <2>1, Zenon DEF InstructionAt
  <2> HIDE DEF args
  <2> QED BY <2>1, <2>2, <2>3, <2>4
<1>4. CASE n.op # Switch
  <2>1. Plain(n) \in Bytes
    BY <1>4, PlainNumerals, WrittenType DEF Plain
  <2>2. InstructionBytes(n) = <<n.op>> \o Plain(n)
    BY <1>4 DEF InstructionBytes, Plain
  <2>3. LiesAt(Plain(n), p + 1)
    BY <1>2, <2>1, <2>2
  <2>4. NumbersAt(Format(n.op), p + 1) = [v |-> n.args, next |-> (p + 1) + Len(Plain(n))]
    BY <1>4, <2>3, PlainNumerals, NumbersReadBack DEF Plain
  <2>5. ArgsAt(n.op, p + 1) = [v |-> n.args, next |-> (p + 1) + Len(Plain(n))]
    <3>1. n.op \in Compiled
      BY DEF InstructionOf, WellFormed
    <3>2. Operands(n.op) = Format(n.op)
      BY <1>4, <3>1, TableAgrees
    <3> QED BY <1>4, <2>4, <3>2, Zenon DEF ArgsAt
  <2> QED BY <1>3, <2>1, <2>2, <2>5
<1>5. CASE n.op = Switch
  <2> DEFINE a == Heading(n)
             b == Cases(n)
             count == Len(n.args) - 2
             rest == Tail(n.args)
             head == <<n.args[1], count>>
  <2>1. a \in Bytes /\ b \in Bytes /\ Len(a) \in Nat /\ Len(b) \in Nat
    BY <1>5, SwitchNumerals, WrittenType DEF Heading, Cases
  <2>2. InstructionBytes(n) = <<n.op>> \o (a \o b)
    BY <1>5 DEF InstructionBytes, Heading, Cases
  <2>3. a \o b \in Bytes /\ Len(a \o b) = Len(a) + Len(b)
    BY <2>1, Joined
  <2>4. LiesAt(a \o b, p + 1) /\ p \in Nat
    BY <1>2, <2>2, <2>3
  <2>5. LiesAt(a, p + 1) /\ LiesAt(b, (p + 1) + Len(a))
    BY <2>1, <2>4, LiesBoth
  <2>6. NumbersAt(<<"S24", "U30">>, p + 1) = [v |-> head, next |-> (p + 1) + Len(a)]
    BY <1>5, <2>5, SwitchNumerals, NumbersReadBack DEF Heading
  <2>7. NumbersAt(All("S24", Len(n.args) - 1), (p + 1) + Len(a))
          = [v |-> rest, next |-> ((p + 1) + Len(a)) + Len(b)]
    BY <1>5, <2>5, SwitchNumerals, NumbersReadBack DEF Cases
  <2>8. /\ head[1] = n.args[1] /\ head[2] + 1 = Len(n.args) - 1
        /\ ((p + 1) + Len(a)) + Len(b) = (p + 1) + Len(a \o b)
    BY <1>5, <2>1, <2>3, <2>4, SwitchNumerals, SMT
  <2>9. <<n.args[1]>> \o rest = n.args
    BY <1>5, SwitchNumerals
  <2> HIDE DEF a, b, count, rest, head
  <2>10. ArgsAt(n.op, p + 1) = [v |-> n.args, next |-> (p + 1) + Len(a \o b)]
    <3> DEFINE h == NumbersAt(<<"S24", "U30">>, p + 1)
               c == NumbersAt(All("S24", h.v[2] + 1), h.next)
    <3>1. ArgsAt(n.op, p + 1) = [v |-> <<h.v[1]>> \o c.v, next |-> c.next]
      BY <1>5, Zenon DEF ArgsAt
    <3>2. h.v = head /\ h.next = (p + 1) + Len(a)
      BY <2>6
    <3>3. c = NumbersAt(All("S24", Len(n.args) - 1), (p + 1) + Len(a))
      BY <2>8, <3>2, Zenon
    <3> HIDE DEF h, c
    <3>4. c.v = rest /\ c.next = (p + 1) + Len(a \o b)
      BY <2>7, <2>8, <3>3
    <3> QED BY <2>8, <2>9, <3>1, <3>2, <3>4, Zenon
  <2> QED BY <1>3, <2>2, <2>3, <2>10
<1> QED BY <1>4, <1>5

(* Whatever lies there, something is read, and the reader gets on.         *)
LEMMA InstructionType ==
  ASSUME DataOK, NEW p \in Nat, Byte(p) \notin Unknown
  PROVE  InstructionAt(p) \in Instructions /\ InstructionAt(p).position = p
<1>1. Byte(p) \in 0..255 /\ p + 1 \in Nat
  BY ByteType
<1>2. ASSUME NEW op \in 0..255, NEW q \in Nat
      PROVE  /\ ArgsAt(op, q).v \in Seq(Int) /\ ArgsAt(op, q).next \in Nat
             /\ ArgsAt(op, q).next >= q
  <2>1. CASE op # Switch
    <3>1. Operands(op) \in Seq(NumberKinds)
      BY <2>1, OperandKinds
    <3>2. ArgsAt(op, q) = NumbersAt(Operands(op), q)
      BY <2>1 DEF ArgsAt
    <3> QED BY <3>1, <3>2, NumbersType
  <2>2. CASE op = Switch
    <3> DEFINE kinds == <<"S24", "U30">>
               head == NumbersAt(kinds, q)
               cases == NumbersAt(All("S24", head.v[2] + 1), head.next)
    <3>1. /\ kinds \in Seq(NumberKinds) /\ Len(kinds) = 2 /\ kinds[2] # "S24"
          /\ 1 \in 1..2 /\ 2 \in 1..2
      BY SMT DEF NumberKinds
    <3> HIDE DEF kinds
    <3>2. /\ head.v \in Seq(Int) /\ Len(head.v) = 2 /\ head.v[2] \in Nat
          /\ head.next \in Nat /\ head.next >= q
      BY <3>1, NumbersType
    <3>3. head.v[1] \in Int
      BY <3>1, <3>2, Elements
    <3>4. head.v[2] + 1 \in Nat /\ "S24" \in NumberKinds
      BY <3>2 DEF NumberKinds
    <3>5. All("S24", head.v[2] + 1) \in Seq(NumberKinds)
      BY <3>4, AllType
    <3>6. cases.v \in Seq(Int) /\ cases.next \in Nat /\ cases.next >= head.next
      BY <3>2, <3>5, NumbersType
    <3>7. ArgsAt(op, q) = [v |-> <<head.v[1]>> \o cases.v, next |-> cases.next]
      BY <2>2, Zenon DEF ArgsAt, kinds
    <3> HIDE DEF head, cases
    <3>8. <<head.v[1]>> \o cases.v \in Seq(Int)
      BY <3>3, <3>6, SMT
    <3>9. cases.next >= q
      BY <3>2, <3>6, SMT
    <3> QED BY <3>6, <3>7, <3>8, <3>9
  <2> QED BY <2>1, <2>2
<1> DEFINE args == ArgsAt(Byte(p), p + 1)
<1>3. args.v \in Seq(Int) /\ args.next \in Nat /\ args.next >= p + 1
  BY <1>1, <1>2
<1>4. InstructionAt(p) = [op |-> Byte(p), args |-> args.v, position |-> p,
                          size |-> args.next - p]
  BY Zenon DEF InstructionAt
<1> HIDE DEF args
<1>5. args.next - p \in Nat \ {0}
  BY <1>3, SMT
<1> QED BY <1>1, <1>3, <1>4, <1>5 DEF Instructions

-----------------------------------------------------------------------------
(* Programs.                                                               *)
Instruction == [op : 0..255, args : Seq(Int)]

Proper(program) ==
  program \in Seq(Instruction) /\ \A k \in 1..Len(program) : WellFormed(program[k])

InstructionParts(program) == [k \in DOMAIN program |-> InstructionBytes(program[k])]

(* Where, from the first, the instruction k + 1 is.                        *)
Place(program, k) == Len(Code(SubSeq(program, 1, k)))

LEMMA InstructionPartsType ==
  ASSUME NEW program, Proper(program)
  PROVE  /\ InstructionParts(program) \in Seq(Bytes)
         /\ Len(InstructionParts(program)) = Len(program) /\ Len(program) \in Nat
         /\ Code(program) = FlattenSeq(InstructionParts(program))
         /\ \A k \in 1..Len(program) :
              /\ InstructionOf(program[k])
              /\ InstructionParts(program)[k] = InstructionBytes(program[k])
              /\ Len(InstructionParts(program)[k]) > 0
<1>1. DOMAIN program = 1..Len(program) /\ Len(program) \in Nat
  BY DEF Proper
<1>2. ASSUME NEW k \in 1..Len(program)
      PROVE  InstructionOf(program[k])
  <2>1. program \in Seq(Instruction) /\ WellFormed(program[k])
    BY DEF Proper
  <2>2. program[k] \in Instruction
    BY <2>1, Elements
  <2> QED BY <2>1, <2>2 DEF InstructionOf, Instruction
<1>3. ASSUME NEW k \in 1..Len(program)
      PROVE  InstructionBytes(program[k]) \in Bytes /\ Len(InstructionBytes(program[k])) > 0
  <2>1. Len(InstructionBytes(program[k])) \in Nat \ {0} /\ InstructionBytes(program[k]) \in Bytes
    BY <1>2, InstructionBytesType
  <2> QED BY <2>1, SMT
<1>4. InstructionParts(program) = [k \in 1..Len(program) |-> InstructionBytes(program[k])]
  BY <1>1, Zenon DEF InstructionParts
<1>5. InstructionParts(program) \in Seq(Bytes) /\ Len(InstructionParts(program)) = Len(program)
  BY <1>1, <1>3, <1>4
<1>6. Code(program) = FlattenSeq(InstructionParts(program))
  BY Zenon DEF Code, InstructionParts
<1> QED BY <1>1, <1>2, <1>3, <1>4, <1>5, <1>6

LEMMA CodeBefore ==
  ASSUME NEW program, Proper(program), NEW k \in 0..Len(program)
  PROVE  Code(SubSeq(program, 1, k)) = Before(InstructionParts(program), k)
<1> DEFINE first == SubSeq(program, 1, k)
           parts == InstructionParts(program)
<1>1. /\ parts \in Seq(Bytes) /\ Len(parts) = Len(program) /\ program \in Seq(Instruction)
      /\ \A i \in 1..Len(program) : parts[i] = InstructionBytes(program[i])
  BY InstructionPartsType DEF Proper
<1>2. /\ first \in Seq(Instruction) /\ Len(first) = k
      /\ \A i \in 1..k : first[i] = program[i]
  BY <1>1, Prefix
<1>3. /\ SubSeq(parts, 1, k) \in Seq(Bytes) /\ Len(SubSeq(parts, 1, k)) = k
      /\ \A i \in 1..k : SubSeq(parts, 1, k)[i] = parts[i]
  BY <1>1, Prefix
<1>4. DOMAIN first = 1..k
  BY <1>2
<1> HIDE DEF first, parts
<1>5. \A i \in 1..k : i \in 1..Len(program)
  <2>1. Len(program) \in Nat
    BY InstructionPartsType
  <2> QED BY <2>1, SMT
<1>6. \A i \in 1..k : InstructionBytes(first[i]) = SubSeq(parts, 1, k)[i]
  BY <1>1, <1>2, <1>3, <1>5, Zenon
<1>7. [i \in 1..k |-> InstructionBytes(first[i])] = SubSeq(parts, 1, k)
  <2>1. SubSeq(parts, 1, k) = [i \in 1..k |-> SubSeq(parts, 1, k)[i]]
    BY <1>3
  <2> QED BY <1>6, <2>1, Zenon
<1>8. Code(first) = FlattenSeq(SubSeq(parts, 1, k))
  BY <1>4, <1>7, Zenon DEF Code
<1> QED BY <1>8 DEF Before, first, parts

(* Each instruction is after the one before it.                            *)
LEMMA Places ==
  ASSUME NEW program, Proper(program)
  PROVE  /\ Len(Code(program)) \in Nat /\ Code(program) \in Bytes
         /\ Place(program, 0) = 0
         /\ Place(program, Len(program)) = Len(Code(program))
         /\ \A k \in 0..Len(program) :
              /\ Place(program, k) \in Nat /\ Place(program, k) <= Len(Code(program))
              /\ k < Len(program) => Place(program, k) < Len(Code(program))
         /\ \A k \in 1..Len(program) :
              Place(program, k) = Place(program, k - 1) + Len(InstructionBytes(program[k]))
<1> DEFINE parts == InstructionParts(program)
<1>1. /\ parts \in Seq(Bytes) /\ Len(parts) = Len(program) /\ Len(program) \in Nat
      /\ Code(program) = FlattenSeq(parts)
      /\ \A k \in 1..Len(parts) : parts[k] = InstructionBytes(program[k]) /\ Len(parts[k]) > 0
  BY InstructionPartsType
<1>2. \A k \in 0..Len(program) : Place(program, k) = Len(Before(parts, k))
  BY CodeBefore, Zenon DEF Place
<1> HIDE DEF parts
<1>3. /\ Before(parts, 0) = <<>> /\ Before(parts, Len(program)) = Code(program)
      /\ Code(program) \in Bytes /\ Len(Code(program)) \in Nat
  BY <1>1, BeforeEnds
<1>4. 0 \in 0..Len(program) /\ Len(program) \in 0..Len(program) /\ Len(<<>>) = 0
  BY <1>1, SMT
<1>5. Place(program, 0) = 0 /\ Place(program, Len(program)) = Len(Code(program))
  BY <1>2, <1>3, <1>4
<1>6. ASSUME NEW k \in 0..Len(program)
      PROVE  /\ Place(program, k) \in Nat /\ Place(program, k) <= Len(Code(program))
             /\ k < Len(program) => Place(program, k) < Len(Code(program))
  BY <1>1, <1>2, BeforeGrows, BeforeType
<1>7. ASSUME NEW k \in 1..Len(program)
      PROVE  Place(program, k) = Place(program, k - 1) + Len(InstructionBytes(program[k]))
  <2>1. k \in 0..Len(program) /\ k - 1 \in 0..Len(program)
    BY <1>1, SMT
  <2> QED BY <1>1, <1>2, <2>1, BeforeLength
<1> QED BY <1>3, <1>5, <1>6, <1>7

(* Code that lies in the memory is listed, instruction by instruction.     *)
LEMMA InstructionLies ==
  ASSUME NEW program, Proper(program), NEW p, LiesAt(Code(program), p),
         NEW k \in 1..Len(program)
  PROVE  LiesAt(InstructionBytes(program[k]), p + Place(program, k - 1))
<1> DEFINE parts == InstructionParts(program)
<1>1. /\ parts \in Seq(Bytes) /\ Len(parts) = Len(program) /\ Len(program) \in Nat
      /\ Code(program) = FlattenSeq(parts) /\ parts[k] = InstructionBytes(program[k])
  BY InstructionPartsType
<1>2. k - 1 \in 0..Len(program)
  BY <1>1, SMT
<1>3. Place(program, k - 1) = Len(Before(parts, k - 1))
  BY <1>2, CodeBefore DEF Place
<1> HIDE DEF parts
<1> QED BY <1>1, <1>3, LiesPart

(* A method that is written for the disassembler.                          *)
CodeInput == input \in Inputs /\ input.what = "code" /\ data = InputBytes(input)

LEMMA CodeInputType ==
  ASSUME CodeInput
  PROVE  /\ Proper(input.program) /\ input.off \in Int /\ input.tail \in Bytes
         /\ Length(input) \in Nat /\ Unsigned30(Length(input))
         /\ Length(input) = Len(Code(input.program)) + input.off
         /\ data = Preamble(input) \o Code(input.program) \o input.tail
<1>1. /\ input \in [what : {"code"}, program : Programs, off : Errors, tail : Tails]
      /\ Unsigned30(Length(input))
  BY DEF CodeInput, Inputs
<1>2. input.program \in Programs /\ input.off \in Errors /\ input.tail \in Tails
  BY <1>1
<1>3. input.program \in Seq(Instruction) /\ input.off \in Int /\ input.tail \in Bytes
  BY <1>2, ProgramsAssumption DEF Instruction, Bytes
<1>4. \A k \in DOMAIN input.program : WellFormed(input.program[k])
  BY <1>2, ProgramsAssumption
<1>5. DOMAIN input.program = 1..Len(input.program)
  BY <1>3
<1>6. data = Preamble(input) \o Code(input.program) \o input.tail
  BY DEF CodeInput, InputBytes
<1>7. Length(input) \in Nat
  BY <1>1 DEF Unsigned30
<1> QED BY <1>1, <1>3, <1>4, <1>5, <1>6, <1>7 DEF Proper, Length

LEMMA CodeLies ==
  ASSUME CodeInput
  PROVE  /\ DataOK /\ Len(data) \in Nat
         /\ Len(Preamble(input)) \in Nat
         /\ LiesAt(Code(input.program), Len(Preamble(input)))
         /\ Len(Preamble(input)) + Len(Code(input.program)) <= Len(data)
         /\ NumbersAt(All("U30", 5), 0)
              = [v |-> <<3, 300, 1, 2, Length(input)>>, next |-> Len(Preamble(input))]
<1> DEFINE values == <<3, 300, 1, 2, Length(input)>>
           head == Preamble(input)
           code == Code(input.program)
<1>1. Unsigned30s(values) /\ Len(values) = 5
  <2>1. Length(input) \in Nat /\ Unsigned30(Length(input))
    BY CodeInputType
  <2> DEFINE length == Length(input)
  <2> HIDE DEF length
  <2>2. Unsigned30(3) /\ Unsigned30(300) /\ Unsigned30(1) /\ Unsigned30(2)
    BY SMT DEF Unsigned30
  <2>3. /\ <<3, 300, 1, 2, length>> \in Seq(Int) /\ Len(<<3, 300, 1, 2, length>>) = 5
        /\ <<3, 300, 1, 2, length>>[1] = 3 /\ <<3, 300, 1, 2, length>>[2] = 300
        /\ <<3, 300, 1, 2, length>>[3] = 1 /\ <<3, 300, 1, 2, length>>[4] = 2
        /\ <<3, 300, 1, 2, length>>[5] = length
    BY <2>1, SMT DEF length
  <2>4. \A k \in 1..5 : k = 1 \/ k = 2 \/ k = 3 \/ k = 4 \/ k = 5
    BY SMT
  <2>5. /\ values \in Seq(Int) /\ Len(values) = 5
        /\ values[1] = 3 /\ values[2] = 300 /\ values[3] = 1 /\ values[4] = 2
        /\ values[5] = Length(input)
    BY <2>3, Zenon DEF length
  <2> HIDE DEF values
  <2>6. ASSUME NEW k \in 1..5
        PROVE  Unsigned30(values[k])
    <3>1. /\ Unsigned30(values[1]) /\ Unsigned30(values[2]) /\ Unsigned30(values[3])
          /\ Unsigned30(values[4]) /\ Unsigned30(values[5])
      BY <2>1, <2>2, <2>5
    <3> QED BY <2>4, <3>1
  <2> QED BY <2>5, <2>6 DEF Unsigned30s
<1>2. head = U30s(values)
  BY DEF Preamble
<1> HIDE DEF values
<1>3. head \in Bytes /\ Len(head) \in Nat
  BY <1>1, <1>2, U30sReadBack
<1>4. code \in Bytes /\ Len(code) \in Nat /\ input.tail \in Bytes /\ data = head \o code \o input.tail
  BY CodeInputType, Places
<1> HIDE DEF head, code
<1>5. /\ head \o code \in Bytes /\ head \o code \o input.tail \in Bytes
      /\ Len(head \o code) = Len(head) + Len(code)
  BY <1>3, <1>4, Joined
<1>6. LiesAt(data, 0) /\ DataOK /\ Len(data) \in Nat
  BY <1>4, <1>5, LiesAtStart
<1>7. LiesAt(head \o code, 0)
  BY <1>4, <1>5, <1>6, LiesBoth
<1>8. LiesAt(head, 0) /\ LiesAt(code, 0 + Len(head))
  BY <1>3, <1>4, <1>7, LiesBoth
<1>9. NumbersAt(All("U30", 5), 0) = [v |-> values, next |-> 0 + Len(head)]
  BY <1>1, <1>2, <1>8, U30sReadBack
<1>10. 0 + Len(head) = Len(head) /\ Len(head) + Len(code) <= Len(data)
  <2>1. 0 + Len(head \o code) <= Len(data)
    BY <1>7 DEF LiesAt
  <2>2. Len(head) \in Nat /\ Len(code) \in Nat /\ Len(head \o code) = Len(head) + Len(code)
    BY <1>3, <1>4, <1>5
  <2>3. \A a, b \in Nat : 0 + a = a /\ 0 + (a + b) = a + b
    BY SMT
  <2> QED BY <2>1, <2>2, <2>3, Zenon
<1> QED BY <1>3, <1>6, <1>8, <1>9, <1>10 DEF values, head, code

(* Beginnings of sequences.                                                *)
LEMMA PrefixGrows ==
  ASSUME NEW S, NEW s \in Seq(S), NEW k \in Nat, k < Len(s)
  PROVE  Append(SubSeq(s, 1, k), s[k + 1]) = SubSeq(s, 1, k + 1)
BY SMT

LEMMA PrefixIs ==
  ASSUME NEW S, NEW s \in Seq(S), NEW k \in 0..Len(s)
  PROVE  IsPrefix(SubSeq(s, 1, k), s) /\ SubSeq(s, 1, Len(s)) = s
<1>1. Len(SubSeq(s, 1, k)) = k /\ k <= Len(s) /\ SubSeq(s, 1, k) \in Seq(S)
  BY SMT
<1>2. SubSeq(SubSeq(s, 1, k), 1, k) = SubSeq(s, 1, k) /\ SubSeq(s, 1, Len(s)) = s
  BY <1>1, SMT
<1> QED BY <1>1, <1>2 DEF IsPrefix

LEMMA PrefixStays ==
  ASSUME NEW S, NEW s \in Seq(S), NEW t \in Seq(S), IsPrefix(s, t), NEW e \in S
  PROVE  IsPrefix(s, Append(t, e))
<1>1. Len(s) <= Len(t) /\ SubSeq(s, 1, Len(s)) = SubSeq(t, 1, Len(s))
  BY DEF IsPrefix
<1>2. /\ Len(s) <= Len(Append(t, e))
      /\ SubSeq(Append(t, e), 1, Len(s)) = SubSeq(t, 1, Len(s))
  BY <1>1, SMT
<1> QED BY <1>1, <1>2 DEF IsPrefix

LEMMA ListingType ==
  ASSUME CodeInput
  PROVE  /\ Listing(input) \in Seq(Instructions)
         /\ Len(Listing(input)) = Len(input.program) /\ Len(input.program) \in Nat
         /\ \A k \in 1..Len(input.program) :
              Listing(input)[k] =
                [op |-> input.program[k].op, args |-> input.program[k].args,
                 position |-> Len(Preamble(input)) + Place(input.program, k - 1),
                 size |-> Len(InstructionBytes(input.program[k]))]
<1> DEFINE program == input.program
           Item(k) == [op |-> program[k].op, args |-> program[k].args,
                       position |-> Len(Preamble(input)) + Place(program, k - 1),
                       size |-> Len(InstructionBytes(program[k]))]
<1>1. Proper(program) /\ program \in Seq(Instruction)
  BY CodeInputType DEF Proper
<1>2. DOMAIN program = 1..Len(program) /\ Len(program) \in Nat
  BY <1>1
<1>3. Listing(input) = [k \in 1..Len(program) |-> Item(k)]
  BY <1>2, Zenon DEF Listing, Place
<1>4. ASSUME NEW k \in 1..Len(program)
      PROVE  Item(k) \in Instructions
  <2>1. program[k] \in Instruction
    BY <1>1, Elements
  <2>2. WellFormed(program[k]) /\ InstructionOf(program[k])
    BY <1>1, InstructionPartsType DEF Proper
  <2>3. Len(InstructionBytes(program[k])) \in Nat \ {0}
    BY <2>2, InstructionBytesType
  <2>4. k - 1 \in 0..Len(program)
    BY <1>2, SMT
  <2>5. Place(program, k - 1) \in Nat /\ Len(Preamble(input)) \in Nat
    BY <1>1, <2>4, Places, CodeLies
  <2>6. program[k].op \in (0..255) \ Unknown /\ program[k].args \in Seq(Int)
    BY <2>1, <2>2, RowForEach DEF WellFormed, Instruction
  <2>7. \A a, b \in Nat : a + b \in Nat
    BY SMT
  <2> HIDE DEF program
  <2> QED BY <2>3, <2>5, <2>6, <2>7 DEF Instructions
<1> HIDE DEF Item
<1>5. Listing(input) \in Seq(Instructions) /\ Len(Listing(input)) = Len(program)
  BY <1>2, <1>3, <1>4
<1> QED BY <1>2, <1>3, <1>5 DEF Item

(* The next instruction of a program is read, and the reader is after it.  *)
LEMMA NextOfProgram ==
  ASSUME CodeInput, ~Misread(input.program), NEW k \in Nat, k < Len(input.program),
         position = Len(Preamble(input)) + Place(input.program, k)
  PROVE  /\ InstructionAt(position) = Listing(input)[k + 1]
         /\ Byte(position) \notin Unknown
         /\ position + InstructionAt(position).size
              = Len(Preamble(input)) + Place(input.program, k + 1)
<1> DEFINE program == input.program
           head == Len(Preamble(input))
           n == program[k + 1]
<1>1. Proper(program) /\ LiesAt(Code(program), head) /\ head \in Nat
  BY CodeInputType, CodeLies
<1>2. Len(program) \in Nat
  BY ListingType
<1>3. k + 1 \in 1..Len(program) /\ (k + 1) - 1 = k /\ k \in 0..Len(program)
  BY <1>2, SMT
<1>4. InstructionOf(n) /\ WellFormed(n)
  BY <1>1, <1>3, InstructionPartsType DEF Proper
<1>5. n.op \notin WrongRows
  <2>1. DOMAIN program = 1..Len(program)
    BY <1>1 DEF Proper
  <2> QED BY <1>3, <2>1 DEF Misread
<1>6. LiesAt(InstructionBytes(n), position)
  BY <1>1, <1>3, InstructionLies
<1>7. InstructionAt(position) = [op |-> n.op, args |-> n.args, position |-> position,
                                 size |-> Len(InstructionBytes(n))]
  BY <1>4, <1>5, <1>6, InstructionReadsBack
<1>8. InstructionAt(position) = Listing(input)[k + 1]
  BY <1>3, <1>7, ListingType, Zenon
<1>9. Byte(position) \notin Unknown
  <2>1. InstructionAt(position).op = Byte(position)
    BY DEF InstructionAt
  <2>2. InstructionAt(position).op = n.op
    BY <1>7
  <2> QED BY <1>4, <2>1, <2>2, RowForEach DEF WellFormed
<1>10. position + InstructionAt(position).size = head + Place(program, k + 1)
  <2>1. Place(program, k + 1) = Place(program, k) + Len(InstructionBytes(n))
    BY <1>1, <1>3, Places
  <2>2. InstructionAt(position).size = Len(InstructionBytes(n))
    BY <1>7
  <2>3. Place(program, k) \in Nat /\ Len(InstructionBytes(n)) \in Nat
    BY <1>1, <1>3, <1>4, Places, InstructionBytesType
  <2>4. position = head + Place(program, k)
    OBVIOUS
  <2> HIDE DEF head, program, n
  <2> QED BY <1>1, <2>1, <2>2, <2>3, <2>4, SMT
<1> QED BY <1>8, <1>9, <1>10

(* The references of the listing are the names the program uses.           *)
LEMMA XrefsAreNames ==
  ASSUME CodeInput, ~Misread(input.program), result = Listing(input)
  PROVE  \A k \in DOMAIN GetXrefs(result) : GetXrefs(result)[k] = input.program[k].args[1]
<1> DEFINE program == input.program
           naming == {k \in DOMAIN result : result[k].op \in Naming}
<1>1. /\ Proper(program) /\ program \in Seq(Instruction) /\ Len(program) \in Nat
      /\ result \in Seq(Instructions) /\ Len(result) = Len(program)
  BY CodeInputType, ListingType DEF Proper
<1>2. DOMAIN result = 1..Len(program) /\ DOMAIN program = 1..Len(program)
  BY <1>1
<1>3. GetXrefs(result) = [k \in naming |-> IF result[k].args = <<>> THEN NoOperand
                                           ELSE result[k].args[1]]
  BY Zenon DEF GetXrefs
<1>4. ASSUME NEW k \in naming
      PROVE  result[k].args = program[k].args /\ program[k].args # <<>>
  <2>1. k \in 1..Len(program) /\ result[k].op \in Naming
    BY <1>2
  <2>2. result[k].op = program[k].op /\ result[k].args = program[k].args
    <3>1. result[k] = [op |-> program[k].op, args |-> program[k].args,
                       position |-> Len(Preamble(input)) + Place(program, k - 1),
                       size |-> Len(InstructionBytes(program[k]))]
      BY <2>1, ListingType
    <3> QED BY <3>1
  <2>3. WellFormed(program[k])
    BY <1>1, <1>2, <2>1 DEF Proper
  <2> DEFINE op == program[k].op
  <2>4. op \in Naming
    BY <2>1, <2>2
  <2> HIDE DEF op
  <2>5. /\ op # Switch /\ op \notin Branches /\ op # PushByte /\ op # Debug
        /\ \/ op \in WithOne /\ op \notin WithTwo
           \/ op \in WithTwo /\ op \notin WithOne
    BY <2>4, SMT DEF Naming, Switch, WithOne, WithTwo, Branches, PushByte, Debug
  <2>6. Format(op) = <<"U30">> \/ Format(op) = <<"U30", "U30">>
    BY <2>5, Zenon DEF Format
  <2>7. Len(Format(op)) # 0
    BY <2>6, SMT
  <2>8. Len(program[k].args) = Len(Format(op))
    BY <2>3, <2>5, Zenon DEF WellFormed, op
  <2>9. Len(<<>>) = 0
    BY SMT
  <2> QED BY <2>2, <2>7, <2>8, <2>9, Zenon
<1> HIDE DEF naming
<1> QED BY <1>3, <1>4, Zenon

-----------------------------------------------------------------------------
(* The steps of the disassembler.                                          *)
Here == Len(Preamble(input)) + Len(Code(input.program))

LEMMA InvCode ==
  ASSUME ReadInv, input.what = "code"
  PROVE  CodeInput /\ DataOK /\ position \in Nat /\ end \in Nat
BY DEF ReadInv, ReadTypeOK, CodeInput, DataOK

LEMMA Numbers ==
  ASSUME CodeInput
  PROVE  /\ Len(Preamble(input)) \in Nat /\ Len(Code(input.program)) \in Nat
         /\ input.off \in Int /\ Length(input) \in Nat
         /\ Length(input) = Len(Code(input.program)) + input.off
         /\ Here \in Nat /\ Here <= Len(data) /\ Len(data) \in Nat
         /\ Len(Preamble(input)) + Length(input) = Here + input.off
<1>1. /\ Len(Preamble(input)) \in Nat /\ Len(Code(input.program)) \in Nat
      /\ input.off \in Int /\ Length(input) \in Nat
      /\ Length(input) = Len(Code(input.program)) + input.off
      /\ Len(Preamble(input)) + Len(Code(input.program)) <= Len(data) /\ Len(data) \in Nat
  BY CodeInputType, CodeLies, Places
<1>2. \A h, c \in Nat, o \in Int : h + c \in Nat /\ h + (c + o) = (h + c) + o
  BY SMT
<1>3. /\ Here = Len(Preamble(input)) + Len(Code(input.program)) /\ Here \in Nat
      /\ Len(Preamble(input)) + Length(input) = Here + input.off
  BY <1>1, <1>2 DEF Here
<1> QED BY <1>1, <1>3

LEMMA StartCodeStep ==
  ASSUME ReadInv, StartCode
  PROVE  ReadInv'
<1> DEFINE program == input.program
           values == <<3, 300, 1, 2, Length(input)>>
<1>1. /\ rpc = "start" /\ input.what = "code" /\ rpc' = "code"
      /\ input' = input /\ data' = data /\ result' = result
      /\ position' = NumbersAt(All("U30", 5), 0).next
      /\ end' = NumbersAt(All("U30", 5), 0).next + NumbersAt(All("U30", 5), 0).v[5]
  BY Zenon DEF StartCode
<1>2. CodeInput /\ result = <<>> /\ ReadTypeOK /\ data = InputBytes(input)
  BY <1>1, InvCode DEF ReadInv, ReadTypeOK
<1>3. NumbersAt(All("U30", 5), 0) = [v |-> values, next |-> Len(Preamble(input))]
  BY <1>2, CodeLies
<1>4. values[5] = Length(input)
  BY SMT
<1> HIDE DEF values
<1>5. /\ NumbersAt(All("U30", 5), 0).v = values
      /\ NumbersAt(All("U30", 5), 0).next = Len(Preamble(input))
  BY <1>3
<1>6. position' = Len(Preamble(input)) /\ end' = Len(Preamble(input)) + Length(input)
  BY <1>1, <1>4, <1>5
<1>7. /\ position' \in Nat /\ end' \in Nat
      /\ position' = Len(Preamble(input)) + 0
  <2>1. Len(Preamble(input)) \in Nat /\ Length(input) \in Nat
    BY <1>2, Numbers
  <2>2. \A a, b \in Nat : a + b \in Nat /\ a + 0 = a
    BY SMT
  <2> QED BY <1>6, <2>1, <2>2
<1>8. ReadTypeOK'
  <2>1. <<>> \in Seq(Instructions)
    BY SMT
  <2> QED BY <1>1, <1>2, <1>7, <2>1 DEF ReadTypeOK
<1>9. ListedSoFar'
  <2>1. Proper(program) /\ Len(program) \in Nat /\ Listing(input) \in Seq(Instructions)
    BY <1>2, CodeInputType, ListingType
  <2>2. Len(<<>>) = 0 /\ 0 <= Len(program) /\ <<>> = SubSeq(Listing(input), 1, 0)
    BY <2>1, SMT
  <2>3. Place(program, 0) = 0
    BY <2>1, Places
  <2> QED BY <1>1, <1>2, <1>6, <1>7, <2>2, <2>3 DEF ListedSoFar, Place
<1>10. data' = InputBytes(input')
  BY <1>1, <1>2
<1> QED BY <1>1, <1>8, <1>9, <1>10 DEF ReadInv, ReadSoFar, ListsProgram, NothingMadeUp, ReadsBack

LEMMA ReadInstructionStep ==
  ASSUME ReadInv, ReadInstruction
  PROVE  ReadInv'
<1> DEFINE program == input.program
           n == InstructionAt(position)
           head == Len(Preamble(input))
<1>1. /\ rpc = "code" /\ rpc' = "code" /\ input.what = "code" /\ position # end
      /\ input' = input /\ data' = data /\ end' = end
      /\ Byte(position) \notin Unknown
      /\ result' = Append(result, n) /\ position' = position + n.size
      /\ result \in Seq(Instructions)
  BY Zenon DEF ReadInstruction, Inside, ReadInv, ReadTypeOK
<1>2. CodeInput /\ DataOK /\ position \in Nat /\ end \in Nat
  BY <1>1, InvCode
<1>3. n \in Instructions
  BY <1>1, <1>2, InstructionType
<1> HIDE DEF n
<1>4. /\ Append(result, n) \in Seq(Instructions) /\ Len(Append(result, n)) = Len(result) + 1
      /\ Len(result) \in Nat
  BY <1>1, <1>3
<1>5. n.size \in Nat /\ n.size > 0
  BY <1>3, SMT DEF Instructions
<1>6. position' \in Nat /\ position' > position
  BY <1>1, <1>2, <1>5, SMT
<1>7. ReadTypeOK' /\ data' = InputBytes(input')
  BY <1>1, <1>4, <1>6 DEF ReadInv, ReadTypeOK
<1>8. end = head + Length(input)
  BY <1>1 DEF ReadInv, ListedSoFar
<1>9. /\ Listing(input) \in Seq(Instructions) /\ Len(Listing(input)) = Len(program)
      /\ Len(program) \in Nat
  BY <1>2, ListingType
<1>10. ListedSoFar'
  <2>1. CASE Misread(program)
    BY <1>1, <1>8, <2>1 DEF ListedSoFar
  <2>2. CASE /\ ~Misread(program) /\ Len(result) < Len(program)
             /\ result = SubSeq(Listing(input), 1, Len(result))
             /\ position = head + Place(program, Len(result))
    <3> DEFINE k == Len(result)
    <3>1. n = Listing(input)[k + 1] /\ position + n.size = head + Place(program, k + 1)
      BY <1>2, <1>4, <2>2, NextOfProgram DEF n
    <3>2. result' = SubSeq(Listing(input), 1, k + 1)
      BY <1>1, <1>4, <1>9, <2>2, <3>1, PrefixGrows
    <3>3. Len(result') = k + 1 /\ k + 1 <= Len(program)
      BY <1>1, <1>4, <1>9, <2>2, SMT
    <3> HIDE DEF k
    <3> QED BY <1>1, <1>8, <3>1, <3>2, <3>3 DEF ListedSoFar, Place
  <2>3. ASSUME ~Misread(program), input.off # 0, IsPrefix(Listing(input), result),
               position >= Here
        PROVE  ListedSoFar'
    <3>1. IsPrefix(Listing(input), result')
      BY <1>1, <1>3, <1>9, <2>3, PrefixStays
    <3>2. position' >= Here
      <4>1. Here \in Nat
        BY <1>2, Numbers
      <4> QED BY <1>2, <1>6, <2>3, <4>1, SMT
    <3> QED BY <1>1, <1>8, <2>3, <3>1, <3>2 DEF ListedSoFar, Here
  <2>4. CASE /\ ~Misread(program) /\ Len(result) = Len(program)
             /\ result = SubSeq(Listing(input), 1, Len(result))
             /\ position = head + Place(program, Len(result))
    <3>1. result = Listing(input)
      BY <1>9, <2>4, PrefixIs
    <3>2. IsPrefix(Listing(input), result)
      <4>1. Len(program) \in 0..Len(Listing(input))
        BY <1>9, SMT
      <4>2. IsPrefix(SubSeq(Listing(input), 1, Len(program)), Listing(input))
        BY <1>9, <4>1, PrefixIs
      <4> QED BY <2>4, <3>1, <4>2
    <3>3. position = Here
      <4>1. Place(program, Len(program)) = Len(Code(program))
        BY <1>2, CodeInputType, Places
      <4> QED BY <2>4, <4>1 DEF Here
    <3>4. input.off # 0
      <4>1. end = Here + input.off /\ Here \in Nat
        BY <1>2, <1>8, Numbers
      <4> QED BY <1>1, <3>3, <4>1, SMT
    <3>5. position >= Here
      BY <1>2, <3>3, SMT
    <3> QED BY <2>3, <2>4, <3>2, <3>4, <3>5
  <2>5. \/ Misread(program)
        \/ /\ ~Misread(program) /\ Len(result) <= Len(program)
           /\ result = SubSeq(Listing(input), 1, Len(result))
           /\ position = head + Place(program, Len(result))
        \/ /\ ~Misread(program) /\ input.off # 0 /\ IsPrefix(Listing(input), result)
           /\ position >= Here
    BY <1>1 DEF ReadInv, ListedSoFar, Place, Here
  <2>6. Len(result) <= Len(program) => Len(result) < Len(program) \/ Len(result) = Len(program)
    BY <1>4, <1>9, SMT
  <2> QED BY <2>1, <2>2, <2>3, <2>4, <2>5, <2>6
<1> QED BY <1>1, <1>7, <1>10 DEF ReadInv, ReadSoFar, ListsProgram, NothingMadeUp, ReadsBack

(* A method with an instruction that is not known was not compiled, or it  *)
(* was not read from its beginning to its end.                             *)
LEMMA MeetUnknownStep ==
  ASSUME ReadInv, MeetUnknown
  PROVE  ReadInv'
<1> DEFINE program == input.program
           head == Len(Preamble(input))
<1>1. /\ rpc = "code" /\ rpc' = "end" /\ input.what = "code" /\ position # end
      /\ input' = input /\ data' = data /\ end' = end /\ position' = position
      /\ Byte(position) \in Unknown /\ result' = <<>>
  BY Zenon DEF MeetUnknown, Inside, ReadInv, ReadTypeOK
<1>2. CodeInput /\ position \in Nat /\ end \in Nat
  BY <1>1, InvCode
<1>3. ReadTypeOK' /\ data' = InputBytes(input')
  BY <1>1 DEF ReadInv, ReadTypeOK
<1>4. Misread(program) \/ input.off # 0
  <2> SUFFICES ASSUME ~Misread(program), input.off = 0
               PROVE  FALSE
    OBVIOUS
  <2>1. /\ Len(result) <= Len(program) /\ end = head + Length(input)
        /\ result = SubSeq(Listing(input), 1, Len(result))
        /\ position = head + Place(program, Len(result))
    BY <1>1 DEF ReadInv, ListedSoFar, Place
  <2>2. Len(result) \in Nat /\ Len(program) \in Nat
    BY <1>1, <1>2, ListingType DEF ReadInv, ReadTypeOK
  <2>3. CASE Len(result) < Len(program)
    BY <1>1, <1>2, <2>1, <2>2, <2>3, NextOfProgram
  <2>4. CASE Len(result) = Len(program)
    <3>1. Place(program, Len(program)) = Len(Code(program))
      BY <1>2, CodeInputType, Places
    <3>2. position = Here
      BY <2>1, <2>4, <3>1 DEF Here
    <3>3. end = Here + input.off /\ Here \in Nat
      BY <1>2, <2>1, Numbers
    <3> QED BY <1>1, <3>2, <3>3, SMT
  <2>5. Len(result) < Len(program) \/ Len(result) = Len(program)
    BY <2>1, <2>2, SMT
  <2> QED BY <2>3, <2>4, <2>5
<1> QED BY <1>1, <1>3, <1>4
      DEF ReadInv, ListedSoFar, ReadSoFar, ListsProgram, NothingMadeUp, ReadsBack

(* The end that was given is met at the end of what was compiled, in it,   *)
(* or after it, as the length says.                                        *)
LEMMA EndCodeStep ==
  ASSUME ReadInv, EndCode
  PROVE  ReadInv'
<1> DEFINE program == input.program
           head == Len(Preamble(input))
           k == Len(result)
<1>1. /\ rpc = "code" /\ input.what = "code"
      /\ input' = input /\ data' = data /\ end' = end /\ position' = position
      /\ result' = result /\ result \in Seq(Instructions)
      /\ position = end => rpc' = "end"
      /\ position # end => rpc' = "beyond"
      /\ position = end \/ ~(position < Len(data))
  BY Zenon DEF EndCode, Inside, ReadInv, ReadTypeOK
<1>2. CodeInput /\ position \in Nat /\ end \in Nat
  BY <1>1, InvCode
<1>3. rpc' \in {"end", "beyond"} /\ rpc' # "start" /\ rpc' # "code" /\ rpc' # "traits"
  BY <1>1
<1>4. ReadTypeOK' /\ data' = InputBytes(input')
  BY <1>1, <1>3 DEF ReadInv, ReadTypeOK
<1>5. /\ k \in Nat /\ Len(program) \in Nat /\ Listing(input) \in Seq(Instructions)
      /\ Len(Listing(input)) = Len(program)
  BY <1>1, <1>2, ListingType
<1>6. /\ end = Here + input.off /\ Here \in Nat /\ Here <= Len(data) /\ Len(data) \in Nat
      /\ input.off \in Int
  <2>1. end = head + Length(input)
    BY <1>1 DEF ReadInv, ListedSoFar
  <2> QED BY <1>2, <2>1, Numbers
<1>7. CASE Misread(program)
  BY <1>1, <1>3, <1>4, <1>7
     DEF ReadInv, ListedSoFar, ReadSoFar, ListsProgram, NothingMadeUp, ReadsBack
<1>8. CASE /\ ~Misread(program) /\ k <= Len(program)
           /\ result = SubSeq(Listing(input), 1, k)
           /\ position = head + Place(program, k)
  <2>1. /\ position <= Here
        /\ k < Len(program) => position < Here
    <3>1. k \in 0..Len(program)
      BY <1>5, <1>8, SMT
    <3>2. /\ Place(program, k) \in Nat /\ Place(program, k) <= Len(Code(program))
          /\ k < Len(program) => Place(program, k) < Len(Code(program))
      BY <1>2, <3>1, CodeInputType, Places
    <3>3. head \in Nat /\ Len(Code(program)) \in Nat /\ Here = head + Len(Code(program))
      BY <1>2, Numbers DEF Here
    <3>4. position = head + Place(program, k)
      BY <1>8
    <3> HIDE DEF k, head, program
    <3> QED BY <3>2, <3>3, <3>4, SMT
  <2>2. IsPrefix(result, Listing(input)) /\ (k = Len(program) => result = Listing(input))
    <3>1. k \in 0..Len(program)
      BY <1>5, <1>8, SMT
    <3> QED BY <1>5, <1>8, <3>1, PrefixIs
  <2>3. input.off = 0 => position = end /\ k = Len(program)
    <3>1. input.off = 0 => end = Here
      BY <1>6, SMT
    <3>2. input.off = 0 => position = end
      BY <1>1, <1>2, <1>6, <2>1, <3>1, SMT
    <3>3. ~(k < Len(program)) => k = Len(program)
      BY <1>5, <1>8, SMT
    <3>4. input.off = 0 => ~(position < Here)
      BY <1>2, <1>6, <3>1, <3>2, SMT
    <3> QED BY <2>1, <3>2, <3>3, <3>4
  <2>4. position = end => input.off <= 0
    BY <1>2, <1>6, <2>1, SMT
  <2>5. ListsProgram'
    <3>1. input.off = 0 =>
            /\ rpc' = "end" /\ result = Listing(input)
            /\ \A l \in DOMAIN GetXrefs(result) : GetXrefs(result)[l] = program[l].args[1]
      BY <1>1, <1>2, <1>8, <2>2, <2>3, XrefsAreNames
    <3> QED BY <1>1, <3>1 DEF ListsProgram
  <2>6. NothingMadeUp'
    BY <1>1, <2>2, <2>4 DEF NothingMadeUp
  <2> QED BY <1>1, <1>3, <1>4, <2>5, <2>6 DEF ReadInv, ListedSoFar, ReadSoFar, ReadsBack
<1>9. CASE /\ ~Misread(program) /\ input.off # 0 /\ IsPrefix(Listing(input), result)
           /\ position >= Here
  <2>1. position = end => input.off > 0
    BY <1>2, <1>6, <1>9, SMT
  <2>2. NothingMadeUp'
    BY <1>1, <1>9, <2>1 DEF NothingMadeUp
  <2>3. ListsProgram'
    BY <1>1, <1>9 DEF ListsProgram
  <2> QED BY <1>1, <1>3, <1>4, <2>2, <2>3 DEF ReadInv, ListedSoFar, ReadSoFar, ReadsBack
<1>10. \/ Misread(program)
       \/ /\ ~Misread(program) /\ k <= Len(program)
          /\ result = SubSeq(Listing(input), 1, k)
          /\ position = head + Place(program, k)
       \/ /\ ~Misread(program) /\ input.off # 0 /\ IsPrefix(Listing(input), result)
          /\ position >= Here
  BY <1>1 DEF ReadInv, ListedSoFar, Place, Here
<1> QED BY <1>7, <1>8, <1>9, <1>10

-----------------------------------------------------------------------------
(* Traits.                                                                 *)
TraitRecord == [kind : 0..6, name : Nat, a : Nat, b : Nat, metadata : Seq(Nat)]

TraitOf(t) ==
  /\ t \in TraitRecord
  /\ Unsigned30(t.name) /\ Unsigned30(t.a) /\ Unsigned30(t.b)
  /\ Unsigned30s(t.metadata) /\ Unsigned30(Len(t.metadata))

Tag(t) == t.kind + IF t.metadata = <<>> THEN 0 ELSE 64
Labels(t) == Written(<<"U30", "Byte">>, <<t.name, Tag(t)>>)
Meta(t) == IF t.metadata = <<>> THEN <<>> ELSE U30Bytes(Len(t.metadata)) \o U30s(t.metadata)
Value(t) == IF t.a = 0 THEN <<>> ELSE <<1>>

LEMMA NoBytes ==
  <<>> \in Bytes /\ Len(<<>>) = 0 /\ <<1>> \in Bytes /\ Len(<<1>>) = 1
BY SMT DEF Bytes

LEMMA TwoNumbers ==
  ASSUME NEW a, NEW b, Unsigned30(a), Unsigned30(b)
  PROVE  Unsigned30s(<<a, b>>) /\ Len(<<a, b>>) = 2 /\ <<a, b>>[1] = a /\ <<a, b>>[2] = b
<1>1. a \in Nat /\ b \in Nat
  BY DEF Unsigned30
<1>2. /\ <<a, b>> \in Seq(Int) /\ Len(<<a, b>>) = 2 /\ <<a, b>>[1] = a /\ <<a, b>>[2] = b
      /\ \A k \in 1..2 : k = 1 \/ k = 2
  BY <1>1, SMT
<1>3. \A k \in 1..2 : Unsigned30(<<a, b>>[k])
  BY <1>2
<1> QED BY <1>2, <1>3 DEF Unsigned30s

LEMMA ThreeNumbers ==
  ASSUME NEW a, NEW b, NEW c, Unsigned30(a), Unsigned30(b), Unsigned30(c)
  PROVE  /\ Unsigned30s(<<a, b, c>>) /\ Len(<<a, b, c>>) = 3
         /\ <<a, b, c>>[1] = a /\ <<a, b, c>>[2] = b /\ <<a, b, c>>[3] = c
<1>1. a \in Nat /\ b \in Nat /\ c \in Nat
  BY DEF Unsigned30
<1>2. /\ <<a, b, c>> \in Seq(Int) /\ Len(<<a, b, c>>) = 3
      /\ <<a, b, c>>[1] = a /\ <<a, b, c>>[2] = b /\ <<a, b, c>>[3] = c
      /\ \A k \in 1..3 : k = 1 \/ k = 2 \/ k = 3
  BY <1>1, SMT
<1>3. \A k \in 1..3 : Unsigned30(<<a, b, c>>[k])
  BY <1>2
<1> QED BY <1>2, <1>3 DEF Unsigned30s

LEMMA SmallNumbers ==
  Unsigned30(1) /\ Unsigned30(4) /\ Unsigned30(5) /\ Unsigned30(7) /\ Unsigned30(9)
    /\ Unsigned30(150)
BY SMT DEF Unsigned30

(* The parts of the tag of a trait (avm.cpp:71-75).                        *)
LEMMA TagParts ==
  ASSUME NEW t, TraitOf(t)
  PROVE  /\ Tag(t) \in 0..255 /\ Tag(t) % 16 = t.kind
         /\ (Tag(t) \div 64) % 2 = 1 <=> t.metadata # <<>>
<1>1. t.kind \in 0..6
  BY DEF TraitOf, TraitRecord
<1>2. \A k \in 0..6 : /\ k + 0 \in 0..255 /\ (k + 0) % 16 = k /\ ((k + 0) \div 64) % 2 = 0
                      /\ k + 64 \in 0..255 /\ (k + 64) % 16 = k /\ ((k + 64) \div 64) % 2 = 1
  BY SMT
<1>3. 0 # 1
  OBVIOUS
<1> QED BY <1>1, <1>2, <1>3, Zenon DEF Tag

LEMMA LabelsReadBack ==
  ASSUME NEW t, TraitOf(t)
  PROVE  /\ Labels(t) \in Bytes /\ Len(Labels(t)) \in Nat
         /\ \A p : LiesAt(Labels(t), p) =>
              NumbersAt(<<"U30", "Byte">>, p) = [v |-> <<t.name, Tag(t)>>,
                                                 next |-> p + Len(Labels(t))]
<1> DEFINE kinds == <<"U30", "Byte">>
           values == <<t.name, Tag(t)>>
<1>1. t.name \in Nat /\ Unsigned30(t.name) /\ Tag(t) \in 0..255
  BY TagParts DEF TraitOf, TraitRecord
<1>2. \A v \in 0..255 : v \in Int
  BY SMT
<1>3. /\ kinds \in Seq(NumberKinds) /\ Len(kinds) = 2 /\ kinds[1] = "U30" /\ kinds[2] = "Byte"
      /\ \A k \in 1..2 : k = 1 \/ k = 2
  BY SMT DEF NumberKinds
<1>4. values \in Seq(Int) /\ Len(values) = 2 /\ values[1] = t.name /\ values[2] = Tag(t)
  BY <1>1, <1>2
<1> HIDE DEF kinds, values
<1>5. Numeral(kinds[1], values[1]) /\ Numeral(kinds[2], values[2])
  BY <1>1, <1>3, <1>4, Zenon DEF Numeral
<1>6. Numerals(kinds, values)
  BY <1>3, <1>4, <1>5 DEF Numerals
<1>7. Labels(t) = Written(kinds, values)
  BY DEF Labels, kinds, values
<1>8. Labels(t) \in Bytes /\ Len(Labels(t)) \in Nat
  BY <1>6, <1>7, WrittenType
<1>9. ASSUME NEW p, LiesAt(Labels(t), p)
      PROVE  NumbersAt(kinds, p) = [v |-> values, next |-> p + Len(Labels(t))]
  BY <1>6, <1>7, <1>9, NumbersReadBack
<1> QED BY <1>8, <1>9 DEF kinds, values

LEMMA BodyReadsBack ==
  ASSUME NEW t, TraitOf(t)
  PROVE  /\ BodyBytes(t) \in Bytes /\ Len(BodyBytes(t)) \in Nat
         /\ t.kind # Function =>
              \A p : LiesAt(BodyBytes(t), p) =>
                BodyAt(t.kind, p) = [id |-> t.a, type |-> IF t.kind \in Slots THEN t.b ELSE 0,
                                     next |-> p + Len(BodyBytes(t))]
<1>1. Unsigned30(t.a) /\ Unsigned30(t.b) /\ t.a \in Nat /\ t.b \in Nat
  BY DEF TraitOf, TraitRecord
<1>2. CASE t.kind \in Slots
  <2> DEFINE values == <<1, t.b, t.a>>
             numbers == U30s(values)
             value == Value(t)
  <2>1. /\ Unsigned30s(values) /\ Len(values) = 3
        /\ values[2] = t.b /\ values[3] = t.a
    BY <1>1, ThreeNumbers, SmallNumbers
  <2> HIDE DEF values
  <2>2. /\ numbers \in Bytes /\ Len(numbers) \in Nat
        /\ \A p : LiesAt(numbers, p) =>
             NumbersAt(All("U30", 3), p) = [v |-> values, next |-> p + Len(numbers)]
    BY <2>1, U30sReadBack
  <2>3. value \in Bytes /\ Len(value) = IF t.a = 0 THEN 0 ELSE 1
    BY NoBytes DEF Value
  <2>4. BodyBytes(t) = numbers \o value
    BY <1>2, Zenon DEF BodyBytes, Value, values
  <2> HIDE DEF numbers, value
  <2>5. BodyBytes(t) \in Bytes /\ Len(BodyBytes(t)) = Len(numbers) + Len(value)
    BY <2>2, <2>3, <2>4, Joined
  <2>6. ASSUME NEW p, LiesAt(BodyBytes(t), p)
        PROVE  BodyAt(t.kind, p) = [id |-> t.a, type |-> t.b, next |-> p + Len(BodyBytes(t))]
    <3>1. LiesAt(numbers, p) /\ p \in Nat
      <4>1. p \in Nat
        BY <2>6 DEF LiesAt
      <4> QED BY <2>2, <2>3, <2>4, <2>6, <4>1, LiesBoth
    <3> DEFINE r == NumbersAt(All("U30", 3), p)
    <3>2. r = [v |-> values, next |-> p + Len(numbers)]
      BY <2>2, <3>1
    <3>3. BodyAt(t.kind, p) = [id |-> r.v[3], type |-> r.v[2],
                               next |-> r.next + IF r.v[3] = 0 THEN 0 ELSE 1]
      <4>1. t.kind \notin Methods
        BY <1>2, SMT DEF Slots, Methods
      <4> QED BY <1>2, <4>1, Zenon DEF BodyAt, SlotAt
    <3> HIDE DEF r
    <3>4. r.v[3] = t.a /\ r.v[2] = t.b /\ r.next = p + Len(numbers)
      BY <2>1, <3>2
    <3>5. r.next + (IF t.a = 0 THEN 0 ELSE 1) = p + Len(BodyBytes(t))
      BY <2>2, <2>3, <2>5, <3>1, <3>4, SMT
    <3> QED BY <3>3, <3>4, <3>5, Zenon
  <2>7. Len(BodyBytes(t)) \in Nat
    BY <2>5 DEF Bytes
  <2> QED BY <1>2, <2>5, <2>6, <2>7
<1>3. CASE t.kind \notin Slots
  <2> DEFINE values == <<1, t.a>>
  <2>1. Unsigned30s(values) /\ Len(values) = 2 /\ values[2] = t.a
    BY <1>1, TwoNumbers, SmallNumbers
  <2>2. BodyBytes(t) = U30s(values)
    BY <1>3, Zenon DEF BodyBytes
  <2> HIDE DEF values
  <2>3. /\ BodyBytes(t) \in Bytes /\ Len(BodyBytes(t)) \in Nat
        /\ \A p : LiesAt(BodyBytes(t), p) =>
             NumbersAt(All("U30", 2), p) = [v |-> values, next |-> p + Len(BodyBytes(t))]
    BY <2>1, <2>2, U30sReadBack
  <2>4. ASSUME t.kind # Function, NEW p, LiesAt(BodyBytes(t), p)
        PROVE  BodyAt(t.kind, p) = [id |-> t.a, type |-> 0, next |-> p + Len(BodyBytes(t))]
    <3> DEFINE r == NumbersAt(All("U30", 2), p)
    <3>1. r = [v |-> values, next |-> p + Len(BodyBytes(t))]
      BY <2>3, <2>4
    <3>2. t.kind \in Methods
      <4>1. t.kind \in 0..6
        BY DEF TraitOf, TraitRecord
      <4> QED BY <1>3, <2>4, <4>1, SMT DEF Slots, Methods, Function
    <3>3. BodyAt(t.kind, p) = [id |-> r.v[2], type |-> 0, next |-> r.next]
      BY <1>3, <3>2, Zenon DEF BodyAt, MethodAt
    <3> HIDE DEF r
    <3>4. r.v[2] = t.a /\ r.next = p + Len(BodyBytes(t))
      BY <2>1, <3>1
    <3> QED BY <3>3, <3>4
  <2> QED BY <1>3, <2>3, <2>4
<1> QED BY <1>2, <1>3

LEMMA MetaReadsBack ==
  ASSUME NEW t, TraitOf(t)
  PROVE  /\ Meta(t) \in Bytes /\ Len(Meta(t)) \in Nat
         /\ t.metadata = <<>> => Len(Meta(t)) = 0
         /\ t.metadata # <<>> =>
              \A p : LiesAt(Meta(t), p) => MetadataAt(p).next = p + Len(Meta(t))
<1>1. CASE t.metadata = <<>>
  BY <1>1, NoBytes DEF Meta
<1>2. CASE t.metadata # <<>>
  <2> DEFINE n == Len(t.metadata)
             a == U30Bytes(n)
             b == U30s(t.metadata)
  <2>1. Unsigned30(n) /\ Unsigned30s(t.metadata)
    BY DEF TraitOf
  <2>2. /\ b \in Bytes /\ Len(b) \in Nat
        /\ \A p : LiesAt(b, p) =>
             NumbersAt(All("U30", n), p) = [v |-> t.metadata, next |-> p + Len(b)]
    BY <2>1, U30sReadBack
  <2> HIDE DEF n
  <2>3. /\ a \in Bytes /\ Len(a) \in Nat
        /\ \A p : LiesAt(a, p) => U32At(p) = [v |-> n, next |-> p + Len(a)]
    BY <2>1, U30Type, U30ReadsBack
  <2>4. Meta(t) = a \o b
    BY <1>2, Zenon DEF Meta, n
  <2> HIDE DEF a, b
  <2>5. Meta(t) \in Bytes /\ Len(Meta(t)) = Len(a) + Len(b) /\ Len(Meta(t)) \in Nat
    <3>1. Meta(t) \in Bytes /\ Len(Meta(t)) = Len(a) + Len(b)
      BY <2>2, <2>3, <2>4, Joined
    <3> QED BY <3>1 DEF Bytes
  <2>6. ASSUME NEW p, LiesAt(Meta(t), p)
        PROVE  MetadataAt(p).next = p + Len(Meta(t))
    <3>1. LiesAt(a, p) /\ LiesAt(b, p + Len(a)) /\ p \in Nat
      <4>1. p \in Nat
        BY <2>6 DEF LiesAt
      <4> QED BY <2>2, <2>3, <2>4, <2>6, <4>1, LiesBoth
    <3>2. U32At(p).v = n /\ U32At(p).next = p + Len(a)
      <4>1. U32At(p) = [v |-> n, next |-> p + Len(a)]
        BY <2>3, <3>1
      <4> QED BY <4>1
    <3>3. MetadataAt(p) = NumbersAt(All("U30", n), p + Len(a))
      BY <3>2, Zenon DEF MetadataAt
    <3>4. NumbersAt(All("U30", n), p + Len(a)) = [v |-> t.metadata, next |-> (p + Len(a)) + Len(b)]
      BY <2>2, <3>1
    <3>5. (p + Len(a)) + Len(b) = p + Len(Meta(t))
      BY <2>2, <2>3, <2>5, <3>1, SMT
    <3> QED BY <3>3, <3>4, <3>5
  <2> QED BY <1>2, <2>5, <2>6
<1> QED BY <1>1, <1>2

LEMMA TraitBytesParts ==
  ASSUME NEW t, TraitOf(t)
  PROVE  /\ TraitBytes(t) = Labels(t) \o BodyBytes(t) \o Meta(t)
         /\ Labels(t) \o BodyBytes(t) \in Bytes /\ TraitBytes(t) \in Bytes
         /\ Len(TraitBytes(t)) = (Len(Labels(t)) + Len(BodyBytes(t))) + Len(Meta(t))
         /\ Len(Labels(t) \o BodyBytes(t)) = Len(Labels(t)) + Len(BodyBytes(t))
<1>1. TraitBytes(t) = Labels(t) \o BodyBytes(t) \o Meta(t)
  BY Zenon DEF TraitBytes, Labels, Meta, Tag
<1>2. Labels(t) \in Bytes /\ BodyBytes(t) \in Bytes /\ Meta(t) \in Bytes
  BY LabelsReadBack, BodyReadsBack, MetaReadsBack
<1>3. /\ Labels(t) \o BodyBytes(t) \in Bytes
      /\ Len(Labels(t) \o BodyBytes(t)) = Len(Labels(t)) + Len(BodyBytes(t))
  BY <1>2, Joined
<1>4. /\ Labels(t) \o BodyBytes(t) \o Meta(t) \in Bytes
      /\ Len(Labels(t) \o BodyBytes(t) \o Meta(t))
           = Len(Labels(t) \o BodyBytes(t)) + Len(Meta(t))
  BY <1>2, <1>3, Joined
<1> QED BY <1>1, <1>3, <1>4

(* A trait that is not a function is read as it was written.               *)
THEOREM TraitReadsBack ==
  ASSUME NEW t, TraitOf(t), t.kind # Function, NEW p, LiesAt(TraitBytes(t), p)
  PROVE  TraitAt(p) = [trait |-> Described(t), next |-> p + Len(TraitBytes(t))]
<1> DEFINE labels == Labels(t)
           body == BodyBytes(t)
           meta == Meta(t)
<1>1. /\ labels \in Bytes /\ body \in Bytes /\ meta \in Bytes
      /\ Len(labels) \in Nat /\ Len(body) \in Nat /\ Len(meta) \in Nat
  BY LabelsReadBack, BodyReadsBack, MetaReadsBack
<1>2. /\ TraitBytes(t) = labels \o body \o meta /\ labels \o body \in Bytes
      /\ Len(TraitBytes(t)) = (Len(labels) + Len(body)) + Len(meta)
      /\ Len(labels \o body) = Len(labels) + Len(body)
  BY TraitBytesParts
<1>3. p \in Nat
  BY DEF LiesAt
<1>4. LiesAt(labels \o body, p) /\ LiesAt(meta, p + Len(labels \o body))
  <2>1. LiesAt((labels \o body) \o meta, p)
    BY <1>2
  <2> HIDE DEF labels, body, meta
  <2> QED BY <1>1, <1>2, <2>1, LiesBoth
<1>5. LiesAt(labels, p) /\ LiesAt(body, p + Len(labels))
  <2> HIDE DEF labels, body, meta
  <2> QED BY <1>1, <1>4, LiesBoth
<1> DEFINE head == NumbersAt(<<"U30", "Byte">>, p)
           name == head.v[1]
           tag == head.v[2]
           rest == BodyAt(tag % 16, head.next)
<1>6. name = t.name /\ tag = Tag(t) /\ head.next = p + Len(labels)
  <2>1. head = [v |-> <<t.name, Tag(t)>>, next |-> p + Len(labels)]
    BY <1>5, LabelsReadBack
  <2>2. <<t.name, Tag(t)>>[1] = t.name /\ <<t.name, Tag(t)>>[2] = Tag(t)
    OBVIOUS
  <2> HIDE DEF head
  <2>3. head.v = <<t.name, Tag(t)>> /\ head.next = p + Len(labels)
    BY <2>1
  <2> QED BY <2>2, <2>3
<1>7. rest = [id |-> t.a, type |-> IF t.kind \in Slots THEN t.b ELSE 0,
              next |-> (p + Len(labels)) + Len(body)]
  <2>1. tag % 16 = t.kind
    BY <1>6, TagParts
  <2> HIDE DEF tag, head
  <2>2. rest = BodyAt(t.kind, p + Len(labels))
    BY <1>6, <2>1
  <2> QED BY <1>5, <2>2, BodyReadsBack
<1>8. TraitAt(p) = [trait |-> [kind |-> tag % 16, name |-> name, named |-> name < PoolSize,
                               id |-> rest.id, type |-> rest.type],
                    next |-> IF (tag \div 64) % 2 = 1 THEN MetadataAt(rest.next).next
                             ELSE rest.next]
  BY Zenon DEF TraitAt
<1> HIDE DEF head, name, tag, rest
<1>9. /\ rest.id = t.a /\ rest.type = IF t.kind \in Slots THEN t.b ELSE 0
      /\ rest.next = (p + Len(labels)) + Len(body)
  BY <1>7
<1>10. tag % 16 = t.kind /\ ((tag \div 64) % 2 = 1 <=> t.metadata # <<>>)
  BY <1>6, TagParts
<1>11. [kind |-> tag % 16, name |-> name, named |-> name < PoolSize,
        id |-> rest.id, type |-> rest.type] = Described(t)
  BY <1>6, <1>9, <1>10, Zenon DEF Described
<1>12. (IF (tag \div 64) % 2 = 1 THEN MetadataAt(rest.next).next ELSE rest.next)
         = p + Len(TraitBytes(t))
  <2>1. /\ (p + Len(labels)) + Len(body) = p + Len(labels \o body)
        /\ p + Len(TraitBytes(t)) = (p + Len(labels \o body)) + Len(meta)
        /\ (p + Len(labels \o body)) + 0 = p + Len(labels \o body)
    <3> HIDE DEF labels, body, meta
    <3> QED BY <1>1, <1>2, <1>3, SMT
  <2>2. CASE t.metadata = <<>>
    <3>1. Len(meta) = 0
      BY <2>2, MetaReadsBack
    <3> QED BY <1>9, <1>10, <2>1, <2>2, <3>1
  <2>3. CASE t.metadata # <<>>
    <3>1. MetadataAt(p + Len(labels \o body)).next = (p + Len(labels \o body)) + Len(meta)
      BY <1>4, <2>3, MetaReadsBack
    <3> QED BY <1>9, <1>10, <2>1, <2>3, <3>1
  <2> QED BY <2>2, <2>3
<1> QED BY <1>8, <1>11, <1>12

(* Whatever lies there, something is read as a trait.                      *)
LEMMA TraitType ==
  ASSUME DataOK, NEW p \in Nat
  PROVE  TraitAt(p).trait \in Traits /\ TraitAt(p).next \in Nat
<1>1. "U30" \in NumberKinds /\ "U30" # "S24"
  BY DEF NumberKinds
<1>2. ASSUME NEW n \in Nat, NEW q \in Nat
      PROVE  /\ NumbersAt(All("U30", n), q).next \in Nat
             /\ \A k \in 1..n : NumbersAt(All("U30", n), q).v[k] \in Nat
  <2>1. /\ All("U30", n) \in Seq(NumberKinds) /\ Len(All("U30", n)) = n
        /\ \A k \in 1..n : All("U30", n)[k] = "U30"
    BY <1>1, AllType
  <2> QED BY <1>1, <2>1, NumbersType
<1>3. ASSUME NEW kind, NEW q \in Nat
      PROVE  BodyAt(kind, q) \in [id : Nat, type : Nat, next : Nat]
  <2>1. SlotAt(q) \in [id : Nat, type : Nat, next : Nat]
    <3> DEFINE r == NumbersAt(All("U30", 3), q)
    <3>1. 3 \in Nat /\ 2 \in 1..3 /\ 3 \in 1..3
      BY SMT
    <3>2. r.next \in Nat /\ r.v[2] \in Nat /\ r.v[3] \in Nat
      BY <1>2, <3>1
    <3>3. SlotAt(q) = [id |-> r.v[3], type |-> r.v[2],
                       next |-> r.next + IF r.v[3] = 0 THEN 0 ELSE 1]
      BY Zenon DEF SlotAt
    <3> HIDE DEF r
    <3>4. r.next + (IF r.v[3] = 0 THEN 0 ELSE 1) \in Nat
      BY <3>2, SMT
    <3> QED BY <3>2, <3>3, <3>4
  <2>2. MethodAt(q) \in [id : Nat, type : Nat, next : Nat]
    <3> DEFINE r == NumbersAt(All("U30", 2), q)
    <3>1. 2 \in Nat /\ 2 \in 1..2 /\ 0 \in Nat
      BY SMT
    <3>2. r.next \in Nat /\ r.v[2] \in Nat
      BY <1>2, <3>1
    <3>3. MethodAt(q) = [id |-> r.v[2], type |-> 0, next |-> r.next]
      BY Zenon DEF MethodAt
    <3> HIDE DEF r
    <3> QED BY <3>1, <3>2, <3>3
  <2>3. [id |-> 0, type |-> 0, next |-> q] \in [id : Nat, type : Nat, next : Nat]
    OBVIOUS
  <2>4. \A x : x \in Slots => x \notin Methods
    BY SMT DEF Slots, Methods
  <2> QED BY <2>1, <2>2, <2>3, <2>4, Zenon DEF BodyAt
<1>4. ASSUME NEW q \in Nat
      PROVE  MetadataAt(q).next \in Nat
  <2>1. U32At(q).v \in Nat /\ U32At(q).next \in Nat
    BY U32Type
  <2>2. MetadataAt(q) = NumbersAt(All("U30", U32At(q).v), U32At(q).next)
    BY Zenon DEF MetadataAt
  <2> QED BY <1>2, <2>1, <2>2
<1> DEFINE kinds == <<"U30", "Byte">>
           head == NumbersAt(kinds, p)
           name == head.v[1]
           tag == head.v[2]
           rest == BodyAt(tag % 16, head.next)
<1>5. name \in Nat /\ tag \in Nat /\ head.next \in Nat
  <2>1. /\ kinds \in Seq(NumberKinds) /\ Len(kinds) = 2 /\ 1 \in 1..2 /\ 2 \in 1..2
        /\ kinds[1] # "S24" /\ kinds[2] # "S24"
    BY SMT DEF NumberKinds
  <2> HIDE DEF kinds
  <2> QED BY <2>1, NumbersType
<1>6. TraitAt(p) = [trait |-> [kind |-> tag % 16, name |-> name, named |-> name < PoolSize,
                               id |-> rest.id, type |-> rest.type],
                    next |-> IF (tag \div 64) % 2 = 1 THEN MetadataAt(rest.next).next
                             ELSE rest.next]
  BY Zenon DEF TraitAt
<1> HIDE DEF head, name, tag
<1>7. rest \in [id : Nat, type : Nat, next : Nat]
  BY <1>3, <1>5
<1> HIDE DEF rest
<1>8. tag % 16 \in Nat /\ (name < PoolSize) \in BOOLEAN
  BY <1>5, SMT
<1>9. rest.id \in Nat /\ rest.type \in Nat /\ rest.next \in Nat
  BY <1>7
<1>10. MetadataAt(rest.next).next \in Nat
  BY <1>4, <1>9
<1> QED BY <1>5, <1>6, <1>8, <1>9, <1>10 DEF Traits

-----------------------------------------------------------------------------
(* Classes.                                                                *)
ProperTraits(traits) ==
  traits \in Seq(TraitRecord) /\ \A k \in 1..Len(traits) : TraitOf(traits[k])

TraitParts(traits) == [k \in DOMAIN traits |-> TraitBytes(traits[k])]

LEMMA TraitPartsType ==
  ASSUME NEW traits, ProperTraits(traits)
  PROVE  /\ TraitParts(traits) \in Seq(Bytes)
         /\ Len(TraitParts(traits)) = Len(traits) /\ Len(traits) \in Nat
         /\ TraitsBytes(traits) = FlattenSeq(TraitParts(traits))
         /\ TraitsBytes(traits) \in Bytes /\ Len(TraitsBytes(traits)) \in Nat
         /\ \A k \in 1..Len(traits) : TraitParts(traits)[k] = TraitBytes(traits[k])
<1>1. DOMAIN traits = 1..Len(traits) /\ Len(traits) \in Nat
  BY DEF ProperTraits
<1>2. ASSUME NEW k \in 1..Len(traits)
      PROVE  TraitBytes(traits[k]) \in Bytes
  BY TraitBytesParts DEF ProperTraits
<1>3. TraitParts(traits) = [k \in 1..Len(traits) |-> TraitBytes(traits[k])]
  BY <1>1, Zenon DEF TraitParts
<1>4. TraitParts(traits) \in Seq(Bytes) /\ Len(TraitParts(traits)) = Len(traits)
  BY <1>1, <1>2, <1>3
<1>5. TraitsBytes(traits) = FlattenSeq(TraitParts(traits))
  BY Zenon DEF TraitsBytes, TraitParts
<1> QED BY <1>1, <1>3, <1>4, <1>5, BeforeEnds

LEMMA TraitsBefore ==
  ASSUME NEW traits, ProperTraits(traits), NEW k \in 0..Len(traits)
  PROVE  TraitsBytes(SubSeq(traits, 1, k)) = Before(TraitParts(traits), k)
<1> DEFINE first == SubSeq(traits, 1, k)
           parts == TraitParts(traits)
<1>1. /\ parts \in Seq(Bytes) /\ Len(parts) = Len(traits) /\ traits \in Seq(TraitRecord)
      /\ \A i \in 1..Len(traits) : parts[i] = TraitBytes(traits[i])
  BY TraitPartsType DEF ProperTraits
<1>2. /\ first \in Seq(TraitRecord) /\ Len(first) = k
      /\ \A i \in 1..k : first[i] = traits[i]
  BY <1>1, Prefix
<1>3. /\ SubSeq(parts, 1, k) \in Seq(Bytes) /\ Len(SubSeq(parts, 1, k)) = k
      /\ \A i \in 1..k : SubSeq(parts, 1, k)[i] = parts[i]
  BY <1>1, Prefix
<1>4. DOMAIN first = 1..k
  BY <1>2
<1> HIDE DEF first, parts
<1>5. \A i \in 1..k : i \in 1..Len(traits)
  <2>1. Len(traits) \in Nat
    BY TraitPartsType
  <2> QED BY <2>1, SMT
<1>6. \A i \in 1..k : TraitBytes(first[i]) = SubSeq(parts, 1, k)[i]
  BY <1>1, <1>2, <1>3, <1>5, Zenon
<1>7. [i \in 1..k |-> TraitBytes(first[i])] = SubSeq(parts, 1, k)
  <2>1. SubSeq(parts, 1, k) = [i \in 1..k |-> SubSeq(parts, 1, k)[i]]
    BY <1>3
  <2> QED BY <1>6, <2>1, Zenon
<1>8. TraitsBytes(first) = FlattenSeq(SubSeq(parts, 1, k))
  BY <1>4, <1>7, Zenon DEF TraitsBytes
<1> QED BY <1>8 DEF Before, first, parts

(* Each trait lies after those before it.                                  *)
LEMMA TraitLies ==
  ASSUME NEW traits, ProperTraits(traits), NEW p, LiesAt(TraitsBytes(traits), p),
         NEW k \in Nat, k < Len(traits)
  PROVE  /\ LiesAt(TraitBytes(traits[k + 1]), p + Len(TraitsBytes(SubSeq(traits, 1, k))))
         /\ Len(TraitsBytes(SubSeq(traits, 1, k + 1)))
              = Len(TraitsBytes(SubSeq(traits, 1, k))) + Len(TraitBytes(traits[k + 1]))
         /\ Len(TraitsBytes(SubSeq(traits, 1, k))) \in Nat
         /\ Len(TraitBytes(traits[k + 1])) \in Nat
<1> DEFINE parts == TraitParts(traits)
<1>1. /\ parts \in Seq(Bytes) /\ Len(parts) = Len(traits) /\ Len(traits) \in Nat
      /\ TraitsBytes(traits) = FlattenSeq(parts)
      /\ \A i \in 1..Len(traits) : parts[i] = TraitBytes(traits[i])
  BY TraitPartsType
<1>2. k + 1 \in 1..Len(traits) /\ (k + 1) - 1 = k /\ k \in 0..Len(traits) /\ k + 1 \in 0..Len(traits)
  BY <1>1, SMT
<1>3. /\ TraitsBytes(SubSeq(traits, 1, k)) = Before(parts, k)
      /\ TraitsBytes(SubSeq(traits, 1, k + 1)) = Before(parts, k + 1)
  BY <1>2, TraitsBefore
<1> HIDE DEF parts
<1>4. parts[k + 1] = TraitBytes(traits[k + 1])
  BY <1>1, <1>2
<1>5. LiesAt(parts[k + 1], p + Len(Before(parts, (k + 1) - 1)))
  BY <1>1, <1>2, LiesPart
<1>6. /\ Len(Before(parts, k + 1)) = Len(Before(parts, (k + 1) - 1)) + Len(parts[k + 1])
      /\ Len(parts[k + 1]) \in Nat
  BY <1>1, <1>2, BeforeLength
<1>7. Len(Before(parts, k)) \in Nat
  BY <1>1, <1>2, BeforeType
<1> QED BY <1>2, <1>3, <1>4, <1>5, <1>6, <1>7

(* A class that is written for parse_traits.                               *)
ClassInput == input \in Inputs /\ input.what = "class" /\ data = InputBytes(input)

LEMMA ClassInputType ==
  ASSUME ClassInput
  PROVE  /\ Unsigned30(input.class.flags) /\ Unsigned30s(input.class.interfaces)
         /\ Unsigned30(Len(input.class.interfaces))
         /\ ProperTraits(input.class.traits) /\ Unsigned30(Len(input.class.traits))
         /\ DOMAIN input.class.traits = 1..Len(input.class.traits)
         /\ data = ClassBytes(input.class)
<1> DEFINE class == input.class
<1>1. class \in Classes
  <2>1. input \in [what : {"class"}, class : Classes]
    BY DEF ClassInput, Inputs
  <2> QED BY <2>1
<1>2. data = ClassBytes(class)
  BY DEF ClassInput, InputBytes
<1> HIDE DEF class
<1>3. class \in [flags : Nat, interfaces : Seq(Nat), traits : Seq(TraitRecord)]
  BY <1>1, ClassesAssumption DEF TraitRecord
<1>4. /\ class.interfaces \in Seq(Nat) /\ class.traits \in Seq(TraitRecord)
  BY <1>3
<1>5. /\ Unsigned30(class.flags) /\ Unsigned30(Len(class.interfaces))
      /\ Unsigned30(Len(class.traits))
      /\ \A k \in DOMAIN class.interfaces : Unsigned30(class.interfaces[k])
  BY <1>1, ClassesAssumption
<1>6. \A k \in DOMAIN class.traits :
        /\ Unsigned30(class.traits[k].name) /\ Unsigned30(class.traits[k].a)
        /\ Unsigned30(class.traits[k].b) /\ Unsigned30(Len(class.traits[k].metadata))
        /\ \A l \in DOMAIN class.traits[k].metadata : Unsigned30(class.traits[k].metadata[l])
  BY <1>1, ClassesAssumption
<1>7. /\ DOMAIN class.traits = 1..Len(class.traits)
      /\ DOMAIN class.interfaces = 1..Len(class.interfaces)
      /\ class.interfaces \in Seq(Int)
  BY <1>4, SMT
<1>8. Unsigned30s(class.interfaces)
  BY <1>5, <1>7 DEF Unsigned30s
<1>9. ASSUME NEW k \in 1..Len(class.traits)
      PROVE  TraitOf(class.traits[k])
  <2> DEFINE t == class.traits[k]
  <2>1. t \in TraitRecord
    BY <1>4, Elements
  <2>2. /\ Unsigned30(t.name) /\ Unsigned30(t.a) /\ Unsigned30(t.b)
        /\ Unsigned30(Len(t.metadata))
        /\ \A l \in DOMAIN t.metadata : Unsigned30(t.metadata[l])
    BY <1>6, <1>7
  <2> HIDE DEF t
  <2>3. t.metadata \in Seq(Nat)
    BY <2>1 DEF TraitRecord
  <2>4. t.metadata \in Seq(Int) /\ DOMAIN t.metadata = 1..Len(t.metadata)
    BY <2>3, SMT
  <2>5. Unsigned30s(t.metadata)
    BY <2>2, <2>4 DEF Unsigned30s
  <2> QED BY <2>1, <2>2, <2>5 DEF TraitOf, t
<1> QED BY <1>2, <1>4, <1>5, <1>7, <1>8, <1>9 DEF ProperTraits, class

(* Where the traits are, and how many.                                     *)
TraitsPlace == Len(data) - Len(TraitsBytes(input.class.traits))

LEMMA TraitsLie ==
  ASSUME ClassInput
  PROVE  /\ DataOK /\ Len(data) \in Nat /\ TraitsPlace \in Nat
         /\ LiesAt(TraitsBytes(input.class.traits), TraitsPlace)
         /\ LET names == NumbersAt(All("U30", 3), 0)
                protected == NumbersAt(All("U30", IF Protected(names.v[3]) THEN 1 ELSE 0),
                                       names.next)
                count == U32At(protected.next)
                interfaces == NumbersAt(All("U30", count.v), count.next)
                traits == NumbersAt(All("U30", 2), interfaces.next)
            IN traits.next = TraitsPlace /\ traits.v[2] = Len(input.class.traits)
<1> DEFINE c == input.class
           va == <<7, 150, c.flags>>
           vb == IF Protected(c.flags) THEN <<5>> ELSE <<>>
           vd == c.interfaces
           ve == <<9, Len(c.traits)>>
           a == U30s(va)
           b == U30s(vb)
           n == U30Bytes(Len(c.interfaces))
           d == U30s(vd)
           e == U30s(ve)
           f == TraitsBytes(c.traits)
<1>1. /\ Unsigned30(c.flags) /\ Unsigned30s(vd) /\ Unsigned30(Len(vd))
      /\ ProperTraits(c.traits) /\ Unsigned30(Len(c.traits)) /\ data = ClassBytes(c)
  BY ClassInputType
<1>2. Unsigned30s(va) /\ Len(va) = 3 /\ va[3] = c.flags
  <2> HIDE DEF c
  <2> QED BY <1>1, SmallNumbers, ThreeNumbers
<1>3. Unsigned30s(ve) /\ Len(ve) = 2 /\ ve[2] = Len(c.traits)
  <2> HIDE DEF c
  <2> QED BY <1>1, SmallNumbers, TwoNumbers
<1>4. Unsigned30s(vb) /\ Len(vb) = IF Protected(c.flags) THEN 1 ELSE 0
  <2>1. Unsigned30s(<<5>>) /\ Len(<<5>>) = 1
    BY SmallNumbers, U30Type
  <2>2. Unsigned30s(<<>>) /\ Len(<<>>) = 0
    <3>1. <<>> \in Seq(Int) /\ Len(<<>>) = 0 /\ \A k \in 1..0 : FALSE
      BY SMT
    <3> QED BY <3>1 DEF Unsigned30s
  <2> HIDE DEF c
  <2> QED BY <2>1, <2>2
<1>5. data = a \o b \o n \o d \o e \o f
  BY <1>1, Zenon DEF ClassBytes
<1> HIDE DEF va, vb, ve
<1>6. /\ a \in Bytes /\ Len(a) \in Nat
      /\ \A p : LiesAt(a, p) => NumbersAt(All("U30", 3), p) = [v |-> va, next |-> p + Len(a)]
  BY <1>2, U30sReadBack
<1>7. /\ b \in Bytes /\ Len(b) \in Nat
      /\ \A p : LiesAt(b, p) =>
           NumbersAt(All("U30", IF Protected(c.flags) THEN 1 ELSE 0), p)
             = [v |-> vb, next |-> p + Len(b)]
  BY <1>4, U30sReadBack
<1>8. /\ n \in Bytes /\ Len(n) \in Nat
      /\ \A p : LiesAt(n, p) => U32At(p) = [v |-> Len(vd), next |-> p + Len(n)]
  <2> HIDE DEF c
  <2> QED BY <1>1, U30Type, U30ReadsBack
<1>9. /\ d \in Bytes /\ Len(d) \in Nat
      /\ \A p : LiesAt(d, p) =>
           NumbersAt(All("U30", Len(vd)), p) = [v |-> vd, next |-> p + Len(d)]
  <2> HIDE DEF c
  <2> QED BY <1>1, U30sReadBack
<1>10. /\ e \in Bytes /\ Len(e) \in Nat
       /\ \A p : LiesAt(e, p) => NumbersAt(All("U30", 2), p) = [v |-> ve, next |-> p + Len(e)]
  BY <1>3, U30sReadBack
<1>11. f \in Bytes /\ Len(f) \in Nat
  BY <1>1, TraitPartsType
<1> HIDE DEF a, b, n, d, e, f
<1>12. /\ a \o b \in Bytes /\ Len(a \o b) = Len(a) + Len(b)
  BY <1>6, <1>7, Joined
<1>13. /\ a \o b \o n \in Bytes /\ Len(a \o b \o n) = (Len(a) + Len(b)) + Len(n)
  BY <1>8, <1>12, Joined
<1>14. /\ a \o b \o n \o d \in Bytes
       /\ Len(a \o b \o n \o d) = ((Len(a) + Len(b)) + Len(n)) + Len(d)
  BY <1>9, <1>13, Joined
<1>15. /\ a \o b \o n \o d \o e \in Bytes
       /\ Len(a \o b \o n \o d \o e) = (((Len(a) + Len(b)) + Len(n)) + Len(d)) + Len(e)
  BY <1>10, <1>14, Joined
<1>16. /\ data \in Bytes
       /\ Len(data) = ((((Len(a) + Len(b)) + Len(n)) + Len(d)) + Len(e)) + Len(f)
  BY <1>5, <1>11, <1>15, Joined
<1>17. LiesAt(data, 0) /\ DataOK /\ Len(data) \in Nat
  BY <1>16, LiesAtStart
<1>18. /\ LiesAt(a \o b \o n \o d \o e, 0)
       /\ LiesAt(f, 0 + Len(a \o b \o n \o d \o e))
  BY <1>5, <1>11, <1>15, <1>17, LiesBoth
<1>19. LiesAt(a \o b \o n \o d, 0) /\ LiesAt(e, 0 + Len(a \o b \o n \o d))
  BY <1>10, <1>14, <1>18, LiesBoth
<1>20. LiesAt(a \o b \o n, 0) /\ LiesAt(d, 0 + Len(a \o b \o n))
  BY <1>9, <1>13, <1>19, LiesBoth
<1>21. LiesAt(a \o b, 0) /\ LiesAt(n, 0 + Len(a \o b))
  BY <1>8, <1>12, <1>20, LiesBoth
<1>22. LiesAt(a, 0) /\ LiesAt(b, 0 + Len(a))
  BY <1>6, <1>7, <1>21, LiesBoth
<1> DEFINE names == NumbersAt(All("U30", 3), 0)
           protected == NumbersAt(All("U30", IF Protected(names.v[3]) THEN 1 ELSE 0), names.next)
           count == U32At(protected.next)
           interfaces == NumbersAt(All("U30", count.v), count.next)
           traits == NumbersAt(All("U30", 2), interfaces.next)
<1>23. \A x \in Nat : 0 + x = x
  BY SMT
<1>24. names.v[3] = c.flags /\ names.next = 0 + Len(a)
  <2>1. names = [v |-> va, next |-> 0 + Len(a)]
    BY <1>6, <1>22
  <2> HIDE DEF names
  <2> QED BY <1>2, <2>1
<1>25. protected.next = 0 + Len(a \o b)
  <2>1. protected = NumbersAt(All("U30", IF Protected(c.flags) THEN 1 ELSE 0), 0 + Len(a))
    <3> HIDE DEF names
    <3> QED BY <1>24, Zenon
  <2>2. protected = [v |-> vb, next |-> (0 + Len(a)) + Len(b)]
    BY <1>7, <1>22, <2>1
  <2> HIDE DEF protected
  <2>3. protected.next = (0 + Len(a)) + Len(b)
    BY <2>2
  <2>4. (0 + Len(a)) + Len(b) = 0 + (Len(a) + Len(b))
    BY <1>6, <1>7, SMT
  <2> QED BY <1>12, <2>3, <2>4
<1>26. count.v = Len(vd) /\ count.next = 0 + Len(a \o b \o n)
  <2>1. count = [v |-> Len(vd), next |-> (0 + Len(a \o b)) + Len(n)]
    <3> HIDE DEF protected
    <3> QED BY <1>8, <1>21, <1>25
  <2> HIDE DEF count
  <2>2. count.v = Len(vd) /\ count.next = (0 + Len(a \o b)) + Len(n)
    BY <2>1
  <2>3. (0 + (Len(a) + Len(b))) + Len(n) = 0 + ((Len(a) + Len(b)) + Len(n))
    BY <1>6, <1>7, <1>8, SMT
  <2> QED BY <1>12, <1>13, <2>2, <2>3
<1>27. interfaces.next = 0 + Len(a \o b \o n \o d)
  <2>1. interfaces = [v |-> vd, next |-> (0 + Len(a \o b \o n)) + Len(d)]
    <3> HIDE DEF count
    <3> QED BY <1>9, <1>20, <1>26
  <2> HIDE DEF interfaces
  <2>2. interfaces.next = (0 + Len(a \o b \o n)) + Len(d)
    BY <2>1
  <2>3. (0 + ((Len(a) + Len(b)) + Len(n))) + Len(d) = 0 + (((Len(a) + Len(b)) + Len(n)) + Len(d))
    BY <1>6, <1>7, <1>8, <1>9, SMT
  <2> QED BY <1>13, <1>14, <2>2, <2>3
<1>28. traits.v[2] = Len(c.traits) /\ traits.next = 0 + Len(a \o b \o n \o d \o e)
  <2>1. traits = [v |-> ve, next |-> (0 + Len(a \o b \o n \o d)) + Len(e)]
    <3> HIDE DEF interfaces
    <3> QED BY <1>10, <1>19, <1>27
  <2> HIDE DEF traits
  <2>2. traits.v = ve /\ traits.next = (0 + Len(a \o b \o n \o d)) + Len(e)
    BY <2>1
  <2>3. (0 + (((Len(a) + Len(b)) + Len(n)) + Len(d))) + Len(e)
          = 0 + ((((Len(a) + Len(b)) + Len(n)) + Len(d)) + Len(e))
    BY <1>6, <1>7, <1>8, <1>9, <1>10, SMT
  <2> QED BY <1>3, <1>14, <1>15, <2>2, <2>3
<1>29. 0 + Len(a \o b \o n \o d \o e) = TraitsPlace /\ TraitsPlace \in Nat
  <2>1. Len(a \o b \o n \o d \o e) \in Nat /\ Len(data) = Len(a \o b \o n \o d \o e) + Len(f)
    BY <1>15, <1>16 DEF Bytes
  <2>2. \A x, y \in Nat : (x + y) - y = x /\ 0 + x = x
    BY SMT
  <2>3. TraitsPlace = Len(data) - Len(f)
    BY DEF TraitsPlace, f
  <2> QED BY <1>11, <2>1, <2>2, <2>3
<1>30. traits.next = TraitsPlace /\ traits.v[2] = Len(c.traits)
  BY <1>28, <1>29
<1>31. LiesAt(f, TraitsPlace)
  BY <1>18, <1>29
<1> HIDE DEF names, protected, count, interfaces, traits
<1> QED BY <1>17, <1>29, <1>30, <1>31, Zenon DEF f, names, protected, count, interfaces, traits

-----------------------------------------------------------------------------
(* The steps of parse_traits and get_params.                               *)

LEMMA InvClass ==
  ASSUME ReadInv, input.what = "class"
  PROVE  ClassInput /\ DataOK /\ position \in Nat /\ end \in Nat
BY DEF ReadInv, ReadTypeOK, ClassInput, DataOK

LEMMA AllDescribedType ==
  ASSUME NEW class, ProperTraits(class.traits),
         DOMAIN class.traits = 1..Len(class.traits)
  PROVE  /\ AllDescribed(class) \in Seq(Traits)
         /\ Len(AllDescribed(class)) = Len(class.traits) /\ Len(class.traits) \in Nat
         /\ \A k \in 1..Len(class.traits) : AllDescribed(class)[k] = Described(class.traits[k])
<1> DEFINE traits == class.traits
<1>1. AllDescribed(class) = [k \in 1..Len(traits) |-> Described(traits[k])]
  BY Zenon DEF AllDescribed
<1>2. ASSUME NEW k \in 1..Len(traits)
      PROVE  Described(traits[k]) \in Traits
  <2> DEFINE t == traits[k]
  <2>1. t \in TraitRecord
    BY DEF ProperTraits, TraitOf
  <2> HIDE DEF t
  <2>2. /\ t.kind \in 0..6 /\ t.name \in Nat /\ t.a \in Nat /\ t.b \in Nat
    BY <2>1 DEF TraitRecord
  <2>3. /\ t.kind \in Nat /\ (t.name < PoolSize) \in BOOLEAN
        /\ (IF t.kind \in Slots THEN t.b ELSE 0) \in Nat
    <3>1. \A k2 \in 0..6 : k2 \in Nat
      BY SMT
    <3>2. 0 \in Nat
      BY SMT
    <3> QED BY <2>2, <3>1, <3>2
  <2>4. Described(t) \in Traits
    BY <2>2, <2>3 DEF Described, Traits
  <2> QED BY <2>4 DEF t
<1>3. Len(traits) \in Nat
  BY TraitPartsType
<1> QED BY <1>1, <1>2, <1>3

LEMMA StartTraitsStep ==
  ASSUME ReadInv, StartTraits
  PROVE  ReadInv'
<1> DEFINE traits == input.class.traits
<1>1. /\ rpc = "start" /\ input.what = "class" /\ rpc' = "traits"
      /\ input' = input /\ data' = data /\ result' = result
  BY Zenon DEF StartTraits
<1>2. ClassInput /\ result = <<>>
  BY <1>1, InvClass DEF ReadInv, ReadTypeOK
<1>3. position' = TraitsPlace /\ end' = Len(traits)
  BY <1>2, TraitsLie, Zenon DEF StartTraits
<1>4. /\ ProperTraits(traits) /\ DOMAIN traits = 1..Len(traits) /\ Len(traits) \in Nat
      /\ TraitsPlace \in Nat /\ Len(data) \in Nat /\ Len(TraitsBytes(traits)) \in Nat
  BY <1>2, ClassInputType, TraitsLie, TraitPartsType
<1>5. ReadTypeOK' /\ data' = InputBytes(input')
  <2>1. <<>> \in Seq(Traits)
    BY SMT
  <2> QED BY <1>1, <1>2, <1>3, <1>4, <2>1 DEF ReadInv, ReadTypeOK
<1>6. ReadSoFar'
  <2>1. /\ AllDescribed(input.class) \in Seq(Traits)
        /\ Len(AllDescribed(input.class)) = Len(traits)
    BY <1>4, AllDescribedType
  <2>2. /\ Len(<<>>) = 0 /\ 0 + Len(traits) = Len(traits)
        /\ SubSeq(AllDescribed(input.class), 1, 0) = <<>>
    BY <1>4, <2>1, SMT
  <2>3. Len(TraitsBytes(SubSeq(traits, 1, 0))) = 0
    <3>1. 0 \in 0..Len(traits)
      BY <1>4, SMT
    <3> QED BY <1>4, <2>2, <3>1, TraitsBefore, TraitPartsType, BeforeEnds
  <2>4. TraitsPlace + Len(TraitsBytes(traits)) = Len(data) + 0
    BY <1>4, SMT DEF TraitsPlace
  <2> HIDE DEF traits
  <2>5. input'.class.traits = traits
    BY <1>1 DEF traits
  <2> QED BY <1>1, <1>2, <1>3, <2>2, <2>3, <2>4, <2>5 DEF ReadSoFar
<1> QED BY <1>1, <1>5, <1>6 DEF ReadInv, ListedSoFar, ListsProgram, NothingMadeUp, ReadsBack

LEMMA ReadTraitStep ==
  ASSUME ReadInv, ReadTrait
  PROVE  ReadInv'
<1> DEFINE class == input.class
           traits == class.traits
           item == TraitAt(position)
           k == Len(result)
<1>1. /\ rpc = "traits" /\ rpc' = "traits" /\ input.what = "class" /\ end > 0
      /\ input' = input /\ data' = data /\ end' = end - 1
      /\ result' = Append(result, item.trait) /\ position' = item.next
      /\ result \in Seq(Traits)
  BY Zenon DEF ReadTrait, ReadInv, ReadTypeOK
<1>2. ClassInput /\ DataOK /\ position \in Nat /\ end \in Nat
  BY <1>1, InvClass
<1>3. item.trait \in Traits /\ item.next \in Nat
  BY <1>2, TraitType
<1> HIDE DEF item
<1>4. /\ Append(result, item.trait) \in Seq(Traits) /\ k \in Nat
      /\ Len(Append(result, item.trait)) = k + 1
  BY <1>1, <1>3
<1>5. end - 1 \in Nat
  BY <1>1, <1>2, SMT
<1>6. ReadTypeOK' /\ data' = InputBytes(input')
  BY <1>1, <1>3, <1>4, <1>5 DEF ReadInv, ReadTypeOK
<1>7. ReadSoFar'
  <2>1. CASE HasFunction(class)
    BY <1>1, <2>1 DEF ReadSoFar
  <2>2. CASE ~HasFunction(class)
    <3>1. /\ k + end = Len(traits)
          /\ result = SubSeq(AllDescribed(class), 1, k)
          /\ position + Len(TraitsBytes(traits))
               = Len(data) + Len(TraitsBytes(SubSeq(traits, 1, k)))
      BY <1>1, <2>2 DEF ReadInv, ReadSoFar
    <3>2. /\ ProperTraits(traits) /\ DOMAIN traits = 1..Len(traits) /\ Len(traits) \in Nat
          /\ Len(data) \in Nat /\ Len(TraitsBytes(traits)) \in Nat
          /\ TraitsPlace \in Nat /\ LiesAt(TraitsBytes(traits), TraitsPlace)
      BY <1>2, ClassInputType, TraitsLie, TraitPartsType
    <3>3. k < Len(traits) /\ k + 1 \in 1..Len(traits)
      BY <1>1, <1>2, <1>4, <3>1, <3>2, SMT
    <3> DEFINE before == Len(TraitsBytes(SubSeq(traits, 1, k)))
               after == Len(TraitsBytes(SubSeq(traits, 1, k + 1)))
               t == traits[k + 1]
               size == Len(TraitBytes(t))
    <3>4. /\ LiesAt(TraitBytes(t), TraitsPlace + before)
          /\ after = before + size /\ before \in Nat /\ size \in Nat
      BY <1>4, <3>2, <3>3, TraitLies
    <3>5. position = TraitsPlace + before
      <4>1. TraitsPlace = Len(data) - Len(TraitsBytes(traits))
        BY DEF TraitsPlace
      <4>2. \A x, y, z, w \in Nat : x + y = z + w => x = (z - y) + w
        BY SMT
      <4> HIDE DEF before
      <4>3. position + Len(TraitsBytes(traits)) = Len(data) + before
        BY <3>1 DEF before
      <4> QED BY <1>2, <3>2, <3>4, <4>1, <4>2, <4>3
    <3>6. TraitOf(t) /\ t.kind # Function
      BY <2>2, <3>2, <3>3 DEF ProperTraits, HasFunction
    <3>7. item = [trait |-> Described(t), next |-> position + size]
      BY <3>4, <3>5, <3>6, TraitReadsBack DEF item
    <3>8. item.trait = Described(t) /\ item.next = position + size
      BY <3>7
    <3>9. /\ AllDescribed(class) \in Seq(Traits)
          /\ Len(AllDescribed(class)) = Len(traits)
          /\ AllDescribed(class)[k + 1] = Described(t)
      BY <3>2, <3>3, AllDescribedType
    <3>10. result' = SubSeq(AllDescribed(class), 1, k + 1) /\ Len(result') = k + 1
      BY <1>1, <1>4, <3>1, <3>3, <3>8, <3>9, PrefixGrows
    <3>11. (k + 1) + (end - 1) = Len(traits)
      BY <1>2, <1>4, <3>1, <3>2, SMT
    <3>12. position' + Len(TraitsBytes(traits)) = Len(data) + after
      <4>1. position + Len(TraitsBytes(traits)) = Len(data) + before
        BY <3>1
      <4>2. \A p, b, x, y, s \in Nat : p + b = x + y => (p + s) + b = x + (y + s)
        BY SMT
      <4>3. position' = position + size /\ after = before + size
        BY <1>1, <3>4, <3>8
      <4> HIDE DEF before, after, size
      <4> QED BY <1>2, <3>2, <3>4, <4>1, <4>2, <4>3
    <3> HIDE DEF k
    <3> QED BY <1>1, <3>10, <3>11, <3>12 DEF ReadSoFar
  <2> QED BY <2>1, <2>2
<1> QED BY <1>1, <1>6, <1>7 DEF ReadInv, ListedSoFar, ListsProgram, NothingMadeUp, ReadsBack

LEMMA EndTraitsStep ==
  ASSUME ReadInv, EndTraits
  PROVE  ReadInv'
<1> DEFINE class == input.class
           traits == class.traits
<1>1. /\ rpc = "traits" /\ rpc' = "end" /\ input.what = "class" /\ end = 0
      /\ input' = input /\ data' = data /\ end' = end /\ position' = position
      /\ result' = result /\ result \in Seq(Traits)
  BY Zenon DEF EndTraits, ReadInv, ReadTypeOK
<1>2. ClassInput /\ position \in Nat
  BY <1>1, InvClass
<1>3. ReadTypeOK' /\ data' = InputBytes(input')
  BY <1>1 DEF ReadInv, ReadTypeOK
<1>4. HasFunction(class) \/ (result = AllDescribed(class) /\ position = Len(data))
  <2> SUFFICES ASSUME ~HasFunction(class)
               PROVE  result = AllDescribed(class) /\ position = Len(data)
    OBVIOUS
  <2>1. /\ Len(result) + end = Len(traits)
        /\ result = SubSeq(AllDescribed(class), 1, Len(result))
        /\ position + Len(TraitsBytes(traits))
             = Len(data) + Len(TraitsBytes(SubSeq(traits, 1, Len(result))))
    BY <1>1 DEF ReadInv, ReadSoFar
  <2>2. /\ ProperTraits(traits) /\ DOMAIN traits = 1..Len(traits) /\ Len(traits) \in Nat
        /\ Len(data) \in Nat /\ Len(TraitsBytes(traits)) \in Nat
    BY <1>2, ClassInputType, TraitsLie, TraitPartsType
  <2>3. Len(result) = Len(traits)
    <3>1. Len(result) \in Nat
      BY <1>1
    <3> QED BY <1>1, <2>1, <2>2, <3>1, SMT
  <2>4. SubSeq(traits, 1, Len(traits)) = traits
    BY <2>2, PrefixIs, SMT DEF ProperTraits
  <2>5. result = AllDescribed(class)
    <3>1. AllDescribed(class) \in Seq(Traits) /\ Len(AllDescribed(class)) = Len(traits)
      BY <2>2, AllDescribedType
    <3>2. SubSeq(AllDescribed(class), 1, Len(AllDescribed(class))) = AllDescribed(class)
      BY <3>1, SMT
    <3> QED BY <2>1, <2>3, <3>1, <3>2
  <2>6. position + Len(TraitsBytes(traits)) = Len(data) + Len(TraitsBytes(traits))
    BY <2>1, <2>3, <2>4
  <2> QED BY <1>2, <2>2, <2>5, <2>6, SMT
<1>5. ReadsBack'
  BY <1>1, <1>4 DEF ReadsBack
<1> QED BY <1>1, <1>3, <1>5 DEF ReadInv, ListedSoFar, ReadSoFar, ListsProgram, NothingMadeUp

LEMMA ReadParamsStep ==
  ASSUME ReadInv, ReadParams
  PROVE  ReadInv'
<1> DEFINE types == input.types
           va == <<Len(types), 4>>
           a == U30s(va)
           b == U30s(types)
           head == NumbersAt(All("U30", 2), 0)
           rest == NumbersAt(All("U30", head.v[1]), head.next)
<1>1. /\ rpc = "start" /\ input.what = "params" /\ rpc' = "end"
      /\ input' = input /\ data' = data /\ end' = end
      /\ result' = rest.v /\ position' = rest.next
  BY Zenon DEF ReadParams
<1>2. ReadTypeOK /\ data = InputBytes(input)
  BY DEF ReadInv
<1>3. Unsigned30(Len(types)) /\ Unsigned30s(types)
  <2>1. types \in Params
    <3>1. input \in Inputs
      BY <1>2 DEF ReadTypeOK
    <3>2. input \in [what : {"params"}, types : Params]
      BY <1>1, <3>1 DEF Inputs
    <3> QED BY <3>2
  <2> HIDE DEF types
  <2>2. /\ types \in Seq(Nat) /\ Unsigned30(Len(types))
        /\ \A l \in DOMAIN types : Unsigned30(types[l])
    BY <2>1, ParamsAssumption
  <2>3. types \in Seq(Int) /\ DOMAIN types = 1..Len(types)
    BY <2>2, SMT
  <2> QED BY <2>2, <2>3 DEF Unsigned30s
<1>4. data = a \o b
  BY <1>1, <1>2, Zenon DEF InputBytes
<1> HIDE DEF types
<1>5. Unsigned30s(va) /\ Len(va) = 2 /\ va[1] = Len(types)
  BY <1>3, SmallNumbers, TwoNumbers
<1> HIDE DEF va
<1>6. /\ a \in Bytes /\ Len(a) \in Nat
      /\ \A p : LiesAt(a, p) => NumbersAt(All("U30", 2), p) = [v |-> va, next |-> p + Len(a)]
  BY <1>5, U30sReadBack
<1>7. /\ b \in Bytes /\ Len(b) \in Nat
      /\ \A p : LiesAt(b, p) =>
           NumbersAt(All("U30", Len(types)), p) = [v |-> types, next |-> p + Len(b)]
  BY <1>3, U30sReadBack
<1> HIDE DEF a, b
<1>8. LiesAt(a, 0) /\ LiesAt(b, 0 + Len(a))
  <2>1. a \o b \in Bytes
    BY <1>6, <1>7, Joined
  <2>2. LiesAt(a \o b, 0)
    BY <1>4, <2>1, LiesAtStart
  <2> QED BY <1>6, <1>7, <2>2, LiesBoth
<1>9. head.v[1] = Len(types) /\ head.next = 0 + Len(a)
  <2>1. head = [v |-> va, next |-> 0 + Len(a)]
    BY <1>6, <1>8
  <2> HIDE DEF head
  <2> QED BY <1>5, <2>1
<1>10. rest.v = types /\ rest.next = (0 + Len(a)) + Len(b)
  <2>1. rest = [v |-> types, next |-> (0 + Len(a)) + Len(b)]
    <3> HIDE DEF head
    <3> QED BY <1>7, <1>8, <1>9
  <2> HIDE DEF rest
  <2> QED BY <2>1
<1>11. (0 + Len(a)) + Len(b) \in Nat
  BY <1>6, <1>7, SMT
<1> HIDE DEF rest
<1>12. ReadTypeOK' /\ data' = InputBytes(input')
  BY <1>1, <1>2, <1>10, <1>11 DEF ReadTypeOK
<1>13. ReadsBack'
  BY <1>1, <1>10 DEF ReadsBack, types
<1> QED BY <1>1, <1>12, <1>13 DEF ReadInv, ListedSoFar, ReadSoFar, ListsProgram, NothingMadeUp

-----------------------------------------------------------------------------
(* Every input there is can be written to memory as bytes.                 *)
LEMMA InputBytesType ==
  ASSUME input \in Inputs, data = InputBytes(input)
  PROVE  data \in Seq(0..255)
<1>1. CASE input.what = "code"
  BY <1>1, CodeLies DEF CodeInput, DataOK
<1>2. CASE input.what = "class"
  BY <1>2, TraitsLie DEF ClassInput, DataOK
<1>3. CASE input.what = "params"
  <2> DEFINE types == input.types
  <2>1. Unsigned30(Len(types)) /\ Unsigned30s(types)
    <3>1. types \in Params
      <4>1. input \in [what : {"params"}, types : Params]
        BY <1>3 DEF Inputs
      <4> QED BY <4>1
    <3> HIDE DEF types
    <3>2. /\ types \in Seq(Nat) /\ Unsigned30(Len(types))
          /\ \A l \in DOMAIN types : Unsigned30(types[l])
      BY <3>1, ParamsAssumption
    <3>3. types \in Seq(Int) /\ DOMAIN types = 1..Len(types)
      BY <3>2, SMT
    <3> QED BY <3>2, <3>3 DEF Unsigned30s
  <2>2. data = U30s(<<Len(types), 4>>) \o U30s(types)
    BY <1>3, Zenon DEF InputBytes
  <2> HIDE DEF types
  <2>3. Unsigned30s(<<Len(types), 4>>)
    BY <2>1, SmallNumbers, TwoNumbers
  <2>4. data \in Bytes
    BY <2>1, <2>2, <2>3, U30sReadBack, Joined
  <2> QED BY <2>4 DEF Bytes
<1>4. input.what = "code" \/ input.what = "class" \/ input.what = "params"
  BY DEF Inputs
<1> QED BY <1>1, <1>2, <1>3, <1>4

LEMMA ReadInitial ==
  ASSUME ReadInit
  PROVE  ReadInv
<1>1. /\ input \in Inputs /\ data = InputBytes(input)
      /\ position = 0 /\ end = 0 /\ result = <<>> /\ rpc = "start"
  BY DEF ReadInit
<1>2. data \in Seq(0..255)
  BY <1>1, InputBytesType
<1> QED BY <1>1, <1>2
      DEF ReadInv, ReadTypeOK, ListedSoFar, ReadSoFar, ListsProgram, NothingMadeUp, ReadsBack

LEMMA ReadStep ==
  ASSUME ReadInv, [ReadNext]_readVars
  PROVE  ReadInv'
<1>1. CASE StartCode
  BY <1>1, StartCodeStep
<1>2. CASE ReadInstruction
  BY <1>2, ReadInstructionStep
<1>3. CASE MeetUnknown
  BY <1>3, MeetUnknownStep
<1>4. CASE EndCode
  BY <1>4, EndCodeStep
<1>5. CASE StartTraits
  BY <1>5, StartTraitsStep
<1>6. CASE ReadTrait
  BY <1>6, ReadTraitStep
<1>7. CASE EndTraits
  BY <1>7, EndTraitsStep
<1>8. CASE ReadParams
  BY <1>8, ReadParamsStep
<1>9. CASE UNCHANGED readVars
  <2>1. /\ input' = input /\ data' = data /\ position' = position /\ end' = end
        /\ result' = result /\ rpc' = rpc
    BY <1>9 DEF readVars
  <2> QED BY <2>1 DEF ReadInv, ReadTypeOK, ListedSoFar, ReadSoFar, ListsProgram,
                      NothingMadeUp, ReadsBack
<1> QED BY <1>1, <1>2, <1>3, <1>4, <1>5, <1>6, <1>7, <1>8, <1>9 DEF ReadNext

(* The inductive invariant: what has been listed is the program up to      *)
(* where the reader is, and what has been read of a class are its first    *)
(* traits.                                                                 *)
THEOREM ReadInductive == ReadSpec => []ReadInv
<1>1. ReadInit => ReadInv
  BY ReadInitial
<1>2. ReadInv /\ [ReadNext]_readVars => ReadInv'
  BY ReadStep
<1> QED BY <1>1, <1>2, PTL DEF ReadSpec

(* A method of any length is listed as it was compiled: every instruction  *)
(* with the operands the virtual machine gives it, and its place, and its  *)
(* references are names it uses; unless it has an instruction whose row in *)
(* the table is wrong, which is istype or callmethod                       *)
(* (disassembler.cpp:23-123).                                              *)
THEOREM ListsEveryProgram == ReadSpec => []ListsProgram
<1>1. ReadInv => ListsProgram
  BY DEF ReadInv
<1> QED BY <1>1, ReadInductive, PTL

(* Whatever end is given, and whatever follows the code in memory, a       *)
(* listing that ends is a part of the method, or all of it and what        *)
(* follows, or empty (disassembler.cpp:35-45).                             *)
THEOREM ListsNothingElse == ReadSpec => []NothingMadeUp
<1>1. ReadInv => NothingMadeUp
  BY DEF ReadInv
<1> QED BY <1>1, ReadInductive, PTL

(* Any class without a trait that is a function, and any parameters, are   *)
(* read as they were written, to the last byte (avm.cpp:40-132).           *)
THEOREM ReadsEveryClassBack == ReadSpec => []ReadsBack
<1>1. ReadInv => ReadsBack
  BY DEF ReadInv
<1> QED BY <1>1, ReadInductive, PTL
=============================================================================
