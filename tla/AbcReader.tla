------------------------------ MODULE AbcReader ------------------------------
(***************************************************************************)
(* How the library reads the byte code of the game: the disassembler       *)
(* (do_lib/disassembler.cpp, with the table of instructions.h),            *)
(* Traits::parse_traits (avm.cpp) and MethodInfo::get_params (avm.h).      *)
(* They trust what they read.  The reference is what a compiler writes     *)
(* (the section "The format", and that of BinaryStream).                   *)
(***************************************************************************)
EXTENDS BinaryStream

CONSTANTS
  Programs,   \* sequences of instructions: [op, args]
  Errors,     \* how far the length given for the code may be off
  Tails,      \* what may follow the code of a method in memory
  Classes,    \* [flags, interfaces, traits]; a trait: [kind, name, a, b, metadata]
  Params,     \* sequences of the types of parameters
  PoolSize    \* precomp_mn_size: the names there are

VARIABLES
  input,      \* what was written
  end,        \* code_end; the number of traits still to be read
  result,     \* the instructions, traits or types read
  rpc         \* where the reader is

readVars == <<input, data, position, end, result, rpc>>

-----------------------------------------------------------------------------
(* ABC::Instructions: the instructions there are, and their operands.      *)
Unknown ==
  {\h00, \h3F, \h98, \h99, \hEE, \hF4} \cup (\h7C..\h7F) \cup (\h8A..\h8E)
    \cup (\hBA..\hBF) \cup (\hC8..\hCF) \cup (\hD8..\hEC)

OneU30 ==
  {\h04, \h05, \h06, \h08, \h22, \h25, \h31, \h33, \h49, \h6A, \h80, \h86,
   \h92, \h94, \hC2, \hC3} \cup (\h2C..\h2F) \cup (\h40..\h43) \cup (\h53..\h56)
    \cup (\h58..\h5A) \cup (\h5D..\h63) \cup (\h65..\h68) \cup (\h6C..\h6F)
    \cup (\hF0..\hF2)

(* A fault: a row without its operands.                                    *)
TwoU30WithoutOne == {\h32, \h44, \h45, \h4A, \h4B, \h4C, \h4E, \h4F}

TwoU30 == {\h32, \h44, \h45, \h46, \h4A, \h4B, \h4C, \h4E, \h4F}

Switch == \h1B

Operands(op) ==
  CASE op \in OneU30 -> <<"U30">>
    [] op \in TwoU30 -> <<"U30", "U30">>
    [] op \in \h0C..\h1A -> <<"S24">>
    [] op = Switch -> <<"S24", "Dynamic">>
    [] op = \h24 -> <<"Byte">>
    [] op = \hEF -> <<"Byte", "U30", "Byte", "U30">>
    [] OTHER -> <<>>

(* What is pushed to the indexes, and where the next instruction is.  A    *)
(* switch has one case more than the number before them says.              *)
ArgsAt(op, p) ==
  IF op # Switch THEN NumbersAt(Operands(op), p)
  ELSE LET head == NumbersAt(<<"S24", "U30">>, p)
           cases == NumbersAt(All("S24", head.v[2] + 1), head.next)
       IN [v |-> <<head.v[1]>> \o cases.v, next |-> cases.next]

InstructionAt(p) ==
  LET args == ArgsAt(Byte(p), p + 1)
  IN [op |-> Byte(p), args |-> args.v, position |-> p, size |-> args.next - p]

(* GetXrefs: the first operand of each instruction that names something;   *)
(* NoOperand if the listing has none: the code reads what is not there.    *)
NoOperand == -1
Naming == {\h04, \h05, \h45, \h4A, \h4E, \h59, \h5D, \h5F, \h60, \h80, \h86, \hB2}

GetXrefs(listing) ==
  [k \in {k \in DOMAIN listing : listing[k].op \in Naming} |->
     IF listing[k].args = <<>> THEN NoOperand ELSE listing[k].args[1]]

-----------------------------------------------------------------------------
(* The format: what a compiler writes.  It is not taken from the library's *)
(* table: these are the instructions of the virtual machine, by the number *)
(* and the kind of their operands.                                         *)
WithNone ==
  {\h01, \h02, \h03, \h07, \h09, \h20, \h21, \h23, \h30, \h47, \h48, \h57, \h64,
   \h78, \h93, \hB1, \hB3, \hB4, \hC0, \hC1} \cup (\h1C..\h1F) \cup (\h26..\h2B)
    \cup (\h35..\h3E) \cup (\h50..\h52) \cup (\h70..\h77) \cup (\h81..\h85)
    \cup (\h87..\h89) \cup {\h90, \h91} \cup (\h95..\h97) \cup (\hA0..\hB0)
    \cup (\hC4..\hC7) \cup (\hD0..\hD7)

Branches == \h0C..\h1A

(* The first of each line: of names, of registers, of constants, of counts *)
(* of arguments, and of what is left.                                      *)
WithOne ==
  {\h04, \h05, \h59, \h5D, \h5E, \h5F, \h60, \h61, \h66, \h68, \h6A, \h80, \h86, \hB2,
   \h08, \h62, \h63, \h92, \h94, \hC2, \hC3,
   \h06, \h22, \h25, \h2C, \h2D, \h2E, \h2F, \h31, \hF1,
   \h41, \h42, \h49, \h53, \h55, \h56,
   \h40, \h58, \h5A, \h65, \h67, \h6C, \h6D, \h6E, \h6F, \hF0, \hF2}

WithTwo == {\h32, \h43, \h44, \h45, \h46, \h4A, \h4C, \h4E, \h4F}

PushByte == \h24
Debug == \hEF

Compiled == WithNone \cup Branches \cup WithOne \cup WithTwo \cup {Switch, PushByte, Debug}

Format(op) ==
  CASE op \in WithOne -> <<"U30">>
    [] op \in WithTwo -> <<"U30", "U30">>
    [] op \in Branches -> <<"S24">>
    [] op = PushByte -> <<"Byte">>
    [] op = Debug -> <<"Byte", "U30", "Byte", "U30">>
    [] OTHER -> <<>>

(* The rows of the table that are not what is written: istype's has no     *)
(* operand (instructions.h:369), callmethod's one of two (:269).           *)
WrongRows == {\hB2, \h43}

WellFormed(n) ==
  /\ n.op \in Compiled
  /\ n.op # Switch => /\ Len(n.args) = Len(Format(n.op))
                      /\ \A k \in DOMAIN n.args : Numeral(Format(n.op)[k], n.args[k])
  /\ n.op = Switch => /\ Len(n.args) >= 2 /\ Unsigned30(Len(n.args) - 2)
                      /\ \A k \in DOMAIN n.args : Signed24(n.args[k])

ASSUME ProgramsAssumption ==
  /\ Programs \subseteq Seq([op : 0..255, args : Seq(Int)])
  /\ \A program \in Programs : \A k \in DOMAIN program : WellFormed(program[k])
  /\ Errors \subseteq Int
  /\ Tails \subseteq Seq(0..255)

InstructionBytes(n) ==
  <<n.op>> \o
    IF n.op # Switch THEN Written(Format(n.op), n.args)
    ELSE Written(<<"S24", "U30">>, <<n.args[1], Len(n.args) - 2>>)
           \o Written(All("S24", Len(n.args) - 1), Tail(n.args))

Code(program) == FlattenSeq([k \in DOMAIN program |-> InstructionBytes(program[k])])

(* The length of the code is the last of the numbers before it.            *)
Length(in) == Len(Code(in.program)) + in.off
Preamble(in) == U30s(<<3, 300, 1, 2, Length(in)>>)

(* A trait: [kind, name, a, b, metadata].                                  *)
ASSUME ClassesAssumption ==
  /\ Classes \subseteq
       [flags : Nat, interfaces : Seq(Nat),
        traits : Seq([kind : 0..6, name : Nat, a : Nat, b : Nat, metadata : Seq(Nat)])]
  /\ \A class \in Classes :
       /\ Unsigned30(class.flags)
       /\ Unsigned30(Len(class.interfaces)) /\ Unsigned30(Len(class.traits))
       /\ \A k \in DOMAIN class.interfaces : Unsigned30(class.interfaces[k])
       /\ \A k \in DOMAIN class.traits :
            LET t == class.traits[k] IN
            /\ Unsigned30(t.name) /\ Unsigned30(t.a) /\ Unsigned30(t.b)
            /\ Unsigned30(Len(t.metadata))
            /\ \A l \in DOMAIN t.metadata : Unsigned30(t.metadata[l])
  /\ PoolSize \in Nat

Slots == {0, 6}
Methods == {1, 2, 3, 4}
Function == 5

BodyBytes(t) ==
  IF t.kind \in Slots
  THEN U30s(<<1, t.b, t.a>>) \o IF t.a = 0 THEN <<>> ELSE <<1>>
  ELSE U30s(<<1, t.a>>)

TraitBytes(t) ==
  LET metadata == IF t.metadata = <<>> THEN <<>>
                  ELSE U30Bytes(Len(t.metadata)) \o U30s(t.metadata)
      tag == t.kind + IF t.metadata = <<>> THEN 0 ELSE 64
  IN Written(<<"U30", "Byte">>, <<t.name, tag>>) \o BodyBytes(t) \o metadata

TraitsBytes(traits) == FlattenSeq([k \in DOMAIN traits |-> TraitBytes(traits[k])])

Protected(flags) == (flags \div 8) % 2 = 1

ClassBytes(c) ==
  U30s(<<7, 150, c.flags>>) \o U30s(IF Protected(c.flags) THEN <<5>> ELSE <<>>)
    \o U30Bytes(Len(c.interfaces)) \o U30s(c.interfaces)
    \o U30s(<<9, Len(c.traits)>>) \o TraitsBytes(c.traits)

ASSUME ParamsAssumption ==
  /\ Params \subseteq Seq(Nat)
  /\ \A types \in Params : /\ Unsigned30(Len(types))
                           /\ \A k \in DOMAIN types : Unsigned30(types[k])

Inputs ==
  {in \in [what : {"code"}, program : Programs, off : Errors, tail : Tails] :
     Unsigned30(Length(in))}
    \cup [what : {"class"}, class : Classes] \cup [what : {"params"}, types : Params]

InputBytes(in) ==
  CASE in.what = "code" -> Preamble(in) \o Code(in.program) \o in.tail
    [] in.what = "class" -> ClassBytes(in.class)
    [] in.what = "params" -> U30s(<<Len(in.types), 4>>) \o U30s(in.types)

-----------------------------------------------------------------------------
ReadInit ==
  /\ input \in Inputs /\ data = InputBytes(input)
  /\ position = 0 /\ end = 0 /\ result = <<>> /\ rpc = "start"

(* Disassembler::Disassemble.                                              *)
StartCode ==
  /\ rpc = "start" /\ input.what = "code"
  /\ LET head == NumbersAt(All("U30", 5), 0)
     IN position' = head.next /\ end' = head.next + head.v[5]
  /\ rpc' = "code"
  /\ UNCHANGED <<input, data, result>>

Inside == rpc = "code" /\ position # end /\ position < Len(data)

(* A fault: instructions need not be known.                                *)
ReadAnyInstruction ==
  /\ Inside
  /\ LET n == InstructionAt(position) IN
       /\ result' = Append(result, n)
       /\ position' = position + n.size
  /\ UNCHANGED <<input, data, end, rpc>>

ReadInstruction ==
  /\ Inside /\ Byte(position) \notin Unknown
  /\ LET n == InstructionAt(position) IN
       /\ result' = Append(result, n)
       /\ position' = position + n.size
  /\ UNCHANGED <<input, data, end, rpc>>

(* A fault: what was read so far is kept.                                  *)
KeepListing ==
  /\ Inside /\ Byte(position) \in Unknown
  /\ rpc' = "end"
  /\ UNCHANGED <<input, data, position, end, result>>

MeetUnknown ==
  /\ Inside /\ Byte(position) \in Unknown
  /\ result' = <<>> /\ rpc' = "end"
  /\ UNCHANGED <<input, data, position, end>>

(* The loop ends where the code does, and nowhere else: it goes on in      *)
(* whatever follows if it does not meet the end.                           *)
EndCode ==
  /\ rpc = "code" /\ ~Inside
  /\ rpc' = IF position = end THEN "end" ELSE "beyond"
  /\ UNCHANGED <<input, data, position, end, result>>

(* Traits::parse_traits, up to the traits.                                 *)
StartTraits ==
  /\ rpc = "start" /\ input.what = "class"
  /\ LET names == NumbersAt(All("U30", 3), 0)
         protected == NumbersAt(All("U30", IF Protected(names.v[3]) THEN 1 ELSE 0), names.next)
         count == U32At(protected.next)
         interfaces == NumbersAt(All("U30", count.v), count.next)
         traits == NumbersAt(All("U30", 2), interfaces.next)
     IN position' = traits.next /\ end' = traits.v[2]
  /\ rpc' = "traits"
  /\ UNCHANGED <<input, data, result>>

(* A fault: the kind of the value of a slot is always read.                *)
SlotAtWithKind(p) ==
  LET r == NumbersAt(All("U30", 3), p)
  IN [id |-> r.v[3], type |-> r.v[2], next |-> r.next + 1]

SlotAt(p) ==
  LET r == NumbersAt(All("U30", 3), p)
  IN [id |-> r.v[3], type |-> r.v[2], next |-> r.next + IF r.v[3] = 0 THEN 0 ELSE 1]

MethodAt(p) ==
  LET r == NumbersAt(All("U30", 2), p)
  IN [id |-> r.v[2], type |-> 0, next |-> r.next]

(* One of a kind that is not known has no body.                            *)
BodyAt(kind, p) ==
  CASE kind \in Slots -> SlotAt(p)
    [] kind \in Methods -> MethodAt(p)
    [] OTHER -> [id |-> 0, type |-> 0, next |-> p]

MetadataAt(p) ==
  LET count == U32At(p)
  IN NumbersAt(All("U30", count.v), count.next)

(* Its name is looked up, and empty if the pool has none.                  *)
TraitAt(p) ==
  LET head == NumbersAt(<<"U30", "Byte">>, p)
      name == head.v[1]
      tag == head.v[2]
      body == BodyAt(tag % 16, head.next)
  IN [trait |-> [kind |-> tag % 16, name |-> name, named |-> name < PoolSize,
                 id |-> body.id, type |-> body.type],
      next |-> IF (tag \div 64) % 2 = 1 THEN MetadataAt(body.next).next ELSE body.next]

ReadTrait ==
  /\ rpc = "traits" /\ end > 0
  /\ result' = Append(result, TraitAt(position).trait)
  /\ position' = TraitAt(position).next
  /\ end' = end - 1
  /\ UNCHANGED <<input, data, rpc>>

EndTraits ==
  /\ rpc = "traits" /\ end = 0
  /\ rpc' = "end"
  /\ UNCHANGED <<input, data, position, end, result>>

(* MethodInfo::get_params.                                                 *)
ReadParams ==
  /\ rpc = "start" /\ input.what = "params"
  /\ LET head == NumbersAt(All("U30", 2), 0)
         types == NumbersAt(All("U30", head.v[1]), head.next)
     IN result' = types.v /\ position' = types.next
  /\ rpc' = "end"
  /\ UNCHANGED <<input, data, end>>

ReadNext ==
  \/ StartCode \/ ReadInstruction \/ MeetUnknown \/ EndCode
  \/ StartTraits \/ ReadTrait \/ EndTraits
  \/ ReadParams

-----------------------------------------------------------------------------
ReadSpec == ReadInit /\ [][ReadNext]_readVars

Instructions == [op : (0..255) \ Unknown, args : Seq(Int), position : Nat, size : Nat \ {0}]
Traits == [kind : Nat, name : Nat, named : BOOLEAN, id : Nat, type : Nat]

ReadTypeOK ==
  /\ input \in Inputs
  /\ data \in Seq(0..255)
  /\ position \in Nat /\ end \in Nat
  /\ rpc \in {"start", "code", "traits", "end", "beyond"}
  /\ rpc = "start" => result = <<>>
  /\ rpc = "code" => input.what = "code" /\ result \in Seq(Instructions)
  /\ rpc = "traits" => input.what = "class" /\ result \in Seq(Traits)

(* What each instruction of a program is, and where.                       *)
Listing(in) ==
  [k \in DOMAIN in.program |->
     [op |-> in.program[k].op, args |-> in.program[k].args,
      position |-> Len(Preamble(in)) + Len(Code(SubSeq(in.program, 1, k - 1))),
      size |-> Len(InstructionBytes(in.program[k]))]]

Misread(program) == \E k \in DOMAIN program : program[k].op \in WrongRows

(* The disassembler lists a method as it was compiled: every instruction   *)
(* the virtual machine has, its operands and its place                     *)
(* (disassembler.cpp:23-94); and its references are names it uses, those   *)
(* refine_ore goes by (96-123).  But not if it tests a type or calls a     *)
(* method by number: the table has no operand of the one                   *)
(* (instructions.h:369) and one of the two of the other (:269), and the    *)
(* next instruction is looked for in what is left.                         *)
ListsProgram ==
  rpc \in {"end", "beyond"} /\ input.what = "code" =>
    \/ input.off # 0 \/ Misread(input.program)
    \/ /\ rpc = "end" /\ result = Listing(input)
       /\ \A k \in DOMAIN GetXrefs(result) : GetXrefs(result)[k] = input.program[k].args[1]

(* If the end that is given is not where the code ends, nothing is made    *)
(* up: what is listed is the part of the method up to there, or all of it  *)
(* and what follows, or nothing (disassembler.cpp:35-45); but for a method *)
(* with an instruction whose row is wrong.                                 *)
NothingMadeUp ==
  rpc = "end" /\ input.what = "code" =>
    \/ result = <<>> \/ Misread(input.program)
    \/ input.off <= 0 /\ IsPrefix(result, Listing(input))
    \/ input.off > 0 /\ IsPrefix(Listing(input), result)

(* The traits of a class, and the parameters of a method, are read as they *)
(* were written, if none of the traits is a function: those are legal, and *)
(* their body is then read as the next trait (avm.cpp:113-117).            *)
Described(t) ==
  [kind |-> t.kind, name |-> t.name, named |-> t.name < PoolSize, id |-> t.a,
   type |-> IF t.kind \in Slots THEN t.b ELSE 0]

HasFunction(class) == \E k \in DOMAIN class.traits : class.traits[k].kind = Function

AllDescribed(class) == [k \in DOMAIN class.traits |-> Described(class.traits[k])]

ReadsBack ==
  rpc = "end" =>
    /\ input.what = "params" => result = input.types
    /\ input.what = "class" =>
         \/ HasFunction(input.class)
         \/ result = AllDescribed(input.class) /\ position = Len(data)

-----------------------------------------------------------------------------
(* The inductive invariant behind these.                                   *)

(* What has been listed is the program, up to where the reader is.  It is  *)
(* past the end of the program only if that is not the end it was given.   *)
ListedSoFar ==
  rpc = "code" =>
    /\ end = Len(Preamble(input)) + Length(input)
    /\ \/ Misread(input.program)
       \/ /\ Len(result) <= Len(input.program)
          /\ result = SubSeq(Listing(input), 1, Len(result))
          /\ position = Len(Preamble(input)) + Len(Code(SubSeq(input.program, 1, Len(result))))
       \/ /\ input.off # 0
          /\ IsPrefix(Listing(input), result)
          /\ position >= Len(Preamble(input)) + Len(Code(input.program))

(* The traits that have been read are the first ones.                      *)
ReadSoFar ==
  rpc = "traits" =>
    \/ HasFunction(input.class)
    \/ LET traits == input.class.traits IN
       /\ Len(result) + end = Len(traits)
       /\ result = SubSeq(AllDescribed(input.class), 1, Len(result))
       /\ position + Len(TraitsBytes(traits)) =
            Len(data) + Len(TraitsBytes(SubSeq(traits, 1, Len(result))))

ReadInv ==
  /\ ReadTypeOK /\ data = InputBytes(input)
  /\ ListedSoFar /\ ReadSoFar
  /\ ListsProgram /\ NothingMadeUp /\ ReadsBack

=============================================================================
