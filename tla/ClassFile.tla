------------------------------- MODULE ClassFile -------------------------------
(***************************************************************************)
(* java-virtual-machine/read_class.c: what the reader of class files       *)
(* accepts, the class it builds, and how a method is found in it.  A file  *)
(* is a record of the values that the reader takes from it in turn; a      *)
(* string is a sequence of tokens; bytecode is left to the interpreter.    *)
(* All failures are failed assertions, so of their order nothing is kept.  *)
(* Also jvm.h: the opcodes, and the numbers that bytes stand for.          *)
(***************************************************************************)
EXTENDS Integers, Sequences, FiniteSetsExt, SequencesExt

CONSTANTS CLASS_MAGIC, INT_BITS

jvm_instruction_t ==
  [i_nop |-> \H00,            i_iconst_m1 |-> \H02,      i_iconst_0 |-> \H03,
   i_iconst_5 |-> \H08,       i_bipush |-> \H10,         i_sipush |-> \H11,
   i_ldc |-> \H12,            i_iload |-> \H15,          i_aload |-> \H19,
   i_iload_0 |-> \H1A,        i_iload_3 |-> \H1D,        i_aload_0 |-> \H2A,
   i_aload_3 |-> \H2D,        i_iaload |-> \H2E,         i_istore |-> \H36,
   i_astore |-> \H3A,         i_istore_0 |-> \H3B,       i_istore_3 |-> \H3E,
   i_astore_0 |-> \H4B,       i_astore_3 |-> \H4E,       i_iastore |-> \H4F,
   i_dup |-> \H59,            i_iadd |-> \H60,           i_isub |-> \H64,
   i_imul |-> \H68,           i_idiv |-> \H6C,           i_irem |-> \H70,
   i_ineg |-> \H74,           i_ishl |-> \H78,           i_ishr |-> \H7A,
   i_iushr |-> \H7C,          i_iand |-> \H7E,           i_ior |-> \H80,
   i_ixor |-> \H82,           i_iinc |-> \H84,           i_ifeq |-> \H99,
   i_ifne |-> \H9A,           i_iflt |-> \H9B,           i_ifge |-> \H9C,
   i_ifgt |-> \H9D,           i_ifle |-> \H9E,           i_if_icmpeq |-> \H9F,
   i_if_icmpne |-> \HA0,      i_if_icmplt |-> \HA1,      i_if_icmpge |-> \HA2,
   i_if_icmpgt |-> \HA3,      i_if_icmple |-> \HA4,      i_goto |-> \HA7,
   i_ireturn |-> \HAC,        i_areturn |-> \HB0,        i_return |-> \HB1,
   i_getstatic |-> \HB2,      i_invokevirtual |-> \HB6,  i_invokestatic |-> \HB8,
   i_newarray |-> \HBC,       i_arraylength |-> \HBE]

I == jvm_instruction_t

Signed(n, bits) == ((n + 2^(bits - 1)) % 2^bits) - 2^(bits - 1)

Int32(n) == Signed(n, INT_BITS)

-----------------------------------------------------------------------------
Tags == {"Utf8", "Integer", "Class", "Fieldref", "Methodref", "NameAndType"}

MAIN_METHOD == <<"main">>
MAIN_DESCRIPTOR == <<"(", "[", "Ljava/lang/String;", ")", "V">>

-----------------------------------------------------------------------------
\* get_constant, with the assertion it makes about the index
ValidIndex(constant_pool, index) == 0 < index /\ index <= Len(constant_pool)

get_constant(constant_pool, index) == constant_pool[index]

IsConstant(constant_pool, index, tag) ==
    ValidIndex(constant_pool, index) /\ get_constant(constant_pool, index).tag = tag

-----------------------------------------------------------------------------
(* Reading a class.                                                        *)

get_class_header_ok(file) == file.magic = CLASS_MAGIC

get_constant_pool_ok(file) ==
    \A k \in DOMAIN file.constant_pool : file.constant_pool[k].tag \in Tags

get_class_info_ok(file) == file.interfaces_count = 0 /\ file.fields_count = 0

CodeAttributes(constant_pool, info) ==
    {a \in DOMAIN info.attributes :
        get_constant(constant_pool, info.attributes[a].name_index).info = <<"Code">>}

\* variant: a second code attribute replaces the first
read_method_attributes_ok_Last(constant_pool, info) ==
    /\ \A a \in DOMAIN info.attributes :
          IsConstant(constant_pool, info.attributes[a].name_index, "Utf8")
    /\ CodeAttributes(constant_pool, info) # {}

\* Exactly one attribute is the code; all others are skipped.
read_method_attributes_ok(constant_pool, info) ==
    /\ \A a \in DOMAIN info.attributes :
          IsConstant(constant_pool, info.attributes[a].name_index, "Utf8")
    /\ \E a \in DOMAIN info.attributes : CodeAttributes(constant_pool, info) = {a}

get_methods_ok(file) ==
    \A k \in DOMAIN file.methods :
        LET info == file.methods[k] IN
        /\ IsConstant(file.constant_pool, info.name_index, "Utf8")
        /\ IsConstant(file.constant_pool, info.descriptor_index, "Utf8")
        /\ \/ get_constant(file.constant_pool, info.name_index).info = <<"<init>">>
           \/ info.is_static
        /\ read_method_attributes_ok(file.constant_pool, info)

\* Whether get_class returns: nothing it asserts fails, the end of the file
\* in read_u1 and fread included.
get_class_ok(file) ==
    /\ file.complete
    /\ get_class_header_ok(file)
    /\ get_constant_pool_ok(file)
    /\ get_class_info_ok(file)
    /\ get_methods_ok(file)

get_methods(file) ==
    [k \in DOMAIN file.methods |->
        LET info == file.methods[k]
            a == CHOOSE a \in CodeAttributes(file.constant_pool, info) : TRUE IN
        [name       |-> get_constant(file.constant_pool, info.name_index).info,
         descriptor |-> get_constant(file.constant_pool, info.descriptor_index).info,
         max_stack  |-> info.attributes[a].max_stack,
         max_locals |-> info.attributes[a].max_locals,
         code_length |-> info.attributes[a].code_length]]

get_class(file) == [constant_pool |-> file.constant_pool, methods |-> get_methods(file)]

-----------------------------------------------------------------------------
(* Finding a method.                                                       *)

\* The first method of that name and descriptor; empty stands for NULL.
find_method(name, descriptor, class) ==
    LET Matches(k) == /\ class.methods[k].name = name
                      /\ class.methods[k].descriptor = descriptor IN
    {k \in DOMAIN class.methods : Matches(k) /\ \A j \in 1 .. k - 1 : ~Matches(j)}

\* The assertions of find_method_from_index and get_method_name_and_type.
find_method_from_index_ok(index, class) ==
    LET pool == class.constant_pool IN
    /\ IsConstant(pool, index, "Methodref")
    /\ LET nt == pool[index].info.name_and_type_index IN
       /\ IsConstant(pool, nt, "NameAndType")
       /\ IsConstant(pool, pool[nt].info.name_index, "Utf8")
       /\ IsConstant(pool, pool[nt].info.descriptor_index, "Utf8")

find_method_from_index(index, class) ==
    LET pool == class.constant_pool
        name_and_type == pool[pool[index].info.name_and_type_index].info IN
    find_method(pool[name_and_type.name_index].info,
                pool[name_and_type.descriptor_index].info, class)

\* The loop between the parentheses: a bracket makes it skip the next token,
\* so at[n] is the place of the n-th token that is counted.
get_number_of_parameters(method) ==
    LET d == method.descriptor
        end == SelectInSeq(d, LAMBDA c : c = ")")
        start == SelectInSeq(d, LAMBDA c : c = "(")
        at[n \in 0 .. Len(d)] ==
            IF n = 0 THEN start + 1
            ELSE at[n - 1] + (IF at[n - 1] \in DOMAIN d /\ d[at[n - 1]] = "[" THEN 2 ELSE 1)
    IN  Min({n \in 0 .. Len(d) : at[n] >= end})
================================================================================
