------------------------------ MODULE MCTeenyJVM ------------------------------
(* Classes and instructions for the model checker.                         *)
EXTENDS TeenyJVM

Method(name, params, returns, max_stack, max_locals) ==
    [name |-> name, params |-> params, returns |-> returns,
     max_stack |-> max_stack, max_locals |-> max_locals]

\* main(), and methods f of which two differ in their parameters only.
MCMethods ==
    <<Method("f", <<"int">>, "int", 2, 2),
      Method("main", <<"strings">>, "void", 3, 2),
      Method("f", <<"array", "int">>, "int", 3, 2),
      Method("g", <<"int">>, "array", 2, 1)>>

MCMainMethod == 2

Type(k) == CASE k = "int" -> <<"I">>
             [] k = "array" -> <<"[", "I">>
             [] k = "strings" -> <<"[", "Ljava/lang/String;">>
             [] k = "void" -> <<"V">>

Descriptor(m) ==
    <<"(">> \o FlattenSeq([i \in DOMAIN m.params |-> Type(m.params[i])])
      \o <<")">> \o Type(m.returns)

\* The constant pool of javac: for method m a Methodref, a NameAndType and
\* two strings at 4m - 3 .. 4m, then the class, an integer and attributes.
Constants(m) ==
    <<[tag |-> "Methodref", info |-> [class_index |-> 4 * Len(MCMethods) + 1,
                                      name_and_type_index |-> 4 * m - 2]],
      [tag |-> "NameAndType", info |-> [name_index |-> 4 * m - 1, descriptor_index |-> 4 * m]],
      [tag |-> "Utf8", info |-> <<MCMethods[m].name>>],
      [tag |-> "Utf8", info |-> Descriptor(MCMethods[m])]>>

IntegerAt == 4 * Len(MCMethods) + 2
CodeAt == IntegerAt + 1
OtherAt == IntegerAt + 2
InitAt == IntegerAt + 3

Pool ==
    FlattenSeq([m \in DOMAIN MCMethods |-> Constants(m)])
      \o <<[tag |-> "Class", info |-> [string_index |-> OtherAt]],
           [tag |-> "Integer", info |-> 30000],
           [tag |-> "Utf8", info |-> <<"Code">>],
           [tag |-> "Utf8", info |-> <<"Deprecated">>],
           [tag |-> "Utf8", info |-> <<"<init>">>]>>

Attribute(at, m) ==
    [name_index |-> at, max_stack |-> m.max_stack, max_locals |-> m.max_locals,
     code_length |-> CODE_LENGTH]

MethodInfo(m) ==
    [is_static |-> TRUE, name_index |-> 4 * m - 1, descriptor_index |-> 4 * m,
     attributes |-> <<Attribute(OtherAt, MCMethods[m]), Attribute(CodeAt, MCMethods[m])>>]

\* The constructor that javac adds.
Constructor ==
    [MethodInfo(1) EXCEPT !.is_static = FALSE, !.name_index = InitAt]

GoodFile ==
    [magic |-> CLASS_MAGIC, complete |-> TRUE, constant_pool |-> Pool,
     interfaces_count |-> 0, fields_count |-> 0,
     methods |-> [m \in DOMAIN MCMethods |-> MethodInfo(m)] \o <<Constructor>>]

BadFiles ==
    {[GoodFile EXCEPT !.magic = CLASS_MAGIC + 1],
     [GoodFile EXCEPT !.complete = FALSE],
     [GoodFile EXCEPT !.interfaces_count = 1],
     [GoodFile EXCEPT !.fields_count = 2],
     [GoodFile EXCEPT !.constant_pool[17].tag = "Long"],
     [GoodFile EXCEPT !.methods[1].is_static = FALSE],
     [GoodFile EXCEPT !.methods[1].name_index = 0],
     [GoodFile EXCEPT !.methods[3].descriptor_index = Len(Pool) + 1],
     [GoodFile EXCEPT !.methods[4].attributes = <<Attribute(OtherAt, MCMethods[1])>>],
     [GoodFile EXCEPT !.methods[4].attributes[1].name_index = CodeAt],
     [GoodFile EXCEPT !.methods[2].name_index = 3]}

MCClassFiles == {GoodFile} \cup BadFiles
MCSupported == {GoodFile}
MCMethodRefs == [i \in {4 * m - 3 : m \in DOMAIN MCMethods} |-> (i + 3) \div 4]
MCIntegerRefs == [i \in {IntegerAt} |-> 30000]

ShortBytes(n) == <<(n % 65536) \div 256, n % 256>>
Call(m) == <<I.i_invokestatic>> \o ShortBytes(4 * m - 3)
GetStatic == <<I.i_getstatic, 0, 1>>
Println == <<I.i_invokevirtual, 0, 2>>
Branch(op, n) == <<op>> \o ShortBytes(n)

\* Every kind of arithmetic, on numbers of every kind, and output.
MCArithmetic ==
    {<<op>> : op \in {I.i_iadd, I.i_isub, I.i_imul, I.i_idiv, I.i_irem, I.i_ineg, I.i_ishl,
                      I.i_ishr, I.i_iushr, I.i_iand, I.i_ior, I.i_ixor, I.i_iconst_m1,
                      I.i_iconst_0, I.i_iconst_5, I.i_dup, I.i_return, i_pop}}
      \cup {<<I.i_bipush, 249>>, <<I.i_sipush, 128, 1>>, <<I.i_ldc, IntegerAt>>,
            GetStatic, Println}

\* Locals and jumps.
MCControl ==
    {<<op>> : op \in {I.i_iconst_m1, I.i_iconst_0 + 1, I.i_iload_0 + 1, I.i_istore_0 + 1,
                      I.i_return, I.i_nop}}
      \cup {Branch(op, n) : op \in I.i_ifeq .. I.i_if_icmple, n \in {4, -4}}
      \cup {Branch(I.i_goto, n) : n \in {-5, -3, 0, 3, 4}}
      \cup {<<I.i_iinc, 1, 255>>, <<I.i_iload, 1>>, <<I.i_istore, 0>>}

\* Calls, with arrays as arguments and results.
MCCalls ==
    {<<op>> : op \in {I.i_iconst_0, I.i_iconst_0 + 1, I.i_iload_0, I.i_aload_0,
                      I.i_iload_0 + 1, I.i_astore_0 + 1,
                      I.i_iaload, I.i_iastore, I.i_arraylength,
                      I.i_ireturn, I.i_areturn, I.i_return}}
      \cup {Call(m) : m \in {1, 3, 4}}
      \cup {<<I.i_newarray, 10>>, <<I.i_aload, 0>>, <<I.i_astore, 1>>}

MCKits ==
    {[instructions |-> MCArithmetic, size |-> 5, steps |-> 6],
     [instructions |-> MCControl, size |-> 5, steps |-> 12],
     [instructions |-> MCCalls, size |-> 8, steps |-> 9]}
================================================================================
