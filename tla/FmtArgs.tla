------------------------------- MODULE FmtArgs --------------------------------
(***************************************************************************)
(* How fmt hands arguments over: format_arg_store holds those of one call, *)
(* packed into values and a word of types while there are few of them;     *)
(* dynamic_format_arg_store collects them one by one, copies strings into  *)
(* nodes of its own, refers to what it was told to refer to, and puts the  *)
(* table of names into an entry before the first argument.                 *)
(* basic_format_args is the view of either that format() reads.            *)
(***************************************************************************)
EXTENDS Integers, Sequences, SequencesExt

CONSTANTS
    MaxPacked,      \* max_packed_args: 15 in the code
    MaxGiven,       \* bound: arguments given
    Texts,          \* what an argument may say
    ArgNames,       \* names of arguments
    CallerVars,     \* variables of the caller that arguments may refer to
    NoName          \* an argument without a name

ASSUME ArgsAssumption ==
    MaxPacked \in Nat /\ NoName \notin ArgNames

VARIABLES
    caller,         \* the variables of the caller
    given,          \* the arguments as the caller gave them
    data_,          \* entries of the dynamic store
    named_info_,    \* its table of names
    dynamic_args_,  \* the nodes with its copies
    spoiled         \* an entry without an argument was left in front

argVars == <<caller, given, data_, named_info_, dynamic_args_, spoiled>>

\* An argument as it is given, and as an entry of the store keeps it: the text
\* itself, a place in dynamic_args_, or a variable of the caller.
Given(how, what, name) == [how |-> how, what |-> what, name |-> name]
Entry(how, what) == [how |-> how, what |-> what]
NamesEntry == Entry("names", 0)

Nothing0 == "nothing"       \* no argument: the empty basic_format_arg
Junk == "junk"              \* memory that is no argument

ArgsInit ==
    /\ caller \in [CallerVars -> Texts]
    /\ given = <<>> /\ data_ = <<>> /\ named_info_ = <<>> /\ dynamic_args_ = <<>>
    /\ spoiled = FALSE

-----------------------------------------------------------------------------
(* dynamic_format_arg_store                                                *)

\* emplace_arg of an argument without a name.
Emplace(entry) ==
    /\ data_' = Append(data_, entry)
    /\ UNCHANGED named_info_

\* emplace_arg of one with a name: the first makes room for the table.
WithTable == IF named_info_ = <<>> THEN <<NamesEntry>> \o data_ ELSE data_
EmplaceNamed(name, entry) ==
    /\ data_' = Append(WithTable, entry)
    /\ named_info_' = Append(named_info_, [name |-> name, id |-> Len(data_') - 2])

\* dynamic_arg_list::push: a node of its own, which stays where it is.
PushNode(t) == dynamic_args_' = Append(dynamic_args_, t)

Gives(argument) == Len(given) < MaxGiven /\ given' = Append(given, argument)

\* push_back of a number, which is always copied into the entry.
PushValue ==
    /\ \E t \in Texts : Gives(Given("value", t, NoName)) /\ Emplace(Entry("value", t))
    /\ UNCHANGED <<caller, dynamic_args_, spoiled>>

\* push_back of a string, with a name or without: copied into a node.
PushCopy ==
    /\ \E t \in Texts, name \in ArgNames \cup {NoName} :
          /\ Gives(Given("value", t, name))
          /\ PushNode(t)
          /\ LET entry == Entry("node", Len(dynamic_args_'))
             IN IF name = NoName THEN Emplace(entry) ELSE EmplaceNamed(name, entry)
    /\ UNCHANGED <<caller, spoiled>>

\* push_back of a reference to a string, or to a named argument with one.
PushRef ==
    /\ \E x \in CallerVars, name \in ArgNames \cup {NoName} :
          /\ Gives(Given("var", x, name))
          /\ IF name = NoName THEN Emplace(Entry("var", x)) ELSE EmplaceNamed(name, Entry("var", x))
    /\ UNCHANGED <<caller, dynamic_args_, spoiled>>

\* No memory for the entry, or for its name: the entry is taken back, the room
\* that was made for the table is not.
PushNamedFails ==
    /\ data_' = WithTable
    /\ spoiled' = (spoiled \/ named_info_ = <<>>)
    /\ Len(data_') <= MaxGiven + 1
    /\ UNCHANGED <<caller, given, named_info_, dynamic_args_>>

\* Mutant: the table of names is kept.
ClearKeepsNames ==
    /\ given # <<>> \/ spoiled
    /\ data_' = <<>> /\ dynamic_args_' = <<>> /\ given' = <<>> /\ spoiled' = FALSE
    /\ UNCHANGED <<caller, named_info_>>

Clear ==
    /\ given # <<>> \/ spoiled
    /\ data_' = <<>> /\ named_info_' = <<>> /\ dynamic_args_' = <<>>
    /\ given' = <<>> /\ spoiled' = FALSE
    /\ UNCHANGED caller

\* The caller gives one of its variables another text.
Change ==
    /\ \E x \in CallerVars, t \in Texts : caller[x] # t /\ caller' = [caller EXCEPT ![x] = t]
    /\ UNCHANGED <<given, data_, named_info_, dynamic_args_, spoiled>>

ArgsNext == PushValue \/ PushCopy \/ PushRef \/ PushNamedFails \/ Clear \/ Change

ArgsSpec == ArgsInit /\ [][ArgsNext]_argVars

-----------------------------------------------------------------------------
(* basic_format_args: a view is the descriptor and the entries from the    *)
(* first argument on.                                                      *)

View(packed, size, entries, names) ==
    [packed |-> packed, size |-> size, entries |-> entries, names |-> names]

\* format_arg_store, with init_named_args: the type of an argument that is not
\* there is none_type.
StaticView ==
    LET named[i \in 0 .. Len(given)] ==
            IF i = 0 THEN <<>>
            ELSE IF given[i].name = NoName THEN named[i - 1]
            ELSE Append(named[i - 1], [name |-> given[i].name, id |-> i - 1])
    IN View(Len(given) <= MaxPacked, Len(given),
            [i \in DOMAIN given |-> Entry(given[i].how, given[i].what)], named[Len(given)])

\* get_types and data: the size counts the entry of the table too.
DynamicView ==
    View(FALSE, Len(data_), IF named_info_ = <<>> THEN data_ ELSE SubSeq(data_, 2, Len(data_)), named_info_)

\* What an argument says when it is written.
Says(entry) ==
    CASE entry.how = "value" -> entry.what
      [] entry.how = "node" -> dynamic_args_[entry.what]
      [] entry.how = "var" -> caller[entry.what]
      [] OTHER -> Junk

\* get of an index: the outcomes, more than one where memory past the last
\* entry is read.
GetIndex(view, id) ==
    LET there == id < Len(view.entries)
    IN CASE view.packed -> IF id < MaxPacked /\ there THEN {Says(view.entries[id + 1])} ELSE {Nothing0}
         [] ~view.packed /\ id < view.size ->
                IF there THEN {Says(view.entries[id + 1])} ELSE {Nothing0, Junk}
         [] OTHER -> {Nothing0}

\* get_id and get of a name: the first entry of the table that has it.
GetName(view, name) ==
    LET places == {k \in DOMAIN view.names : view.names[k].name = name}
        first == CHOOSE k \in places : \A l \in places : k <= l
    IN IF places = {} THEN {Nothing0} ELSE GetIndex(view, view.names[first].id)

-----------------------------------------------------------------------------
\* However the arguments were handed over, an index gives the argument of that
\* place and a name the first of that name: copies as they were when they were
\* given, references as the caller's variable is now.  Nothing else is found,
\* but one index too many in a store with names is not refused.  A store that
\* failed to take its first name is left out: its arguments are one place off.
ArgsFound ==
    \A view \in {StaticView} \cup (IF spoiled THEN {} ELSE {DynamicView}) :
        /\ \A id \in 0 .. Len(given) + 1 :
              \/ id < Len(given) /\ GetIndex(view, id) = {Says(Entry(given[id + 1].how, given[id + 1].what))}
              \/ id >= Len(given) /\ GetIndex(view, id) = {Nothing0}
              \/ id = Len(given) /\ view = DynamicView /\ named_info_ # <<>>
        /\ \A name \in ArgNames :
              LET places == {i \in DOMAIN given : given[i].name = name}
                  first == CHOOSE i \in places : \A j \in places : i <= j
              IN GetName(view, name) =
                    IF places = {} THEN {Nothing0}
                    ELSE {Says(Entry(given[first].how, given[first].what))}

=============================================================================
