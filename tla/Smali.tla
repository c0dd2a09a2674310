-------------------------------- MODULE Smali --------------------------------
(***************************************************************************)
(* The frontend of smali.  A method is a list of instructions, labels and  *)
(* directives.  Directives come after what they are about, so the parser   *)
(* keeps indexes into the statements it has emitted, and fills in or moves *)
(* statements later.  Its tables are variables of the Python module: they  *)
(* outlive the method and the file.                                        *)
(***************************************************************************)
EXTENDS ProgramFlow, SequencesExt, Functions

CONSTANTS
  Classes,  \* lists of methods; a method is a list of items
  NoValue   \* None, and a variable that is not assigned yet

\* An item has the labels that it names, in the order they are written.
Item(kind, labels) == [kind |-> kind, labels |-> labels]

VARIABLES
  class,      \* the class
  at,         \* the place of the next item: its method and its position in it
  statements, \* of the method so far
  methods,    \* the bodies of the methods that are finished
  error,      \* the exception that ended the parser
  label_list,            \* the index after each label
  latest_label,
  switch_table,          \* the cases of each switch directive, by its label
  unsolved_switch,       \* the index of each switch that waits for its directive
  array_data_list,       \* the values of each array directive, by its label
  unsolved_array_data,   \* the index of each fill that waits for its directive
  tmp_return,            \* the temporary of the latest invoke
  tmp_exception          \* the class of the latest catch directive
tables == <<label_list, latest_label, switch_table, unsolved_switch, array_data_list, unsolved_array_data,
            tmp_return, tmp_exception>>
vars == <<class, at, statements, methods, error, tables>>

Init ==
  /\ class \in Classes /\ at = <<1, 1>> /\ statements = <<>> /\ methods = <<>> /\ error = NoValue
  /\ label_list = <<>> /\ latest_label = NoValue
  /\ switch_table = <<>> /\ unsolved_switch = <<>>
  /\ array_data_list = <<>> /\ unsolved_array_data = <<>>
  /\ tmp_return = NoValue /\ tmp_exception = NoValue

\* A dict with one more entry, and without one.
Entered(dict, key, value) == [k \in DOMAIN dict \union {key} |-> IF k = key THEN value ELSE dict[k]]
Removed(dict, key) == [k \in DOMAIN dict \ {key} |-> dict[k]]

Running == error = NoValue /\ at[1] <= Len(class)
Items == class[at[1]]
Next1(kinds) == Running /\ at[2] <= Len(Items) /\ Items[at[2]].kind \in kinds
This == Items[at[2]]
Onward == at' = <<at[1], at[2] + 1>> /\ UNCHANGED <<class, methods, error>>
Raise(e) == error' = e /\ UNCHANGED <<class, at, statements, methods, tables>>

\* A statement that the item becomes.
Of(s) == [s EXCEPT !.of = at]
Value(v) == Var("value", v)
Emit(stmts) == statements' = statements \o stmts

-----------------------------------------------------------------------------
(* Instructions *)

\* An instruction has registers 0, 1, ... in the order it names them; t is the
\* temporary that it makes, named after it.
R(n) == Var("v", <<n>>)
Assign(def, uses) == [Plain EXCEPT !.def = def, !.use = uses]
Move(t) == <<Assign(R(0), {R(1)})>>
Const(t) == <<Assign(R(0), {})>>
CheckCast(t) == <<Assign(t, {R(0)})>>
InstanceOf(t) == <<Assign(t, {R(1)}), Assign(R(0), {t})>>
ArrayLength(t) == <<Assign(R(0), {R(1)})>>
NewInstance(t) == <<Assign(t, {}), Assign(R(0), {t})>>
\* The length of the array goes to the attributes.
NewArray(t) == <<Assign(t, {}), Assign(R(0), {t})>>
\* The registers are assigned from the array, and the temporary is not kept.
FilledNewArray(t) == <<Assign(t, {}), Assign(R(0), {t}), Assign(R(1), {t})>>
Cmp(t) == <<Assign(t, {R(1), R(2)}), Assign(R(0), {t})>>
Aget(t) == <<Assign(R(0), {R(1), R(2)})>>
Aput(t) == <<Assign(NoVar, {R(0), R(1), R(2)})>>
\* Both operands are the number.
Rsub(t) == <<Assign(R(0), {})>>
unary_expression(t) == <<Assign(R(0), {R(1)})>>
binary_expression_2addr(t) == <<Assign(R(0), {R(0), R(1)})>>
binary_expression(t) == <<Assign(R(0), {R(1), R(2)})>>
Iput(t) == <<Assign(NoVar, {R(0), R(1)})>>
Iget(t) == <<Assign(R(0), {R(1)})>>
Sput(t) == <<Assign(NoVar, {R(0)})>>
Sget(t) == <<Assign(R(0), {})>>
variable_directive(t) == <<Assign(Var("local", <<0>>), {}), Assign(Var("local", <<0>>), {R(0)})>>
end_local_directive(t) == <<Assign(NoVar, {})>>
restart_local_directive(t) == <<Assign(R(0), {})>>
\* An annotation, of the method or of a parameter; its properties are a block.
annotation_directive(t) == <<[Plain EXCEPT !.blocks = <<<<Plain>>>>]>>
\* The declaration joins the parameters; the value is in an init that is not kept.
param_directive(t) == <<>>
\* nop, .line, .registers, ...
notmatch_directive(t) == <<>>

Code(t) ==
  [move |-> Move(t), const |-> Const(t), cast |-> CheckCast(t), instanceof |-> InstanceOf(t), length |-> ArrayLength(t),
   newinstance |-> NewInstance(t), newarray |-> NewArray(t), filled |-> FilledNewArray(t), cmp |-> Cmp(t),
   aget |-> Aget(t), aput |-> Aput(t), rsub |-> Rsub(t), unary |-> unary_expression(t),
   addr2 |-> binary_expression_2addr(t), binary |-> binary_expression(t), iput |-> Iput(t), iget |-> Iget(t),
   sput |-> Sput(t), sget |-> Sget(t), local |-> variable_directive(t), endlocal |-> end_local_directive(t),
   restart |-> restart_local_directive(t), annotation |-> annotation_directive(t), param |-> param_directive(t), nop |-> notmatch_directive(t)]
Plainly ==
  /\ Next1(DOMAIN Code(NoVar))
  /\ LET code == Code(Var("%vv", at))[This.kind] IN Emit([i \in DOMAIN code |-> Of(code[i])])
  /\ Onward /\ UNCHANGED tables

Leave ==
  /\ Next1({"return", "throw"})
  /\ Emit(<<Of(IF This.kind = "return" THEN Return ELSE Throw)>>)
  /\ Onward /\ UNCHANGED tables

Jump ==
  /\ Next1({"goto"}) /\ Emit(<<Of(Goto(This.labels[1]))>>) /\ Onward /\ UNCHANGED tables

Test ==
  /\ Next1({"if"})
  /\ LET t == Var("%vv", at)
     IN  Emit(<<Of(Assign(t, {R(0), R(1)})), [If(<<Goto(This.labels[1])>>, <<>>) EXCEPT !.use = {t}]>>)
  /\ Onward /\ UNCHANGED tables

\* Mutant: a temporary that is kept is not replaced.
InvokeOnce ==
  /\ Next1({"invoke"})
  /\ Emit(<<[Of(Plain) EXCEPT !.def = Var("%vv", at)]>>)
  /\ tmp_return' = IF tmp_return = NoValue THEN Var("%vv", at) ELSE tmp_return
  /\ Onward
  /\ UNCHANGED <<label_list, latest_label, switch_table, unsolved_switch, array_data_list, unsolved_array_data, tmp_exception>>
\* The temporary is named after the instruction that it is made for.
Invoke ==
  /\ Next1({"invoke"})
  /\ Emit(<<[Of(Plain) EXCEPT !.def = Var("%vv", at)]>>)
  /\ tmp_return' = Var("%vv", at)
  /\ Onward
  /\ UNCHANGED <<label_list, latest_label, switch_table, unsolved_switch, array_data_list, unsolved_array_data, tmp_exception>>

MoveResult ==
  /\ Next1({"result"})
  /\ IF tmp_return = NoValue THEN Raise("NameError")
     ELSE /\ Emit(<<[Of(Plain) EXCEPT !.use = {tmp_return}]>>)
          /\ Onward /\ UNCHANGED tables

MoveException ==
  /\ Next1({"exception"})
  /\ Emit(<<[Of(Plain) EXCEPT !.use = {Value(tmp_exception)}]>>)
  /\ Onward /\ UNCHANGED tables

\* packed-switch and sparse-switch.  A method that uses the label of a directive
\* that was parsed before gets the cases of that one.
CasesOf(labels) == [i \in DOMAIN labels |-> Case(<<Goto(labels[i])>>)]
SwitchInstr ==
  /\ Next1({"switch"})
  /\ LET l == This.labels[1]
     IN  IF l \in DOMAIN switch_table
         THEN Emit(<<Of(Switch(switch_table[l]))>>) /\ UNCHANGED unsolved_switch
         ELSE /\ Emit(<<Of(Switch(<<>>))>>)
              /\ unsolved_switch' = Entered(unsolved_switch, l, Len(statements) + 1)
  /\ Onward
  /\ UNCHANGED <<label_list, latest_label, switch_table, array_data_list, unsolved_array_data, tmp_return, tmp_exception>>

\* fill-array-data: one write for each value.
Write(v, place) == [Plain EXCEPT !.of = place, !.use = {Value(v)}]
Writes(values, place) == [i \in DOMAIN values |-> Write(values[i], place)]
FillArrayData ==
  /\ Next1({"fill"})
  /\ LET l == This.labels[1]
     IN  IF l \in DOMAIN array_data_list
         THEN Emit(Writes(array_data_list[l], at)) /\ UNCHANGED unsolved_array_data
         ELSE /\ unsolved_array_data' = Entered(unsolved_array_data, l, [index |-> Len(statements) + 1, fill |-> at])
              /\ UNCHANGED statements
  /\ Onward
  /\ UNCHANGED <<label_list, latest_label, switch_table, unsolved_switch, array_data_list, tmp_return, tmp_exception>>

-----------------------------------------------------------------------------
(* Labels and directives *)

\* Mutants: the index is that of the label itself, and none is kept.
LabelItself ==
  /\ Next1({"label"})
  /\ LET l == This.labels[1]
     IN  /\ Emit(<<Label(l)>>)
         /\ label_list' = Entered(label_list, l, Len(statements) + 1)
         /\ latest_label' = l
  /\ Onward
  /\ UNCHANGED <<switch_table, unsolved_switch, array_data_list, unsolved_array_data, tmp_return, tmp_exception>>
\* Python counts from 0: the index kept is that of the statement after the label.
LabelStatement ==
  /\ Next1({"label"})
  /\ LET l == This.labels[1]
     IN  /\ Emit(<<Label(l)>>)
         /\ label_list' = Entered(label_list, l, Len(statements) + 2)
         /\ latest_label' = l
  /\ Onward
  /\ UNCHANGED <<switch_table, unsolved_switch, array_data_list, unsolved_array_data, tmp_return, tmp_exception>>

\* Mutant: a switch that waits for its cases does not get them.
SwitchUnfilled ==
  /\ Next1({"cases"})
  /\ switch_table' = Entered(switch_table, latest_label, CasesOf(This.labels))
  /\ unsolved_switch' = Removed(unsolved_switch, latest_label)
  /\ Onward
  /\ UNCHANGED <<statements, label_list, latest_label, array_data_list, unsolved_array_data, tmp_return, tmp_exception>>
\* .packed-switch and .sparse-switch: the cases are those of the label before.
SwitchDirective ==
  /\ Next1({"cases"})
  /\ LET cases == CasesOf(This.labels)
         known == latest_label \in DOMAIN unsolved_switch
         index == unsolved_switch[latest_label]
     IN  IF known /\ (index > Len(statements) \/ statements[index].op # "switch")
         THEN Raise("LookupError")
         ELSE /\ switch_table' = Entered(switch_table, latest_label, cases)
              /\ IF known
                 THEN /\ unsolved_switch' = Removed(unsolved_switch, latest_label)
                      /\ statements' = [statements EXCEPT ![index].blocks = <<cases>>]
                 ELSE UNCHANGED <<unsolved_switch, statements>>
              /\ Onward
              /\ UNCHANGED <<label_list, latest_label, array_data_list, unsolved_array_data, tmp_return, tmp_exception>>

\* .array-data; its values are told apart by the directive and their number.
ArrayDataDirective ==
  /\ Next1({"data"})
  /\ LET values == <<Append(at, 1), Append(at, 2)>>
         fill   == unsolved_array_data[latest_label]
     IN  /\ array_data_list' = Entered(array_data_list, latest_label, values)
         /\ IF latest_label \in DOMAIN unsolved_array_data
            THEN /\ unsolved_array_data' = Removed(unsolved_array_data, latest_label)
                 /\ statements' = SubSeq(statements, 1, fill.index - 1) \o Writes(values, fill.fill)
                                    \o SubSeq(statements, fill.index, Len(statements))
            ELSE UNCHANGED <<unsolved_array_data, statements>>
  /\ Onward
  /\ UNCHANGED <<label_list, latest_label, switch_table, unsolved_switch, tmp_return, tmp_exception>>

\* .catch {start .. end} handler: the statements between the two labels move
\* into a try statement at the end of the list.
Shifted(index, end, n) == IF index > end THEN index - n ELSE index
CatchDirective ==
  /\ Next1({"catch", "catchall"})
  /\ LET start  == label_list[This.labels[1]]
         end    == label_list[This.labels[2]]
         moved  == end - start - 1
         clause == Catch(<<Goto(This.labels[3])>>)
     IN  IF start <= end - 2 /\ end - 2 > Len(statements) THEN Raise("LookupError")
         ELSE /\ statements' = SubSeq(statements, 1, start - 1) \o SubSeq(statements, end - 1, Len(statements))
                                 \o <<Of(Try(SubSeq(statements, start, end - 2), <<clause>>, <<>>, <<>>))>>
              /\ label_list' = [l \in DOMAIN label_list |-> Shifted(label_list[l], end, moved)]
              /\ unsolved_switch' = [l \in DOMAIN unsolved_switch |-> Shifted(unsolved_switch[l], end, moved)]
              /\ unsolved_array_data' =
                   [l \in DOMAIN unsolved_array_data |-> [unsolved_array_data[l] EXCEPT !.index = Shifted(@, end, moved)]]
              /\ tmp_exception' = IF This.kind = "catch" THEN at ELSE NoValue
              /\ Onward
              /\ UNCHANGED <<latest_label, switch_table, array_data_list, tmp_return>>

\* method_definition takes the statements; the tables stay as they are.
MethodDefinition ==
  /\ Running /\ at[2] > Len(Items)
  /\ methods' = Append(methods, statements)
  /\ statements' = <<>>
  /\ at' = <<at[1] + 1, 1>>
  /\ UNCHANGED <<class, error, tables>>

Next ==
  \/ Plainly \/ Leave \/ Jump \/ Test \/ Invoke \/ MoveResult \/ MoveException
  \/ SwitchInstr \/ FillArrayData \/ LabelStatement \/ SwitchDirective \/ ArrayDataDirective \/ CatchDirective
  \/ MethodDefinition
Spec == Init /\ [][Next]_vars

-----------------------------------------------------------------------------
(* What the method says *)

Pos(m, l) == CHOOSE i \in DOMAIN class[m] : class[m][i].kind = "label" /\ class[m][i].labels[1] = l
ItemsOf(m, kinds) == {i \in DOMAIN class[m] : class[m][i].kind \in kinds}
\* What the directives are about comes under the label directly before them.
Under(m, l, kind) == {i \in ItemsOf(m, {kind}) : class[m][i - 1].labels = <<l>>}
Directives == {"catch", "catchall", "cases", "data"}
Silent(item) == item.kind \in Directives \union {"label", "nop", "param"}

\* The registers that an instruction reads and writes.
Reads ==
  [move |-> {1}, const |-> {}, cast |-> {0}, instanceof |-> {1}, length |-> {1}, newinstance |-> {}, newarray |-> {1},
   filled |-> {0, 1}, cmp |-> {1, 2}, aget |-> {1, 2}, aput |-> {0, 1, 2}, rsub |-> {1}, unary |-> {1}, addr2 |-> {0, 1},
   binary |-> {1, 2}, iput |-> {0, 1}, iget |-> {1}, sput |-> {0}, sget |-> {}, local |-> {0}, endlocal |-> {},
   restart |-> {}, annotation |-> {}, param |-> {}, nop |-> {}, if |-> {0, 1}]
Writing == {"move", "const", "instanceof", "length", "newinstance", "newarray", "cmp", "aget", "rsub", "unary", "addr2",
            "binary", "iget", "sget"}

\* What may be executed after an item, exceptions apart.
After(m, i) ==
  LET item == class[m][i]
      to(l) == Pos(m, l)
  IN  CASE item.kind = "return" -> {0}
        [] item.kind = "throw" -> {}
        [] item.kind = "goto" -> {to(item.labels[1])}
        [] item.kind = "if" -> {i + 1, to(item.labels[1])}
        [] item.kind = "switch" ->
             {i + 1} \union UNION {{to(l) : l \in ToSet(class[m][d].labels)} : d \in Under(m, item.labels[1], "cases")}
        [] OTHER -> {i + 1}
Steps(m) ==
  LET all == {<<i, j>> \in (DOMAIN class[m]) \X (0..Len(class[m])) : j \in After(m, i)}
      silent == {e \in all : Silent(class[m][e[1]])}
      loud(i) == i = 0 \/ ~Silent(class[m][i])
  IN  {<<i, j>> \in {i \in DOMAIN class[m] : loud(i)} \X (0..Len(class[m])) :
         loud(j) /\ i # j /\ j \in Closure({e[2] : e \in {d \in all : d[1] = i}}, silent)}

\* The same of the statements, by the items that they come from.
OfItem(s) == IF s.op = "try" THEN <<>> ELSE s.of
GirSteps(m) ==
  LET stmts  == StmtsOf(methods[m], Exit)
      flow   == FlowOf(methods[m])
      item   == [place \in {s.at : s \in {t \in stmts : OfItem(t) # <<>>}} |->
                   OfItem(CHOOSE t \in stmts : t.at = place)[2]] @@ (Exit :> 0)
      silent == {e \in flow : e[1] \notin DOMAIN item}
      next(p) == {item[q] : q \in DOMAIN item \intersect Closure({e[2] : e \in {d \in flow : d[1] = p}}, silent)}
  IN  UNION {{item[p]} \X (next(p) \ {item[p]}) : p \in DOMAIN item \ {Exit}}

-----------------------------------------------------------------------------
(* Where the parser departs from it *)

Within(m, i, c) == LET ls == class[m][c].labels IN Pos(m, ls[1]) < i /\ i < Pos(m, ls[2])
Catches(m) == ItemsOf(m, {"catch", "catchall"})

\* The index of a try range is used twice, or of what was moved into one.
RangesApart(m) ==
  \A c \in Catches(m) :
    /\ \A d \in Catches(m) \ {c} : class[m][c].labels[2] # class[m][d].labels[2]
    /\ \A i \in ItemsOf(m, {"switch", "fill"}) : ~Within(m, i, c)
\* The writes of an array are inserted, and what waits behind them is not found.
DirectivesInOrder(m) ==
  \A f \in ItemsOf(m, {"fill"}), x \in ItemsOf(m, {"switch", "fill"}) :
    f < x => \A d \in Under(m, class[m][f].labels[1], "data"), e \in Under(m, class[m][x].labels[1], "cases")
                                                                     \union Under(m, class[m][x].labels[1], "data") : e < d
\* The label of a directive is that of another one in a method before.
LabelsOnce(m) ==
  \A k \in 1..(m - 1) : \A i \in ItemsOf(m, {"cases", "data"}), j \in ItemsOf(k, {"cases", "data"}) :
    class[m][i - 1].labels # class[k][j - 1].labels
\* The temporary of a filled-new-array is not kept for the move-result after it.
NothingFilled(m) == \A r \in ItemsOf(m, {"result"}) : class[m][r - 1].kind = "invoke"
\* Instructions whose registers are mixed up.
MixedUp == {"newarray", "filled", "rsub", "restart"}
Regular(m) == NothingFilled(m) /\ RangesApart(m) /\ DirectivesInOrder(m) /\ LabelsOnce(m)

-----------------------------------------------------------------------------
(* Properties *)

\* Goto, fall-through and the cases of a switch lead from each instruction to
\* the same ones as in the source, though ranges are moved and cases and array
\* values come late; and the parser gets through (all handlers of smali_parser.py).
FlowKept ==
  /\ (\A m \in DOMAIN class : Regular(m)) => error = NoValue
  /\ \A m \in DOMAIN methods : (\A k \in 1..m : Regular(k)) => GirSteps(m) = Steps(m)

\* A try statement protects what is between its two labels, all of it and
\* nothing else, with smaller ranges in it (catch_directive).
RangesCaught ==
  \A m \in DOMAIN methods : (\A k \in 1..m : Regular(k)) =>
    \A c \in Catches(m) : \E t \in StmtsOf(methods[m], Exit) :
      /\ t.op = "try" /\ t.of = <<m, c>>
      /\ {OfItem(s) : s \in StmtsOf(t.blocks[1], Exit)} \ {<<>>}
           = {<<m, i>> : i \in {j \in DOMAIN class[m] : ~Silent(class[m][j]) /\ Within(m, j, c)}}

\* Every instruction reads and writes its own registers, through its own
\* temporary (primary_expression); an array is filled once, with the values of
\* its own directive in their order (fill-array-data, array_data_directive); and a
\* result comes from the call directly before it (tmp_return).
OwnValuesRead ==
  \A m \in DOMAIN methods :
    LET stmts  == StmtsOf(methods[m], Exit)
        of(i)  == {s \in stmts : s.of = <<m, i>>}
        at_(i) == SelectSeq(methods[m], LAMBDA s : s.of = <<m, i>>)
        own(i) == Var("%vv", <<m, i>>)
        regs(S) == {n \in 0..2 : R(n) \in S}
    IN  /\ \A i \in ItemsOf(m, DOMAIN Reads \ MixedUp) :
             LET kind == class[m][i].kind
             IN  /\ regs(UNION {s.use : s \in of(i)}) = Reads[kind]
                 /\ regs({s.def : s \in of(i)}) = IF kind \in Writing THEN {0} ELSE {}
                 /\ \A s \in of(i) : own(i) \in s.use => \E w \in of(i) : w.def = own(i)
        /\ (\A k \in 1..m : Regular(k)) =>
             /\ \A f \in ItemsOf(m, {"fill"}) : \A d \in Under(m, class[m][f].labels[1], "data") :
                  [k \in DOMAIN at_(f) |-> at_(f)[k].use] = <<{Value(<<m, d, 1>>)}, {Value(<<m, d, 2>>)}>>
             /\ \A r \in ItemsOf(m, {"result"}) : \A s \in of(r) : s.use = {Var("%vv", <<m, r - 1>>)}
=============================================================================
