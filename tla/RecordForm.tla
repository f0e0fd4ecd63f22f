----------------------------- MODULE RecordForm -----------------------------
(***************************************************************************)
(* The form that adds or edits one resource record (AddRr, RrInputs,       *)
(* RrInputText, SelectRr in ResourceRecords.jsx), as operators.            *)
(*                                                                         *)
(* The inputs have no keys: when another type is selected React reuses an  *)
(* input at the same position, and an input registers its name with the    *)
(* form only once, when it is mounted. The form therefore holds the name   *)
(* each mounted input was mounted with, and the names of inputs that are   *)
(* gone and still registered.                                              *)
(***************************************************************************)
EXTENDS Integers, Sequences, Functions

\* rrProto: the fields of a value (a plain string is the field "value"),
\* whether a name can have several, and whether the user can add one.
Proto(fields, array, canAdd) == [fields |-> fields, array |-> array, canAdd |-> canAdd]

rrProto ==
    [soa |-> Proto(<<"mname", "email", "refresh", "retry", "expire", "minimum">>, FALSE, FALSE),
     ns |-> Proto(<<"value">>, TRUE, FALSE),
     a |-> Proto(<<"value">>, TRUE, TRUE),
     mx |-> Proto(<<"host", "priority">>, TRUE, TRUE),
     txt |-> Proto(<<"value">>, TRUE, TRUE),
     hinfo |-> Proto(<<"cpu", "os">>, FALSE, TRUE),
     rp |-> Proto(<<"mbox", "txt">>, FALSE, TRUE),
     afsdb |-> Proto(<<"host", "subtype">>, TRUE, TRUE),
     srv |-> Proto(<<"target", "priority", "weight", "port">>, TRUE, TRUE),
     openpgpkey |-> Proto(<<"value">>, FALSE, TRUE)]

NoType == "select"
Fields(type) == IF type = NoType THEN <<>> ELSE rrProto[type].fields

\* filterUsedRrTypes and the options of SelectRr: a type that a name can have
\* once is not offered when the name has it.
Selectable(rr) ==
    {t \in DOMAIN rrProto : rrProto[t].canAdd /\ ~(t \in DOMAIN rr /\ ~rrProto[t].array)}

\* useState of AddRr with the inputs of its first render. An index past the
\* end of the array shows the input of a plain value.
AddForm(rr) ==
    [type |-> NoType, inputs |-> <<>>, gone |-> {}, offered |-> Selectable(rr), selections |-> 0]
EditForm(rr, type, ix) ==
    [type |-> type, gone |-> {}, offered |-> {},
     inputs |-> IF ix <= Len(rr[type]) THEN Fields(type) ELSE <<"value">>]

\* onSelectinChanged and the render after it.
Selected(form, type) ==
    LET new == Fields(type)
        kept == IF Len(new) < Len(form.inputs) THEN Len(new) ELSE Len(form.inputs)
        mounted == SubSeq(new, kept + 1, Len(new))
        dropped == SubSeq(form.inputs, kept + 1, Len(form.inputs))
    IN  [type |-> type, offered |-> form.offered, selections |-> form.selections + 1,
         inputs |-> SubSeq(form.inputs, 1, kept) \o mounted,
         gone |-> (form.gone \union Range(dropped)) \ Range(mounted)]

Registered(form) == Range(form.inputs) \union form.gone

\* Mutant: castStringToType lets a field pass that the type does not have.
CollectThrowsOnlyWhenGone(form) ==
    \/ form.gone # {}
    \/ "value" \in Registered(form) /\ Registered(form) # {"value"}

\* The loop of submit over the registered inputs. It throws on an input that
\* is gone, on a field that the type does not have (castStringToType), and
\* when it sets a field of a plain value.
CollectThrows(form) ==
    \/ form.gone # {}
    \/ \E name \in Registered(form) \ {"value"} : name \notin Range(Fields(form.type))
    \/ "value" \in Registered(form) /\ Registered(form) # {"value"}

\* What it collects has the fields of the type.
CollectFits(form) == Registered(form) = Range(Fields(form.type))

\* setValueInRr, with index 0 for a value that is added: an array grows, with
\* a hole (null) for each index it skips; what a name can have once is set.
SetThrows(rr, type, ix) == ix = 0 /\ ~rrProto[type].array /\ type \in DOMAIN rr

ValueSet(values, ix, value, hole) ==
    [i \in 1..(IF ix > Len(values) THEN ix ELSE Len(values)) |->
        IF i = ix THEN value ELSE IF i \in DOMAIN values THEN values[i] ELSE hole]

\* Mutant: an edit is added at the end.
setValueInRrAppends(rr, type, ix, value, hole) ==
    LET values == IF type \in DOMAIN rr THEN rr[type] ELSE <<>>
        new == IF rrProto[type].array THEN Append(values, value) ELSE <<value>>
    IN  [t \in DOMAIN rr \union {type} |-> IF t = type THEN new ELSE rr[t]]

setValueInRr(rr, type, ix, value, hole) ==
    LET values == IF type \in DOMAIN rr THEN rr[type] ELSE <<>>
        new == CASE ~rrProto[type].array -> <<value>>
                 [] rrProto[type].array /\ ix = 0 -> Append(values, value)
                 [] OTHER -> ValueSet(values, ix, value, hole)
    IN  [t \in DOMAIN rr \union {type} |-> IF t = type THEN new ELSE rr[t]]

\* Array.splice(ix, 1).
splice(values, ix) == [i \in 1..(Len(values) - 1) |-> IF i < ix THEN values[i] ELSE values[i + 1]]

\* deleteRr before the question: what becomes of the object the row shows (the
\* array in it is spliced, the rest of it is a copy), and what will be sent.
Spliced(rr, type, ix) ==
    IF rrProto[type].array /\ Len(rr[type]) > 1 /\ ix <= Len(rr[type])
    THEN [rr EXCEPT ![type] = splice(@, ix)]
    ELSE rr

\* Mutant: an array is spliced down to nothing.
DeleteBodySplicesLast(rr, type, ix) ==
    IF rrProto[type].array
    THEN [rr EXCEPT ![type] = IF ix > Len(@) THEN @ ELSE splice(@, ix)]
    ELSE [t \in DOMAIN rr \ {type} |-> rr[t]]

DeleteBody(rr, type, ix) ==
    IF rrProto[type].array /\ Len(rr[type]) > 1
    THEN Spliced(rr, type, ix)
    ELSE [t \in DOMAIN rr \ {type} |-> rr[t]]
=============================================================================
