--------------------------- MODULE AsyncValidation ---------------------------
(***************************************************************************)
(* Which validators a step of a form calls, and in what order:             *)
(* plugins/scaffolder-frontend-workflow/src/hooks/useAsyncValidation.ts.   *)
(*                                                                         *)
(* A form is flat here: a field of a nested object is a field of its own,  *)
(* with a value of its own, named by `properties` of the field that holds  *)
(* it.  Of a value only matters whether it is there and which validators   *)
(* reject it.                                                              *)
(***************************************************************************)
EXTENDS Naturals, SequencesExt

CONSTANTS
    Absent,     \* the value of a field that the form data has no key for
    NoField,    \* no ui:field
    Schema,     \* field -> [type, uiField, properties, items]
    Rejects     \* validator -> the values it finds an error in, Absent included

Fields == DOMAIN Schema

FieldsOf(step) == ToSet(step) \cup UNION {ToSet(Schema[f].properties) : f \in ToSet(step)}

\* The form of a schema.  It nests once, as deep as FieldsOf looks.
ASSUME SchemaAssumption ==
    /\ NoField \notin DOMAIN Rejects
    /\ \A f \in Fields : LET field == Schema[f] IN
        /\ field.properties \in Seq(Fields)
        /\ \A i \in DOMAIN field.properties : Schema[field.properties[i]].properties = <<>>
        /\ field.properties # <<>> => field.type = "object"
        /\ field.items.properties \in Seq(STRING)
        /\ field.items.properties # <<>> => field.items.type = "object"
        /\ field.type = "object" => field.items.uiField = NoField /\ field.items.properties = <<>>

\* useValidators: only the extensions that come with a validation are found by
\* their name.
validators == DOMAIN Rejects

Check(f, validator) == [field |-> f, validator |-> validator]

\* In the place of a check: the schema says object, and there is none.
Throw == Check(NoField, NoField)

\* One validateForm for each of the names.
validateForm(f, names) ==
    FlattenSeq([i \in DOMAIN names |->
        IF names[i] \in validators THEN <<Check(f, names[i])>> ELSE <<>>])

\* Items are not gone through one by one: the validator of an item, or those of
\* the properties of an item, are called with the whole array.
doValidate(f) ==
    LET items == Schema[f].items
    IN  IF items.uiField # NoField THEN validateForm(f, <<items.uiField>>)
        ELSE IF items.type = "object" THEN validateForm(f, items.properties)
        ELSE <<>>

\* Faulty: the properties of an object are not gone through.
ValidatesTheTop(formData, step) ==
    FlattenSeq([i \in DOMAIN step |->
        IF Schema[step[i]].type = "object" /\ formData[step[i]] = Absent THEN <<Throw>>
        ELSE IF Schema[step[i]].uiField # NoField
        THEN validateForm(step[i], <<Schema[step[i]].uiField>>)
        ELSE doValidate(step[i])])

\* What validate calls on the way through the fields of a step, depth first; an
\* object's own validator comes after those of its properties.
validate(formData, step) ==
    LET of[f \in Fields] ==
            IF Schema[f].type = "object"
            THEN IF formData[f] = Absent
                 THEN <<Throw>>
                 ELSE FlattenSeq([i \in DOMAIN Schema[f].properties |->
                                     of[Schema[f].properties[i]]])
                      \o validateForm(f, <<Schema[f].uiField>>)
            ELSE IF Schema[f].uiField # NoField
            THEN validateForm(f, <<Schema[f].uiField>>)
            ELSE doValidate(f)
    IN  FlattenSeq([i \in DOMAIN step |-> of[step[i]]])

\* The errors a check adds at the path of its field.  A validator that throws is
\* caught, and counts as one that found an error.
ErrorsOf(check, formData) ==
    IF formData[check.field] \in Rejects[check.validator] THEN {check.field} ELSE {}
=============================================================================
