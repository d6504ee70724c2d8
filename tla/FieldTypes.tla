------------------------------ MODULE FieldTypes ------------------------------
(***************************************************************************)
(* The column a model field is created with (base.data_types) and the      *)
(* field that introspection finds for a column: datatype to ADO type to    *)
(* field, with the markers for identity and money columns.                 *)
(***************************************************************************)

Sized == {"CharField", "CommaSeparatedIntegerField", "FileField", "FilePathField",
          "SlugField", "URLField"}
Addresses == {"GenericIPAddressField", "IPAddressField"}
FieldClasses == Sized \cup Addresses \cup
    {"AutoField", "BigAutoField", "BigIntegerField", "BinaryField", "BooleanField",
     "DateField", "DateTimeField", "DateTimeOffsetField", "DecimalField",
     "DurationField", "FloatField", "IntegerField", "LegacyDateField",
     "LegacyDateTimeField", "LegacyTimeField", "NewDateField", "NewDateTimeField",
     "NewTimeField", "NullBooleanField", "OneToOneField", "PositiveIntegerField",
     "PositiveSmallIntegerField", "SmallIntegerField", "TextField", "TimeField",
     "UUIDField"}

Datatypes == {"bigint", "binary", "bit", "char", "date", "datetime", "datetime2",
    "datetimeoffset", "decimal", "float", "image", "int", "money", "numeric", "nchar",
    "ntext", "nvarchar", "smalldatetime", "smallint", "smallmoney", "text", "time",
    "tinyint", "varbinary", "varchar", "uniqueidentifier"}

\* The datatype of a field's column; "double precision" is float to the server.
Datatype(class) ==
    CASE class \in Sized \cup Addresses \cup {"TextField"} -> "nvarchar"
      [] class \in {"AutoField", "IntegerField", "OneToOneField", "PositiveIntegerField"} -> "int"
      [] class \in {"BigAutoField", "BigIntegerField", "DurationField"} -> "bigint"
      [] class \in {"SmallIntegerField", "PositiveSmallIntegerField"} -> "smallint"
      [] class = "BinaryField" -> "varbinary"
      [] class \in {"BooleanField", "NullBooleanField"} -> "bit"
      [] class \in {"DateField", "NewDateField"} -> "date"
      [] class \in {"DateTimeField", "NewDateTimeField"} -> "datetime2"
      [] class = "DateTimeOffsetField" -> "datetimeoffset"
      [] class \in {"LegacyDateField", "LegacyDateTimeField"} -> "datetime"
      [] class \in {"TimeField", "NewTimeField", "LegacyTimeField"} -> "time"
      [] class = "DecimalField" -> "decimal"
      [] class = "FloatField" -> "float"
      [] class = "UUIDField" -> "uniqueidentifier"

\* A column: its datatype, whether it is an IDENTITY, and how long it may be:
\* "sized", "long" (a description of more than 8000) or "max".
Column(class) ==
    [type |-> Datatype(class),
     identity |-> class \in {"AutoField", "BigAutoField"},
     size |-> IF class \in {"TextField", "BinaryField"} THEN "max" ELSE "sized"]

\* _datatype_to_ado_type, as far as data_types_reverse tells the types apart.
AdoType(type) ==
    CASE type \in {"datetime", "datetime2", "datetimeoffset", "smalldatetime"} -> "timestamp"
      [] type \in {"money", "smallmoney"} -> "money"
      [] type \in {"image", "binary", "varbinary"} -> "binary"
      [] type \in {"char", "nchar", "varchar", "nvarchar"} -> type
      [] type \in {"text", "ntext"} -> "text"
      [] type \in {"decimal", "numeric"} -> "decimal"
      [] type = "uniqueidentifier" -> "unknown"
      [] OTHER -> type

\* Fault: a column of nvarchar(max) keeps the type of its datatype.
DescribedByType(column) == AdoType(column.type)

\* get_table_description: the markers and nvarchar(max), which is text.
Described(column) ==
    CASE column.identity /\ column.type = "bigint" -> "bigauto"
      [] column.identity /\ column.type # "bigint" -> "auto"
      [] ~column.identity /\ column.type = "nvarchar" /\ column.size = "max" -> "text"
      [] OTHER -> AdoType(column.type)

\* data_types_reverse; a type it has no key for is inspectdb's guess.
data_types_reverse(adoType) ==
    CASE adoType = "auto" -> "AutoField"
      [] adoType = "bigauto" -> "BigAutoField"
      [] adoType \in {"money", "decimal"} -> "DecimalField"
      [] adoType = "bit" -> "BooleanField"
      [] adoType \in {"char", "nchar", "varchar", "nvarchar"} -> "CharField"
      [] adoType = "date" -> "DateField"
      [] adoType = "time" -> "TimeField"
      [] adoType = "timestamp" -> "DateTimeField"
      [] adoType = "float" -> "FloatField"
      [] adoType = "int" -> "IntegerField"
      [] adoType = "bigint" -> "BigIntegerField"
      [] adoType \in {"smallint", "tinyint"} -> "SmallIntegerField"
      [] adoType \in {"text", "unknown"} -> "TextField"
      [] adoType = "binary" -> "BinaryField"

\* get_field_type: the description of a long character column is a TextField.
FieldType(column) ==
    LET class == data_types_reverse(Described(column))
    IN  IF class = "CharField" /\ column.size # "sized" THEN "TextField" ELSE class

------------------------------------------------------------------------------

\* Created again from the field that inspectdb found for it, a column of one of
\* the backend's fields has the datatype and the length it had, but for the three
\* datatypes for which data_types_reverse knows no field of their own; and whatever
\* column is introspected, introspecting the column of the field found finds the
\* same field again.
InspectStable ==
    /\ \A class \in FieldClasses :
          LET column == Column(class)
          IN  column.type \notin {"datetime", "datetimeoffset", "uniqueidentifier"}
                => Column(FieldType(column)) = column
    /\ \A column \in [type : Datatypes, identity : BOOLEAN, size : {"sized", "long", "max"}] :
          (column.identity => column.type \in {"int", "bigint", "smallint", "tinyint"})
          => FieldType(Column(FieldType(column))) = FieldType(column)
===============================================================================
