--------------------------- MODULE FieldTypesProofs ---------------------------
(***************************************************************************)
(* A theorem about FieldTypes.                                             *)
(***************************************************************************)
EXTENDS FieldTypes, TLAPS

\* The fields that introspection finds.
Found == {"AutoField", "BigAutoField", "BigIntegerField", "BinaryField", "BooleanField",
          "CharField", "DateField", "DateTimeField", "DecimalField", "FloatField",
          "IntegerField", "SmallIntegerField", "TextField", "TimeField"}

(* The tables, read off.                                                       *)

LEMMA DatatypeOf ==
  /\ Datatype("AutoField") = "int"
  /\ Datatype("BigAutoField") = "bigint"
  /\ Datatype("BigIntegerField") = "bigint"
  /\ Datatype("BinaryField") = "varbinary"
  /\ Datatype("BooleanField") = "bit"
  /\ Datatype("CharField") = "nvarchar"
  /\ Datatype("DateField") = "date"
  /\ Datatype("DateTimeField") = "datetime2"
  /\ Datatype("DecimalField") = "decimal"
  /\ Datatype("FloatField") = "float"
  /\ Datatype("IntegerField") = "int"
  /\ Datatype("SmallIntegerField") = "smallint"
  /\ Datatype("TextField") = "nvarchar"
  /\ Datatype("TimeField") = "time"
<1>1. Datatype("AutoField") = "int"
  BY Zenon DEF Datatype, Sized, Addresses
<1>2. Datatype("BigAutoField") = "bigint"
  BY Zenon DEF Datatype, Sized, Addresses
<1>3. Datatype("BigIntegerField") = "bigint"
  BY Zenon DEF Datatype, Sized, Addresses
<1>4. Datatype("BinaryField") = "varbinary"
  BY Zenon DEF Datatype, Sized, Addresses
<1>5. Datatype("BooleanField") = "bit"
  BY Zenon DEF Datatype, Sized, Addresses
<1>6. Datatype("CharField") = "nvarchar"
  BY Zenon DEF Datatype, Sized, Addresses
<1>7. Datatype("DateField") = "date"
  BY Zenon DEF Datatype, Sized, Addresses
<1>8. Datatype("DateTimeField") = "datetime2"
  BY Zenon DEF Datatype, Sized, Addresses
<1>9. Datatype("DecimalField") = "decimal"
  BY Zenon DEF Datatype, Sized, Addresses
<1>10. Datatype("FloatField") = "float"
  BY Zenon DEF Datatype, Sized, Addresses
<1>11. Datatype("IntegerField") = "int"
  BY Zenon DEF Datatype, Sized, Addresses
<1>12. Datatype("SmallIntegerField") = "smallint"
  BY Zenon DEF Datatype, Sized, Addresses
<1>13. Datatype("TextField") = "nvarchar"
  BY Zenon DEF Datatype, Sized, Addresses
<1>14. Datatype("TimeField") = "time"
  BY Zenon DEF Datatype, Sized, Addresses
<1> QED BY <1>1, <1>2, <1>3, <1>4, <1>5, <1>6, <1>7, <1>8, <1>9, <1>10, <1>11, <1>12, <1>13, <1>14, Zenon

LEMMA ReverseOf ==
  /\ data_types_reverse("auto") = "AutoField"
  /\ data_types_reverse("bigauto") = "BigAutoField"
  /\ data_types_reverse("money") = "DecimalField"
  /\ data_types_reverse("decimal") = "DecimalField"
  /\ data_types_reverse("bit") = "BooleanField"
  /\ data_types_reverse("char") = "CharField"
  /\ data_types_reverse("nchar") = "CharField"
  /\ data_types_reverse("varchar") = "CharField"
  /\ data_types_reverse("nvarchar") = "CharField"
  /\ data_types_reverse("date") = "DateField"
  /\ data_types_reverse("time") = "TimeField"
  /\ data_types_reverse("timestamp") = "DateTimeField"
  /\ data_types_reverse("float") = "FloatField"
  /\ data_types_reverse("int") = "IntegerField"
  /\ data_types_reverse("bigint") = "BigIntegerField"
  /\ data_types_reverse("smallint") = "SmallIntegerField"
  /\ data_types_reverse("tinyint") = "SmallIntegerField"
  /\ data_types_reverse("text") = "TextField"
  /\ data_types_reverse("unknown") = "TextField"
  /\ data_types_reverse("binary") = "BinaryField"
<1>1. data_types_reverse("auto") = "AutoField"
  BY Zenon DEF data_types_reverse
<1>2. data_types_reverse("bigauto") = "BigAutoField"
  BY Zenon DEF data_types_reverse
<1>3. data_types_reverse("money") = "DecimalField"
  BY Zenon DEF data_types_reverse
<1>4. data_types_reverse("decimal") = "DecimalField"
  BY Zenon DEF data_types_reverse
<1>5. data_types_reverse("bit") = "BooleanField"
  BY Zenon DEF data_types_reverse
<1>6. data_types_reverse("char") = "CharField"
  BY Zenon DEF data_types_reverse
<1>7. data_types_reverse("nchar") = "CharField"
  BY Zenon DEF data_types_reverse
<1>8. data_types_reverse("varchar") = "CharField"
  BY Zenon DEF data_types_reverse
<1>9. data_types_reverse("nvarchar") = "CharField"
  BY Zenon DEF data_types_reverse
<1>10. data_types_reverse("date") = "DateField"
  BY Zenon DEF data_types_reverse
<1>11. data_types_reverse("time") = "TimeField"
  BY Zenon DEF data_types_reverse
<1>12. data_types_reverse("timestamp") = "DateTimeField"
  BY Zenon DEF data_types_reverse
<1>13. data_types_reverse("float") = "FloatField"
  BY Zenon DEF data_types_reverse
<1>14. data_types_reverse("int") = "IntegerField"
  BY Zenon DEF data_types_reverse
<1>15. data_types_reverse("bigint") = "BigIntegerField"
  BY Zenon DEF data_types_reverse
<1>16. data_types_reverse("smallint") = "SmallIntegerField"
  BY Zenon DEF data_types_reverse
<1>17. data_types_reverse("tinyint") = "SmallIntegerField"
  BY Zenon DEF data_types_reverse
<1>18. data_types_reverse("text") = "TextField"
  BY Zenon DEF data_types_reverse
<1>19. data_types_reverse("unknown") = "TextField"
  BY Zenon DEF data_types_reverse
<1>20. data_types_reverse("binary") = "BinaryField"
  BY Zenon DEF data_types_reverse
<1> QED BY <1>1, <1>2, <1>3, <1>4, <1>5, <1>6, <1>7, <1>8, <1>9, <1>10, <1>11, <1>12, <1>13, <1>14, <1>15, <1>16, <1>17, <1>18, <1>19, <1>20, Zenon

LEMMA AdoTypeOf ==
  /\ \A type \in {"datetime", "datetime2", "datetimeoffset", "smalldatetime"} : AdoType(type) = "timestamp"
  /\ \A type \in {"money", "smallmoney"} : AdoType(type) = "money"
  /\ \A type \in {"image", "binary", "varbinary"} : AdoType(type) = "binary"
  /\ \A type \in {"text", "ntext"} : AdoType(type) = "text"
  /\ \A type \in {"decimal", "numeric"} : AdoType(type) = "decimal"
  /\ \A type \in {"uniqueidentifier"} : AdoType(type) = "unknown"
  /\ \A type \in {"bigint", "bit", "char", "date", "float", "int", "nchar", "nvarchar",
                  "smallint", "time", "tinyint", "varchar"} : AdoType(type) = type
<1>1. \A type \in {"datetime", "datetime2", "datetimeoffset", "smalldatetime"} : AdoType(type) = "timestamp"
  BY Zenon DEF AdoType
<1>2. \A type \in {"money", "smallmoney"} : AdoType(type) = "money"
  BY Zenon DEF AdoType
<1>3. \A type \in {"image", "binary", "varbinary"} : AdoType(type) = "binary"
  BY Zenon DEF AdoType
<1>4. \A type \in {"text", "ntext"} : AdoType(type) = "text"
  BY Zenon DEF AdoType
<1>5. \A type \in {"decimal", "numeric"} : AdoType(type) = "decimal"
  BY Zenon DEF AdoType
<1>6. \A type \in {"uniqueidentifier"} : AdoType(type) = "unknown"
  BY Zenon DEF AdoType
<1>7. \A type \in {"bigint", "bit", "char", "date", "float", "int", "nchar", "nvarchar",
                  "smallint", "time", "tinyint", "varchar"} : AdoType(type) = type
  BY Zenon DEF AdoType
<1> QED BY <1>1, <1>2, <1>3, <1>4, <1>5, <1>6, <1>7, Zenon

\* The columns of the backend's fields.
LEMMA ColumnIs ==
  ASSUME NEW class
  PROVE  /\ Column(class).type = Datatype(class)
         /\ class \in {"AutoField", "BigAutoField"} => Column(class).identity
         /\ class \notin {"AutoField", "BigAutoField"} => ~Column(class).identity
         /\ class \in {"TextField", "BinaryField"} => Column(class).size = "max"
         /\ class \notin {"TextField", "BinaryField"} => Column(class).size = "sized"
  BY DEF Column

\* What the description of a column is.
LEMMA DescribedIs ==
  ASSUME NEW column
  PROVE  /\ column.identity /\ column.type = "bigint" => Described(column) = "bigauto"
         /\ column.identity /\ column.type # "bigint" => Described(column) = "auto"
         /\ ~column.identity /\ column.type = "nvarchar" /\ column.size = "max"
               => Described(column) = "text"
         /\ ~column.identity /\ ~(column.type = "nvarchar" /\ column.size = "max")
               => Described(column) = AdoType(column.type)
<1>1. column.identity /\ column.type = "bigint" => Described(column) = "bigauto"
  BY Zenon DEF Described
<1>2. column.identity /\ column.type # "bigint" => Described(column) = "auto"
  BY Zenon DEF Described
<1>3. ~column.identity /\ column.type = "nvarchar" /\ column.size = "max"
        => Described(column) = "text"
  BY Zenon DEF Described
<1>4. ~column.identity /\ ~(column.type = "nvarchar" /\ column.size = "max")
        => Described(column) = AdoType(column.type)
  BY Zenon DEF Described
<1> QED BY <1>1, <1>2, <1>3, <1>4, Zenon

\* Each of these fields is found for its own column.
LEMMA FoundAgain ==
  ASSUME NEW class \in Found
  PROVE  FieldType(Column(class)) = class
<1>1. CASE class = "AutoField"
  <2>1. /\ Column(class).type = "int" /\ Column(class).identity
        /\ Column(class).size = "sized"
    BY <1>1, ColumnIs, DatatypeOf
  <2>2. Described(Column(class)) = "auto"
    BY <2>1, DescribedIs
  <2> QED BY <1>1, <2>1, <2>2, ReverseOf DEF FieldType
<1>2. CASE class = "BigAutoField"
  <2>1. /\ Column(class).type = "bigint" /\ Column(class).identity
        /\ Column(class).size = "sized"
    BY <1>2, ColumnIs, DatatypeOf
  <2>2. Described(Column(class)) = "bigauto"
    BY <2>1, DescribedIs
  <2> QED BY <1>2, <2>1, <2>2, ReverseOf DEF FieldType
<1>3. CASE class = "BigIntegerField"
  <2>1. /\ Column(class).type = "bigint" /\ ~Column(class).identity
        /\ Column(class).size = "sized"
    BY <1>3, ColumnIs, DatatypeOf
  <2>2. Described(Column(class)) = "bigint"
    BY <2>1, DescribedIs, AdoTypeOf
  <2> QED BY <1>3, <2>1, <2>2, ReverseOf DEF FieldType
<1>4. CASE class = "BinaryField"
  <2>1. /\ Column(class).type = "varbinary" /\ ~Column(class).identity
        /\ Column(class).size = "max"
    BY <1>4, ColumnIs, DatatypeOf
  <2>2. Described(Column(class)) = "binary"
    BY <2>1, DescribedIs, AdoTypeOf
  <2> QED BY <1>4, <2>1, <2>2, ReverseOf DEF FieldType
<1>5. CASE class = "BooleanField"
  <2>1. /\ Column(class).type = "bit" /\ ~Column(class).identity
        /\ Column(class).size = "sized"
    BY <1>5, ColumnIs, DatatypeOf
  <2>2. Described(Column(class)) = "bit"
    BY <2>1, DescribedIs, AdoTypeOf
  <2> QED BY <1>5, <2>1, <2>2, ReverseOf DEF FieldType
<1>6. CASE class = "CharField"
  <2>1. /\ Column(class).type = "nvarchar" /\ ~Column(class).identity
        /\ Column(class).size = "sized"
    BY <1>6, ColumnIs, DatatypeOf
  <2>2. Described(Column(class)) = "nvarchar"
    BY <2>1, DescribedIs, AdoTypeOf
  <2> QED BY <1>6, <2>1, <2>2, ReverseOf DEF FieldType
<1>7. CASE class = "DateField"
  <2>1. /\ Column(class).type = "date" /\ ~Column(class).identity
        /\ Column(class).size = "sized"
    BY <1>7, ColumnIs, DatatypeOf
  <2>2. Described(Column(class)) = "date"
    BY <2>1, DescribedIs, AdoTypeOf
  <2> QED BY <1>7, <2>1, <2>2, ReverseOf DEF FieldType
<1>8. CASE class = "DateTimeField"
  <2>1. /\ Column(class).type = "datetime2" /\ ~Column(class).identity
        /\ Column(class).size = "sized"
    BY <1>8, ColumnIs, DatatypeOf
  <2>2. Described(Column(class)) = "timestamp"
    BY <2>1, DescribedIs, AdoTypeOf
  <2> QED BY <1>8, <2>1, <2>2, ReverseOf DEF FieldType
<1>9. CASE class = "DecimalField"
  <2>1. /\ Column(class).type = "decimal" /\ ~Column(class).identity
        /\ Column(class).size = "sized"
    BY <1>9, ColumnIs, DatatypeOf
  <2>2. Described(Column(class)) = "decimal"
    BY <2>1, DescribedIs, AdoTypeOf
  <2> QED BY <1>9, <2>1, <2>2, ReverseOf DEF FieldType
<1>10. CASE class = "FloatField"
  <2>1. /\ Column(class).type = "float" /\ ~Column(class).identity
        /\ Column(class).size = "sized"
    BY <1>10, ColumnIs, DatatypeOf
  <2>2. Described(Column(class)) = "float"
    BY <2>1, DescribedIs, AdoTypeOf
  <2> QED BY <1>10, <2>1, <2>2, ReverseOf DEF FieldType
<1>11. CASE class = "IntegerField"
  <2>1. /\ Column(class).type = "int" /\ ~Column(class).identity
        /\ Column(class).size = "sized"
    BY <1>11, ColumnIs, DatatypeOf
  <2>2. Described(Column(class)) = "int"
    BY <2>1, DescribedIs, AdoTypeOf
  <2> QED BY <1>11, <2>1, <2>2, ReverseOf DEF FieldType
<1>12. CASE class = "SmallIntegerField"
  <2>1. /\ Column(class).type = "smallint" /\ ~Column(class).identity
        /\ Column(class).size = "sized"
    BY <1>12, ColumnIs, DatatypeOf
  <2>2. Described(Column(class)) = "smallint"
    BY <2>1, DescribedIs, AdoTypeOf
  <2> QED BY <1>12, <2>1, <2>2, ReverseOf DEF FieldType
<1>13. CASE class = "TextField"
  <2>1. /\ Column(class).type = "nvarchar" /\ ~Column(class).identity
        /\ Column(class).size = "max"
    BY <1>13, ColumnIs, DatatypeOf
  <2>2. Described(Column(class)) = "text"
    BY <2>1, DescribedIs
  <2> QED BY <1>13, <2>1, <2>2, ReverseOf DEF FieldType
<1>14. CASE class = "TimeField"
  <2>1. /\ Column(class).type = "time" /\ ~Column(class).identity
        /\ Column(class).size = "sized"
    BY <1>14, ColumnIs, DatatypeOf
  <2>2. Described(Column(class)) = "time"
    BY <2>1, DescribedIs, AdoTypeOf
  <2> QED BY <1>14, <2>1, <2>2, ReverseOf DEF FieldType
<1> QED BY <1>1, <1>2, <1>3, <1>4, <1>5, <1>6, <1>7, <1>8, <1>9, <1>10, <1>11, <1>12, <1>13, <1>14 DEF Found

\* Whatever the column is, introspection finds one of them.
LEMMA Finds ==
  ASSUME NEW column, column.type \in Datatypes
  PROVE  FieldType(column) \in Found
<1>1. /\ column.type \in {"datetime", "datetime2", "datetimeoffset", "smalldatetime", "money",
                          "smallmoney", "image", "binary", "varbinary", "text", "ntext",
                          "decimal", "numeric", "uniqueidentifier"}
           => AdoType(column.type) \in {"timestamp", "money", "binary", "text", "decimal",
                                       "unknown"}
      /\ column.type \in {"bigint", "bit", "char", "date", "float", "int", "nchar", "nvarchar",
                          "smallint", "time", "tinyint", "varchar"}
           => AdoType(column.type) = column.type
  BY AdoTypeOf
<1>2. PICK d : d = Described(column)
  OBVIOUS
<1>3. d \in {"auto", "bigauto", "text"} \/ d = AdoType(column.type)
  BY <1>2, DescribedIs
<1>4. d \in {"auto", "bigauto", "money", "decimal", "bit", "char", "nchar", "varchar", "nvarchar",
            "date", "time", "timestamp", "float", "int", "bigint", "smallint", "tinyint", "text",
            "unknown", "binary"}
  BY <1>1, <1>3 DEF Datatypes
<1>5. data_types_reverse(d) \in Found
  BY <1>4, ReverseOf DEF Found
<1> QED BY <1>2, <1>5 DEF FieldType, Found

\* The column of a field is that of the one found for it, but for those left out.
LEMMA LikeFound ==
  ASSUME NEW class \in FieldClasses,
         Datatype(class) \notin {"datetime", "datetimeoffset", "uniqueidentifier"}
  PROVE  \E found \in Found : Column(class) = Column(found)
<1>1. CASE class \in {"AutoField"}
  <2>1. Datatype(class) = Datatype("AutoField")
    BY <1>1, Zenon DEF Datatype, Sized, Addresses
  <2> QED BY <1>1, <2>1 DEF Column, Found, Sized, Addresses
<1>2. CASE class \in {"BigAutoField"}
  <2>1. Datatype(class) = Datatype("BigAutoField")
    BY <1>2, Zenon DEF Datatype, Sized, Addresses
  <2> QED BY <1>2, <2>1 DEF Column, Found, Sized, Addresses
<1>3. CASE class \in {"BigIntegerField", "DurationField"}
  <2>1. Datatype(class) = Datatype("BigIntegerField")
    BY <1>3, Zenon DEF Datatype, Sized, Addresses
  <2> QED BY <1>3, <2>1 DEF Column, Found, Sized, Addresses
<1>4. CASE class \in {"BinaryField"}
  <2>1. Datatype(class) = Datatype("BinaryField")
    BY <1>4, Zenon DEF Datatype, Sized, Addresses
  <2> QED BY <1>4, <2>1 DEF Column, Found, Sized, Addresses
<1>5. CASE class \in {"BooleanField", "NullBooleanField"}
  <2>1. Datatype(class) = Datatype("BooleanField")
    BY <1>5, Zenon DEF Datatype, Sized, Addresses
  <2> QED BY <1>5, <2>1 DEF Column, Found, Sized, Addresses
<1>6. CASE class \in Sized \cup Addresses
  <2>1. Datatype(class) = Datatype("CharField")
    BY <1>6, Zenon DEF Datatype, Sized, Addresses
  <2> QED BY <1>6, <2>1 DEF Column, Found, Sized, Addresses
<1>7. CASE class \in {"DateField", "NewDateField"}
  <2>1. Datatype(class) = Datatype("DateField")
    BY <1>7, Zenon DEF Datatype, Sized, Addresses
  <2> QED BY <1>7, <2>1 DEF Column, Found, Sized, Addresses
<1>8. CASE class \in {"DateTimeField", "NewDateTimeField"}
  <2>1. Datatype(class) = Datatype("DateTimeField")
    BY <1>8, Zenon DEF Datatype, Sized, Addresses
  <2> QED BY <1>8, <2>1 DEF Column, Found, Sized, Addresses
<1>9. CASE class \in {"DecimalField"}
  <2>1. Datatype(class) = Datatype("DecimalField")
    BY <1>9, Zenon DEF Datatype, Sized, Addresses
  <2> QED BY <1>9, <2>1 DEF Column, Found, Sized, Addresses
<1>10. CASE class \in {"FloatField"}
  <2>1. Datatype(class) = Datatype("FloatField")
    BY <1>10, Zenon DEF Datatype, Sized, Addresses
  <2> QED BY <1>10, <2>1 DEF Column, Found, Sized, Addresses
<1>11. CASE class \in {"IntegerField", "OneToOneField", "PositiveIntegerField"}
  <2>1. Datatype(class) = Datatype("IntegerField")
    BY <1>11, Zenon DEF Datatype, Sized, Addresses
  <2> QED BY <1>11, <2>1 DEF Column, Found, Sized, Addresses
<1>12. CASE class \in {"SmallIntegerField", "PositiveSmallIntegerField"}
  <2>1. Datatype(class) = Datatype("SmallIntegerField")
    BY <1>12, Zenon DEF Datatype, Sized, Addresses
  <2> QED BY <1>12, <2>1 DEF Column, Found, Sized, Addresses
<1>13. CASE class \in {"TextField"}
  <2>1. Datatype(class) = Datatype("TextField")
    BY <1>13, Zenon DEF Datatype, Sized, Addresses
  <2> QED BY <1>13, <2>1 DEF Column, Found, Sized, Addresses
<1>14. CASE class \in {"TimeField", "NewTimeField", "LegacyTimeField"}
  <2>1. Datatype(class) = Datatype("TimeField")
    BY <1>14, Zenon DEF Datatype, Sized, Addresses
  <2> QED BY <1>14, <2>1 DEF Column, Found, Sized, Addresses
<1>15. CASE class \in {"LegacyDateField", "LegacyDateTimeField", "DateTimeOffsetField",
                       "UUIDField"}
  BY <1>15, Zenon DEF Datatype, Sized, Addresses
<1> QED BY <1>1, <1>2, <1>3, <1>4, <1>5, <1>6, <1>7, <1>8, <1>9, <1>10, <1>11, <1>12, <1>13, <1>14, <1>15 DEF FieldClasses

\* Columns and the fields introspection finds for them, the tables of base.py and
\* introspection.py against each other.
THEOREM InspectedIsStable == InspectStable
<1>1. ASSUME NEW class \in FieldClasses,
             Datatype(class) \notin {"datetime", "datetimeoffset", "uniqueidentifier"}
      PROVE  Column(FieldType(Column(class))) = Column(class)
  BY <1>1, LikeFound, FoundAgain
<1>2. ASSUME NEW column, column.type \in Datatypes
      PROVE  FieldType(Column(FieldType(column))) = FieldType(column)
  BY <1>2, Finds, FoundAgain
<1> QED BY <1>1, <1>2, ColumnIs DEF InspectStable
==============================================================================
