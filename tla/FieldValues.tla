----------------------------- MODULE FieldValues -----------------------------
(***************************************************************************)
(* A date, time, datetime or decimal on its way from a model field to its  *)
(* column and back: fields.py and the value_to_db and convert functions of *)
(* operations.py, over the text a parameter is sent as and the text or COM *)
(* date a row comes back as.  An object is saved, loaded and saved again,  *)
(* or its column is moved by a duration.                                   *)
(*                                                                         *)
(* External: Django's own fields; the server's conversion of text, as the  *)
(* comments of the code rely on it (a datetime column takes no more than   *)
(* milliseconds, keeps 1/300 s, and reads YYYY-MM-DD as DATEFORMAT says,   *)
(* unlike YYYYMMDD and unlike the newer types).                            *)
(***************************************************************************)
EXTENDS DecimalText, FieldTypes

CONSTANTS
    Dates,              \* days given, as 100 * month + day, inside of a month
    Seconds,            \* times of day given
    Micros,             \* fractions of the second given
    Offsets,            \* offsets from UTC of aware datetimes given, in seconds
    Decimals,           \* decimals given
    Durations,          \* durations added and subtracted, in microseconds
    CurrentZone,        \* the offset of TIME_ZONE
    MaxSaves            \* bound: saves of the object

Day == 86400            \* in seconds
Second == 1000000       \* in microseconds

ASSUME DatesAssumption == Dates \subseteq Int
ASSUME TimesAssumption == Seconds \subseteq 0..(Day - 1) /\ Micros \subseteq 0..(Second - 1)
ASSUME ZonesAssumption == Offsets \subseteq Int /\ CurrentZone \in Int
ASSUME DecimalsAssumption ==
    \A d \in Decimals :
        d \in [kind : {"decimal"}, sign : {0, 1}, digits : Seq(0..9), exp : Int]
ASSUME DurationsAssumption == Durations \subseteq Int
ASSUME MaxSavesAssumption == MaxSaves \in Nat

VARIABLES
    useTz,              \* settings.USE_TZ
    dateformat,         \* DATEFORMAT of the login: "mdy" or "dmy"
    field,              \* the field: its class ("raw" is a parameter) and datatype
    given,              \* the value the application gave
    value,              \* the attribute of the object
    column,             \* what the column holds
    status,             \* "new", "stored", "loaded", "raised" or "shifted"
    saves

config == <<useTz, dateformat, field, given>>
vars == <<config, value, column, status, saves>>

\* A value; a date has no time, a time has no date.
At(kind, date, sec, us) ==
    [kind |-> kind, date |-> date, sec |-> sec, us |-> us, aware |-> FALSE, offset |-> 0]
Aware(v, offset) == [v EXCEPT !.aware = TRUE, !.offset = offset]
Naive(v) == [v EXCEPT !.aware = FALSE, !.offset = 0]
Plus(v, seconds) ==
    [v EXCEPT !.date = @ + (v.sec + seconds) \div Day, !.sec = (v.sec + seconds) % Day]
NaiveUtc(v) == Naive(Plus(v, -v.offset))

DateClasses == {"DateField", "NewDateField", "LegacyDateField"}
TimeClasses == {"TimeField", "NewTimeField", "LegacyTimeField"}
DateTimeClasses == {"DateTimeField", "NewDateTimeField", "LegacyDateTimeField",
                    "DateTimeOffsetField"}
Fields ==
    {[class |-> class, type |-> Datatype(class)] :
        class \in DateClasses \cup TimeClasses \cup DateTimeClasses \cup {"DecimalField"}}
    \cup [class : {"raw"}, type : {"date", "datetime", "datetime2", "datetimeoffset", "time"}]

GivenDates == {At("date", date, 0, 0) : date \in Dates}
GivenTimes == {At("time", 0, sec, us) : sec \in Seconds, us \in Micros}
AwareTimes == {Aware(v, offset) : v \in GivenTimes, offset \in Offsets}
GivenDateTimes ==
    LET naive == {At("datetime", date, sec, us) : date \in Dates, sec \in Seconds, us \in Micros}
    IN  naive \cup {Aware(v, offset) : v \in naive, offset \in Offsets}

\* What an application gives a field; a parameter for a datetime column is either.
GivenFor(f) ==
    CASE f.class \in DateClasses \/ f.type = "date" -> GivenDates
      [] f.class \in TimeClasses /\ f.type = "time" -> GivenTimes \cup AwareTimes
      [] f.class = "raw" /\ f.type = "time" -> GivenTimes
      [] f.type = "decimal" -> Decimals
      [] f.class = "raw" /\ f.type = "datetime" -> GivenDates \cup GivenDateTimes
      [] OTHER -> GivenDateTimes

Nothing == [kind |-> "nothing"]

Init ==
    /\ useTz \in BOOLEAN
    /\ dateformat \in {"mdy", "dmy"}
    /\ field \in Fields
    /\ given \in GivenFor(field)
    /\ value = given
    /\ column = Nothing
    /\ status = "new"
    /\ saves = 0

------------------------------------------------------------------------------
(* To the column. *)

\* Text as it is sent: the way its date is written, the digits of its fraction,
\* and the offset written after it, if any.
Iso(v) == [form |-> "dashes", digits |-> IF v.us = 0 THEN 0 ELSE 6, zoned |-> v.aware, at |-> v]
IsoT(v) == [Iso(v) EXCEPT !.form = "T"]
Compact(v) == [Iso(v) EXCEPT !.form = "compact"]
ToMillisecond(text) ==
    IF text.digits = 0 THEN text
    ELSE LET at == [text.at EXCEPT !.us = (@ \div 1000) * 1000]
         IN  [text EXCEPT !.digits = 3, !.at = at]

Raised == [form |-> "raised"]

\* Faults: the clock of an aware value is taken as it is; a naive datetime from
\* the database is taken to be in the current zone.
ClockAsItIs(v) == Naive(v)
AwareInCurrentZone(v) == Aware(v, CurrentZone)

\* The start of _new_value_to_db_datetime and of its legacy twin.
ToUtc(v) == NaiveUtc(v)
WithoutZone(v) == IF ~v.aware THEN v ELSE IF useTz THEN ToUtc(v) ELSE Raised

NewToDb(v) == IF WithoutZone(v) = Raised THEN Raised ELSE IsoT(WithoutZone(v))
LegacyToDb(v) ==
    IF WithoutZone(v) = Raised THEN Raised ELSE ToMillisecond(Compact(WithoutZone(v)))

\* A time column takes what a time has, a LegacyTimeField milliseconds.  An aware
\* time is refused under either setting: it has no astimezone.
NewTimeToDb(v) == IF v.aware THEN Raised ELSE Iso(v)
LegacyTimeToDb(v) == IF v.aware THEN Raised ELSE ToMillisecond(Iso(v))

MakeAwareUtc(v) == Aware(v, 0)

\* sqlserver_ado's DateTimeField.to_python: make_aware raises for an aware value.
NewDateTimeToPython(v) ==
    IF v.aware
    THEN IF useTz THEN Raised ELSE NaiveUtc(v)
    ELSE IF useTz THEN MakeAwareUtc(v) ELSE v

\* Django's DateTimeField.get_prep_value.
DjangoPrep(v) == IF useTz /\ v.kind = "datetime" /\ ~v.aware THEN Aware(v, CurrentZone) ELSE v

\* _configure_parameter.
Parameter(v) ==
    CASE v.kind = "datetime" -> Compact(NaiveUtc(v))
      [] v.kind = "decimal" -> [form |-> "fixed", at |-> FormatDecimal(v)]
      [] OTHER -> Iso(v)

\* get_db_prep_value of the field.
DbPrepValue(class, v) ==
    CASE class \in DateClasses -> Iso(v)
      [] class \in {"TimeField", "NewTimeField"} -> NewTimeToDb(v)
      [] class = "LegacyTimeField" -> LegacyTimeToDb(v)
      [] class = "DateTimeField" -> NewToDb(DjangoPrep(v))
      [] class = "NewDateTimeField" ->
            IF NewDateTimeToPython(v) = Raised THEN Raised
            ELSE NewToDb(NewDateTimeToPython(v))
      [] class = "LegacyDateTimeField" -> LegacyToDb(DjangoPrep(v))
      [] class = "DateTimeOffsetField" -> IsoT(DjangoPrep(v))
      [] class \in {"DecimalField", "raw"} -> Parameter(v)

\* The server reads text for a column of the newer types, or of datetime.
Swapped(date) == 100 * (date % 100) + date \div 100
Refused(type, text) ==
    \/ text = Raised
    \/ type = "datetime" /\ text.digits > 3
    \/ type = "datetime" /\ text.form = "dashes" /\ dateformat = "dmy" /\ text.at.date % 100 > 12

\* Rounded to 1/300 s, which is .000, .003 or .007.
Ticked(v) ==
    LET tick == (3 * (v.us \div 1000) + 5) \div 10
    IN  IF tick = 300 THEN [Plus(v, 1) EXCEPT !.us = 0]
        ELSE [v EXCEPT !.us = ((20 * tick + 3) \div 6) * 1000]

Converted(type, text) ==
    IF type = "decimal" THEN Denoted(text.at)
    ELSE IF type = "datetimeoffset" THEN Aware(text.at, text.at.offset)
    ELSE IF type # "datetime" THEN text.at
    ELSE IF text.form = "dashes" /\ dateformat = "dmy"
         THEN Ticked([text.at EXCEPT !.date = Swapped(@)])
         ELSE Ticked(text.at)

\* save(): also of an object that was loaded.
Save ==
    /\ status \in {"new", "loaded"}
    /\ saves < MaxSaves
    /\ saves' = saves + 1
    /\ LET text == DbPrepValue(field.class, value)
       IN  IF Refused(field.type, text)
           THEN status' = "raised" /\ UNCHANGED column
           ELSE status' = "stored" /\ column' = Converted(field.type, text)
    /\ UNCHANGED <<config, value>>

------------------------------------------------------------------------------
(* From the column. *)

\* Fault: the space before the offset stays.
AsMicrosoftWrites(text) == text

\* convert_microsoft_date_to_isoformat: no space before the offset.
IsoFormat(text) == [text EXCEPT !.spaced = FALSE]

\* Fault: the datetime of a COM date is naive.
NaiveComDate(v) == [v EXCEPT !.kind = "datetime"]

\* _cvtComDate.
ComDate(v) ==
    LET dt == [v EXCEPT !.kind = "datetime"]
    IN  IF useTz THEN Aware(dt, 0) ELSE dt

\* A datetime column arrives as a COM date, the newer types as text; a decimal
\* goes through _cvtDecimal.
Fetched(type, v) ==
    IF type = "datetime" THEN ComDate(v)
    ELSE IF type = "decimal" THEN Denoted(FormatDecimal(v)) ELSE [kind |-> "text", spaced |-> v.aware, at |-> v]

\* Django's parsers know no space before an offset.
Parsed(text) == IF text.spaced THEN Raised ELSE text.at

\* The converters of get_db_converters, by what arrives for which class.
Convert(class, got) ==
    IF got.kind = "text"
    THEN LET v == Parsed(IsoFormat(got))
         IN  IF v # Raised /\ class \in {"DateTimeField", "NewDateTimeField"}
             THEN NewDateTimeToPython(v) ELSE v
    ELSE IF class = "LegacyDateField" THEN At("date", got.date, 0, 0) ELSE got

\* Rows read with raw SQL go through no converter.
Load ==
    /\ status = "stored"
    /\ field.class # "raw"
    /\ LET v == Convert(field.class, Fetched(field.type, column))
       IN  IF v = Raised THEN status' = "raised" /\ UNCHANGED value
           ELSE status' = "loaded" /\ value' = v
    /\ UNCHANGED <<config, column, saves>>

------------------------------------------------------------------------------
(* Durations. *)

\* Division and remainder of the server, which round towards zero.
SqlQuotient(n, d) == IF n < 0 THEN -(-n \div d) ELSE n \div d
SqlRemainder(n, d) == n - d * SqlQuotient(n, d)

\* DATEADD of seconds, then of microseconds.
DateAdd(v, seconds, micros) ==
    [Plus(v, seconds + (v.us + micros) \div Second) EXCEPT !.us = (v.us + micros) % Second]

\* Fault: the microseconds of a duration are always added.
CombineUnsigned(v, sign, asSql, d) ==
    IF asSql THEN DateAdd(v, SqlQuotient(d, Second), SqlRemainder(d, Second))
    ELSE DateAdd(v, sign * (d \div Second), d % Second)

\* combine_duration_expression: a timedelta has days and seconds below zero and
\* microseconds above; of a duration in SQL, the sign goes with the microseconds
\* alone.
CombineDuration(v, sign, asSql, d) ==
    IF asSql THEN DateAdd(v, SqlQuotient(d, Second), sign * SqlRemainder(d, Second))
    ELSE DateAdd(v, sign * (d \div Second), sign * (d % Second))

\* DATEADD takes an int; out of it the UPDATE is refused and changes nothing.
MaxInt == 2147483647

\* UPDATE of a datetime2 column to itself plus or minus a duration.
Shift(sign, asSql, d) ==
    /\ status = "stored" /\ field.type = "datetime2"
    /\ (IF asSql THEN SqlQuotient(d, Second) ELSE sign * (d \div Second)) \in -MaxInt - 1..MaxInt
    /\ column' = CombineDuration(column, sign, asSql, d)
    /\ status' = "shifted"
    /\ UNCHANGED <<config, value, saves>>

Next ==
    \/ Save \/ Load
    \/ \E sign \in {1, -1}, asSql \in BOOLEAN, d \in Durations : Shift(sign, asSql, d)

Spec == Init /\ [][Next]_vars

------------------------------------------------------------------------------
(* Safety. *)

\* A datetime is given as Django asks for it: aware with USE_TZ, naive without,
\* and always aware to a DateTimeOffsetField.  A parameter is what it is.
Proper ==
    given.kind = "datetime" /\ field.class # "raw"
        => given.aware = (useTz \/ field.class = "DateTimeOffsetField")

\* A date as YYYY-MM-DD meets a datetime column of a login that reads it otherwise.
DateOrder == given.kind = "date" /\ field.type = "datetime" /\ dateformat = "dmy"

\* The other cases in which a proper value is refused: sqlserver_ado's
\* DateTimeField and an aware value, an aware time, a parameter too precise for
\* its column.
MayRefuse ==
    \/ DateOrder
    \/ field.class = "NewDateTimeField" /\ useTz
    \/ given.kind = "time" /\ given.aware
    \/ field.class = "raw" /\ field.type = "datetime"

\* Moments, in UTC, no further apart than the column is precise: equal, but for
\* the 1/300 s of datetime columns and the milliseconds of a LegacyTimeField.
Precision == IF field.type = "datetime" THEN Second \div 300
             ELSE IF field.class = "LegacyTimeField" THEN 999 ELSE 0
SecondsApart(a, b) == (a.date - b.date) * Day + a.sec - b.sec
Close(a, b) ==
    IF a.kind = "decimal" THEN SameNumber(a, b)
    ELSE LET u == NaiveUtc(a)
             w == NaiveUtc(b)
         IN  \E s \in {-1, 0, 1} :
                 /\ s = SecondsApart(u, w)
                 /\ s * Second + u.us - w.us \in -Precision..Precision

\* A value is stored as the moment it means, whatever its offset, its kind of
\* column and the login's DATEFORMAT, or it is refused, and it is refused only in
\* the cases named above.
StoredAsMeant ==
    Proper =>
        /\ status = "raised" => MayRefuse
        /\ status \in {"stored", "loaded"} /\ ~DateOrder => Close(column, given)

\* What is loaded is what was given, to the precision of the column: of the same
\* kind, aware as USE_TZ asks for, and with its own offset in a DateTimeOffsetField.
RoundTrip ==
    Proper /\ status = "loaded" /\ ~DateOrder =>
        /\ value.kind = given.kind
        /\ Close(value, given)
        /\ value.kind = "datetime" => value.aware = given.aware
        /\ field.class = "DateTimeOffsetField" => value.offset = given.offset

\* Adding a duration moves a datetime by it, and subtracting moves it back, through
\* carries of both signs; except for the subtraction of a second or more that is an
\* expression of SQL, which code of its own gets wrong.
ShiftsByDuration ==
    [][\A sign \in {1, -1}, asSql \in BOOLEAN, d \in Durations :
        Shift(sign, asSql, d) /\ ~(asSql /\ sign = -1 /\ SqlQuotient(d, Second) # 0)
            => LET seconds == sign * d + column.us - column'.us
               IN  /\ SecondsApart(column', column) = seconds \div Second
                   /\ seconds % Second = 0]_vars

\* Saving an object that was loaded changes nothing in its row: neither rounding
\* nor zones add up, however improper the value was that it was made with.
ResaveStable ==
    [][status = "loaded" /\ status' = "stored" /\ ~DateOrder => column' = column]_vars

------------------------------------------------------------------------------
(* The inductive invariant of FieldValuesProofs. *)

\* What a value is sent as, what is stored of it, and what is loaded of that.
Text(v) == DbPrepValue(field.class, v)
Taken(v) == ~Refused(field.type, Text(v))
Stored(v) == Converted(field.type, Text(v))
Loaded(v) == Convert(field.class, Fetched(field.type, v))

Moments == [kind : {"date", "time", "datetime"}, date : Int, sec : 0..(Day - 1),
            us : 0..(Second - 1), aware : BOOLEAN, offset : Int]

TypeOK ==
    /\ useTz \in BOOLEAN
    /\ dateformat \in {"mdy", "dmy"}
    /\ field \in Fields
    /\ given \in GivenFor(field)
    /\ status \in {"new", "stored", "loaded", "raised", "shifted"}
    /\ status = "stored" /\ field.type = "datetime2" => column \in Moments

\* The column holds what is stored of the value given, the object has that value
\* or what is loaded of it, and what was refused may be refused.
IInv ==
    /\ TypeOK
    /\ status = "new" => value = given
    /\ status = "raised" /\ Proper => MayRefuse
    /\ status \in {"stored", "loaded"} /\ ~DateOrder =>
          /\ Taken(given)
          /\ column = Stored(given)
          /\ status = "loaded" => field.class # "raw" /\ value = Loaded(column)

\* Why it is one: what is loaded of a value is stored as the value was.
Survives ==
    LET stored == Stored(given)
        loaded == Loaded(stored)
    IN  /\ Proper /\ ~Taken(given) => MayRefuse
        /\ Taken(given) =>
              /\ Proper => Close(stored, given)
              /\ field.type = "datetime2" => stored \in Moments
              /\ field.class # "raw" =>
                    /\ loaded # Raised
                    /\ Proper /\ ~Taken(loaded) => MayRefuse
                    /\ Taken(loaded) => Stored(loaded) = stored
                    /\ Proper => /\ loaded.kind = given.kind
                                 /\ Close(loaded, given)
                                 /\ loaded.kind = "datetime" => loaded.aware = given.aware
                                 /\ field.class = "DateTimeOffsetField"
                                      => loaded.offset = given.offset
==============================================================================
