------------------------------ MODULE Iso8601 ------------------------------
(***************************************************************************)
(* Times as users and nodes write them (parse_iso8601_string() and         *)
(* format_iso8601_string() of multy_core/src/utility.cpp).  A time string  *)
(* is the second its fields denote in UTC, and whether it ends in Z.       *)
(***************************************************************************)
EXTENDS Integers

(* get_timezone_offset() is Offset, the seconds that local time is ahead.  *)
(* mktime() takes the fields to be local time.                             *)
Mktime(fields, Offset) == fields - Offset

(* Nothing before the epoch in local time is accepted. *)
IsTime(t, Offset) == Mktime(t.fields, Offset) >= 0
ParseTime(t, Offset) == Mktime(t.fields, Offset) + (IF t.zulu THEN Offset ELSE 0)

(* The fields in UTC, without a Z. *)
FormatTime(time) == [fields |-> time, zulu |-> FALSE]
=============================================================================
