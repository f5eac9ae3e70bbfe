----------------------------- MODULE MCAttendance -----------------------------
(* Constants for Attendance: entries of a worker by night over midnight,   *)
(* of a day off, and of a day whose break ends after it; a workbook with   *)
(* one row, one with two rows of a worker whose names differ in case, and  *)
(* one with two workers, or one who is renamed between her rows.           *)
EXTENDS Attendance, TLC

CONSTANTS t1, t2, request, north, south, sara, SARA, LEA, None

MCSlots == Permutations({t1, t2})

MCUpper == (sara :> SARA) @@ (SARA :> SARA) @@ (LEA :> LEA)
MCStartTimes == [morning |-> 4, afternoon |-> 7, evening |-> 9]

Night == [in |-> 10, pause |-> 11, resume |-> 1, out |-> 3, shift |-> "evening",
          status |-> "present"]
Rest == [in |-> None, pause |-> None, resume |-> None, out |-> None,
         shift |-> "morning", status |-> "off"]
Wrong == [in |-> 4, pause |-> 5, resume |-> 8, out |-> 6, shift |-> "morning",
          status |-> "present"]
MCEntries == {Night, Rest, Wrong}
MCFiles == {<<[name |-> sara, date |-> 1, entry |-> Night]>>,
            <<[name |-> sara, date |-> 1, entry |-> Rest],
              [name |-> SARA, date |-> 1, entry |-> Night]>>,
            <<[name |-> SARA, date |-> 1, entry |-> Rest],
              [name |-> LEA, date |-> 1, entry |-> Night]>>}

MCOpening == {[store |-> north, name |-> SARA]}
=============================================================================
