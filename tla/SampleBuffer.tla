---------------------------- MODULE SampleBuffer ----------------------------
(***************************************************************************)
(* smpl_buf: a ring of samples that are written and read by their           *)
(* timestamps.  A sample is named by the timestamp it was written with;      *)
(* Unset is what new leaves in the memory.                                  *)
(* BufLen divides 2^64 in the program (SAMPLE_BUF_SZ), so the unsigned       *)
(* difference of two timestamps and the integer one have the same index.     *)
(***************************************************************************)
EXTENDS Integers

CONSTANT BufLen     \* m_buf_len

ASSUME BufferAssumption == BufLen \in Nat \ {0}

VARIABLES
  data,                 \* m_data
  timeStart, timeEnd,   \* m_time_start, m_time_end
  dataStart, dataEnd    \* m_data_start, m_data_end

bufferVars == <<data, timeStart, timeEnd, dataStart, dataEnd>>

Cells == 0 .. BufLen - 1
Unset == -1

ErrorTimestamp == -1
ErrorWrite == -3
ErrorOverflow == -4

BufferInit ==
  /\ data = [i \in Cells |-> Unset]
  /\ timeStart = 0 /\ timeEnd = 0 /\ dataStart = 0 /\ dataEnd = 0

\* avail_smpls
Avail(ts) ==
  IF ts < timeStart THEN ErrorTimestamp
  ELSE IF ts >= timeEnd THEN 0
  ELSE timeEnd - ts

-----------------------------------------------------------------------------
\* Fault: samples are appended, whatever their timestamp.
WriteStartAppends(ts) == dataEnd

WriteStart(ts) == (dataStart + (ts - timeStart)) % BufLen

WriteRefused(len, ts) == len = 0 \/ len >= BufLen \/ ts + len <= timeEnd

\* One copy, or two if the samples run past the end of the ring.
Written(len, ts) ==
  [i \in Cells |->
     LET k == (i - WriteStart(ts)) % BufLen
     IN  IF k < len THEN ts + k ELSE data[i]]

EndOfWrite(len, ts) == (WriteStart(ts) + len) % BufLen

WriteResult(len, ts) ==
  IF len = 0 \/ len >= BufLen THEN ErrorWrite
  ELSE IF ts + len <= timeEnd THEN ErrorTimestamp
  ELSE IF WriteStart(ts) + len > BufLen /\ EndOfWrite(len, ts) > dataStart
       THEN ErrorOverflow
  ELSE IF ts + len <= timeStart THEN ErrorWrite
  ELSE len

\* The state after a write, whatever it returns.
Write(len, ts) ==
  IF WriteRefused(len, ts)
  THEN UNCHANGED bufferVars
  ELSE /\ data' = Written(len, ts)
       /\ dataEnd' = EndOfWrite(len, ts)
       /\ timeEnd' = ts + len
       /\ UNCHANGED <<timeStart, dataStart>>

-----------------------------------------------------------------------------
\* The index is not reduced: the caller must read near timeStart.
ReadStart(ts) == dataStart + (ts - timeStart)

\* What a read of len available samples copies out.
ReadOut(len, ts) == [k \in 0 .. len - 1 |-> data[(ReadStart(ts) + k) % BufLen]]

AfterRead(len, ts) == (ReadStart(ts) + len) % BufLen

\* Fault: what is not read is dropped.
TimeAfterReadAll(len, ts) == timeEnd

TimeAfterRead(len, ts) == ts + len

Read(len, ts) ==
  /\ dataStart' = AfterRead(len, ts)
  /\ timeStart' = TimeAfterRead(len, ts)
  /\ UNCHANGED <<data, timeEnd, dataEnd>>
=============================================================================
