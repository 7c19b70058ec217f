------------------------------- MODULE Mirror -------------------------------
(***************************************************************************)
(* put.cpp, get.cpp, hpput.cpp and hpget.cpp: every process exchanges      *)
(* values with its mirror image, the process nprocs - 1 - pid.  All four   *)
(* register three variables, communicate, and show what they have.  None   *)
(* changes a value before the sync, so hpput and hpget do as put and get.  *)
(* simplebspcomputation.cpp has the exchange in a global array of as many  *)
(* integers as there are processes: element i is in the slice of process i.*)
(***************************************************************************)
EXTENDS Segments

Image(job, s) == job.p - 1 - s
Values(job, s) == [v1 |-> s + 1, v2 |-> job.p - s, v3 |-> s + 1]

(* put.cpp: the values of a process go to the variables of its image.      *)
PutVariables == [var1 |-> vecalloc(1), var2 |-> Array(5, LAMBDA i : 0), var3 |-> vecalloc(1)]
PutMirror(job, s, m) ==
  [Segment(m) EXCEPT !.put =
     {Puts(Image(job, s), "var1", 0, <<Values(job, s).v1>>),
      Puts(Image(job, s), "var2", 2, <<Values(job, s).v2>>),
      Puts(Image(job, s), "var3", 0, <<Values(job, s).v3>>)}]
HpPutMirror(job, s, m) == PutMirror(job, s, m)

(* get.cpp: the variables hold the values, and are read by the image.      *)
GetVariables(job, s) ==
  [var1 |-> Scalar(Values(job, s).v1), var3 |-> Scalar(Values(job, s).v3),
   var2 |-> Array(5, LAMBDA i : IF i = 2 THEN Values(job, s).v2 ELSE -1),
   myval1 |-> Scalar(-1), myval2 |-> Scalar(-1), myval3 |-> Scalar(-1)]
GetMirror(job, s, m) ==
  [Segment(m) EXCEPT !.get =
     {Gets(Image(job, s), "var1", 0, "myval1", 0),
      Gets(Image(job, s), "var2", 2, "myval2", 0),
      Gets(Image(job, s), "var3", 0, "myval3", 0)}]
HpGetMirror(job, s, m) == GetMirror(job, s, m)

PutGlobal(job, s, m) ==
  [Segment([m EXCEPT !.counter = Scalar(s)]) EXCEPT !.put = {Puts(Image(job, s), "h", 0, <<s>>)}]
GetGlobal(s, m) == [Segment(m) EXCEPT !.get = {Gets(s, "h", 0, "counter", 0)}]
SimpleSegment(job, k, s, m) ==
  CASE k = 0 -> Segment([h |-> vecalloc(1), counter |-> Scalar(0)])
    [] k = 1 -> PutGlobal(job, s, m)
    [] k = 2 -> GetGlobal(s, m)
    [] k = 3 -> Ends(m)

Mirrors == {"put", "get", "hpput", "hpget", "simple"}
MirrorSegment(job, k, s, m) ==
  CASE job.name = "simple" -> SimpleSegment(job, k, s, m)
    [] job.name # "simple" /\ k = 0 -> Segment(IF job.name \in {"put", "hpput"} THEN PutVariables ELSE GetVariables(job, s))
    [] k = 1 /\ job.name = "put" -> PutMirror(job, s, m)
    [] k = 1 /\ job.name = "hpput" -> HpPutMirror(job, s, m)
    [] k = 1 /\ job.name = "get" -> GetMirror(job, s, m)
    [] k = 1 /\ job.name = "hpget" -> HpGetMirror(job, s, m)
    [] job.name # "simple" /\ k = 2 -> Ends(m)

(* Every process shows the values of its image. *)
MirrorMeant(job, mem) ==
  \A s \in 0 .. job.p - 1 :
    LET v == Values(job, Image(job, s))
        m == mem[s]
    IN  IF job.name = "simple" THEN m.counter[0] = Image(job, s)
        ELSE IF job.name \in {"put", "hpput"} THEN m.var1[0] = v.v1 /\ m.var2[2] = v.v2 /\ m.var3[0] = v.v3
        ELSE m.myval1[0] = v.v1 /\ m.myval2[0] = v.v2 /\ m.myval3[0] = v.v3

=============================================================================
