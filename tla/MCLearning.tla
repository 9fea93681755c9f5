------------------------------ MODULE MCLearning ------------------------------
(* Instances of Learning for TLC. *)
EXTENDS Learning, TLC

Session(s, mastery, xp, outcome, ref, at) ==
  [kid |-> "k1", subject |-> s, topics |-> {"t1", "t2"}, mastery |-> mastery, xp |-> xp,
   minutes |-> 1, outcome |-> outcome, ref |-> ref, at |-> at]

\* A session that finishes the homework, one that starts it, and a late one in another
\* subject with a topic of the same name.
MCEvent ==
  [e \in EventId |->
     CASE e = "e1" -> Session("math", "t1" :> 20, 5, "completed", "h1", 0)
       [] e = "e2" -> Session("math", "t1" :> 30, 1, "started", NoHw, 0)
       [] OTHER -> Session("art", "t1" :> 20 @@ "t2" :> 90, 2, "completed", "h1", 2)]

\* One item is assigned.
MCGiven ==
  [h \in HwId |-> [status |-> IF h = "h1" THEN "PENDING" ELSE "none", kid |-> "k1",
                   subject |-> "math", topic |-> "t1", deadline |-> 1]]

MCAssignable == {<<"math", "t1", 1>>}
===============================================================================
