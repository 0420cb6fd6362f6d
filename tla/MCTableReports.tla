---------------------------- MODULE MCTableReports ----------------------------
(***************************************************************************)
(* The functions that report on tables, each on its own: a behaviour is a  *)
(* migration and a diff, or the calls and commits around a profile, or a   *)
(* run of a check suite.                                                   *)
(***************************************************************************)
EXTENDS MCDiff, MCProfile, MCCheckSuite

VARIABLE component

ProfileOff ==
  /\ committed = Null /\ snapshot = Null /\ dirty = FALSE /\ commits = 0 /\ stage = "off"
  /\ request = Null /\ view = Null /\ seen = {} /\ announced = Null /\ report = Null

DiffOff == tables = Null /\ edits = 0 /\ call = 0 /\ outcome = Absent

SuiteOff ==
  /\ target = <<>> /\ committedDefs = <<>> /\ visibleDefs = <<>> /\ uncommitted = FALSE
  /\ source = "off" /\ pc = "off" /\ specs = <<>> /\ branches = <<>> /\ results = <<>>

ReportsInit ==
  \/ component = "diff" /\ Init /\ ProfileOff /\ SuiteOff
  \/ component = "profile" /\ ProfileInit /\ DiffOff /\ SuiteOff
  \/ component = "suite" /\ SuiteInit /\ DiffOff /\ ProfileOff

ReportsNext ==
  \/ component = "diff" /\ Next /\ UNCHANGED <<component, profileVars, suiteVars>>
  \/ component = "profile" /\ ProfileNext /\ UNCHANGED <<component, vars, suiteVars>>
  \/ component = "suite" /\ SuiteNext /\ UNCHANGED <<component, vars, profileVars>>
===============================================================================
