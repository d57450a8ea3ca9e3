SPECIFICATION AccountsSpec
CONSTANTS
  student = student
  teacher = teacher
  newcomer = newcomer
  aStudent = aStudent
  aTeacher = aTeacher
  aNewcomer = aNewcomer
  aOther = aOther
  aStranger = aStranger
  Users = {student, teacher, newcomer, new1, new2}
  Students = {student}
  Teachers = {teacher, newcomer}
  Officers = {student, teacher}
  Accounts = {aStudent, aTeacher, aNewcomer, aOther, aStranger}
  Owner <- OwnerDef
  FirstLink <- LinkDef
  FirstKeys <- KeysDef
  Clients = {web, mobile}
  Web = web
  Sessions = {session1, session2}
  Devices = {device}
  Markers = {marker}
  Callers = {caller1, caller2}
  Nightly = cron
  Nobody = Nobody
  MaxCalls = 2
  MaxBreaks = 1
INVARIANTS AccountsTypeOK NoOrphanUser NotSplit NothingOldIsLeft
PROPERTIES OthersUntouched SomeStaffRemains EveryDeletionCompletes
CHECK_DEADLOCK FALSE
