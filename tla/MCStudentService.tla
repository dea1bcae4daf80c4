-------------------------- MODULE MCStudentService --------------------------
(* The instance of StudentService: the values of MCStudentDatabase.        *)
EXTENDS MCStudentDatabase, StudentService
=============================================================================
