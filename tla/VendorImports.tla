----------------------------- MODULE VendorImports -----------------------------
(***************************************************************************)
(* The jobs of WorkerJobs on the files of VendorTables: what a run finds   *)
(* in the file of an import is what parseVendorRows makes of it.           *)
(***************************************************************************)
EXTENDS WorkerJobs, VendorTables

CONSTANT SourceFile  \* import -> the file it was created for

ASSUME VendorImportsAssumption ==
  \A j \in ImportJobs : \E parsed \in ParseVendorRows(SourceFile[j]) :
    FileOf[j] = CodesOf(parsed, NoCode)

\* A table imports the same vendors from a CSV file as from a workbook, and reports its
\* rows under the same numbers, whatever commas, quotes and blanks its cells hold
\* (parseCsvLine, parseVendorRowsFromCsv, parseVendorRowsFromXlsx); only a row of empty
\* cells makes the one fail and not the other. The tables do not change, so it is asked
\* before the first job is created.
TablesAreReadAlike ==
  (\A j \in Jobs : status[j] = "NONE") => \A table \in Tables : ReadAlike(table)
=============================================================================
