SPECIFICATION Spec
CONSTANTS
 Job = {j1, j2, i1, t1, x1, x2}
 GoldRun = {j1, j2}
 Publication = {p1, p2}
 Editor = {e}
 NoPublication = NoPublication
 Export = {j1, j2}
 Owner = {o}
 SignalImport = {i1}
 TenantExport = {t1}
 Rows = 2
 OcrEvent = {j1, j2}
 ExtractEvent = {x1, x2}
 PipelineStep = {s}
 Manual = {m}
 Pages = 2
 IndexJob = {j1, j2}
 EmbedJob = {x1, x2}
 Chunks = 2
 SysJob = {y1}
 MaxClaims = 2
 NoOne = NoOne
 MaxAttempts = 2
 MaxFaults = 1
 NoJob = NoJob
CHECK_DEADLOCK FALSE
SYMMETRY Symmetry
INVARIANTS EventJobsTypeOK PublicationServed LastStatusTruthful EffectsAccounted OffStaysOff EventJobsAttended
