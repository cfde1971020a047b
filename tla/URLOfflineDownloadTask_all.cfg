SPECIFICATION Spec
CONSTANTS
    Size = 4
    MaxRestarts = 3
    Servers = {"ranges", "page", "whole", "unknown"}
CHECK_DEADLOCK FALSE
INVARIANT FileIsPrefix
INVARIANT ReportIsTrue
