\* Links whose path is relative.
SPECIFICATION Spec
CONSTANTS MaxChars = 1 MaxNames = 1 MaxFollow = 4
    Root = "root" NoNode = "none"
INVARIANT RelativeLinksLead
