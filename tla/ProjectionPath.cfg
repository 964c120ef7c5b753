SPECIFICATION Spec
CONSTANTS
    Chars = {"space", "slash"}
    MaxEvent = 2
    MaxWritten = 4
    MaxPage = 5
    Base = 2
INVARIANTS EventsSurvive URLSurvives CursorIsLast
CHECK_DEADLOCK FALSE
