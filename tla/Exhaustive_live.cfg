SPECIFICATION Spec
CONSTANT Jobs <- MCLive
PROPERTY Finishes
