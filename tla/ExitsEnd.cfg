\* A breach, a stop request and a demanded exit come to an end.
SPECIFICATION MCSpec
PROPERTIES
    ExitsComplete
    RequestsTakeEffect
